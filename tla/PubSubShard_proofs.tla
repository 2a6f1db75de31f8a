------------------------- MODULE PubSubShard_proofs -------------------------
(***************************************************************************)
(* Proofs about PubSubShard, for any topics, batches and number of events: *)
(* types, that no topic is in two unanswered commands of one type, and     *)
(* that what the shard takes as confirmed the server does send.            *)
(* The invariants are about one line of commands: those the server has     *)
(* answered, whose answers have not been read, before those it has not.    *)
(***************************************************************************)
EXTENDS PubSubShard, Integers, FiniteSetTheorems, FunctionTheorems, SequenceTheorems,
        TLAPS

-----------------------------------------------------------------------------
(* The invariants.                                                         *)

Verdicts == {"accepted", "rejected", "badauth"}

Replies ==
    [type : Verdicts, command : Commands] \cup [type : {"MESSAGE"}, topic : Topics]
    \cup [type : {"PONG", "RECONNECT"}]

\* The command that r answers; Ping stands for none.
Answered(r) == IF r.type \in Verdicts THEN r.command ELSE Ping

LineOf(rs, qs) ==
    [i \in 1 .. Len(rs) + Len(qs) |->
        IF i <= Len(rs) THEN Answered(rs[i]) ELSE qs[i - Len(rs)]]

\* The commands on their way, oldest first.
Line == LineOf(replies, requests)

Meets(c, S) == c.topics \cap S # {}

\* Commands name topics, of one type different ones, and a LISTEN is not sent
\* while an UNLISTEN of the same topic is on its way.
OrderlyIn(L) ==
    \A i \in DOMAIN L :
      /\ L[i] # Ping => L[i].topics # {}
      /\ \A j \in DOMAIN L :
           i < j /\ (L[i].type = "UNLISTEN" \/ L[i].type = L[j].type)
             => ~Meets(L[i], L[j].topics)

Orderly == OrderlyIn(Line)

AllIn(L, P) == \A i \in DOMAIN L : L[i] # Ping => L[i] \in P

LatestIn(L, P) ==
    /\ \A c \in P : \E i \in DOMAIN L : L[i] = c
    /\ \A i, j \in DOMAIN L : i < j /\ L[i] \in P /\ L[j] # Ping => L[j] \in P

\* s.pending is what is on its way, but for what stop(true) has made the shard
\* forget: the older part of the line, and nothing is confirmed since.
Remembered ==
    /\ LatestIn(Line, pending)
    /\ ~cancelled \/ submitted # {} => AllIn(Line, pending)

FitsIn(L, d) ==
    /\ d.added \cap d.removed = {}
    /\ \A i \in DOMAIN L :
         /\ ~Meets(L[i], d.added)
         /\ L[i].type = "UNLISTEN" => ~Meets(L[i], d.removed)

\* What syncTopics has found to do crosses with nothing on its way.
DiffFits == run = "sync" => FitsIn(Line, diff)

\* Reply i says that a command of this type with t was carried out.
Says(i, type, t) ==
    /\ replies[i].type = "accepted" /\ replies[i].command \in pending
    /\ replies[i].command.type = type /\ t \in replies[i].command.topics

\* t is confirmed, or will be when the replies are read.
Listened(t) ==
    t \in submitted \/ \E i \in DOMAIN replies : Says(i, "LISTEN", t)

\* The server has stopped to send a confirmed topic only when the shard has
\* asked it to and has not read the answer.
Served ==
    \A t \in Topics :
        Listened(t) => t \in server \/ \E i \in DOMAIN replies : Says(i, "UNLISTEN", t)

IInv == TypeOK /\ Orderly /\ Remembered /\ DiffFits /\ Served

-----------------------------------------------------------------------------
(* Batches.                                                                *)

LEMMA Finite ==
    ASSUME NEW S \in SUBSET Topics
    PROVE  IsFiniteSet(S) /\ Cardinality(S) \in Nat
           /\ (Cardinality(S) = 0 <=> S = {})
<1>1. IsFiniteSet(S)
  BY PubSubShardAssumption, FS_Subset
<1> QED
  BY <1>1, FS_CardinalityType, FS_EmptySet

\* How many batches there are, and that the last is not empty.
LEMMA Rounded ==
    ASSUME NEW n \in Nat, NEW B \in Nat \ {0}
    PROVE  /\ (n + B - 1) \div B \in Nat
           /\ ((n + B - 1) \div B - 1) * B < n
           /\ n = 0 => (n + B - 1) \div B = 0
<1> DEFINE d == (n + B - 1) \div B
<1>1. n + B - 1 \in Nat
  OBVIOUS
<1>2. d \in Nat /\ d * B <= n + B - 1
  BY <1>1, SMTT(30)
<1>3. n = 0 => d = 0
  BY SMTT(30)
<1> HIDE DEF d
<1>4. (d - 1) * B = d * B - B
  BY <1>2, SMTT(30)
<1>5. d * B \in Int
  BY <1>2
<1> QED
  BY <1>2, <1>3, <1>4, <1>5 DEF d

\* The cells of a table whose rows have B cells, the last one m.
LEMMA Table ==
    ASSUME NEW n \in Nat \ {0}, NEW B \in Nat, NEW m \in Nat
    PROVE  LET cells == ((1 .. n-1) \X (1 .. B)) \cup ({n} \X (1 .. m))
           IN  IsFiniteSet(cells) /\ Cardinality(cells) = (n-1) * B + m
<1> DEFINE P == (1 .. n-1) \X (1 .. B)
           Q == {n} \X (1 .. m)
<1>1. /\ IsFiniteSet(1 .. n-1) /\ Cardinality(1 .. n-1) = n-1
      /\ IsFiniteSet(1 .. B) /\ Cardinality(1 .. B) = B
      /\ IsFiniteSet(1 .. m) /\ Cardinality(1 .. m) = m
  <2>1. ASSUME NEW k \in Nat
        PROVE  IsFiniteSet(1 .. k) /\ Cardinality(1 .. k) = k
    BY FS_Interval, 1 \in Int, k \in Int
  <2> QED
    BY <2>1, n-1 \in Nat
<1>2. IsFiniteSet({n}) /\ Cardinality({n}) = 1
  BY FS_Singleton
<1>3. IsFiniteSet(P) /\ Cardinality(P) = (n-1) * B
  BY <1>1, FS_Product
<1>4. IsFiniteSet(Q) /\ Cardinality(Q) = m
  <2>1. IsFiniteSet(Q) /\ Cardinality(Q) = Cardinality({n}) * Cardinality(1 .. m)
    BY <1>1, <1>2, FS_Product, Zenon
  <2> QED
    BY <1>1, <1>2, <2>1
<1>5. P \cap Q = {}
  OBVIOUS
<1> HIDE DEF P, Q
<1>6. IsFiniteSet(P \cup Q) /\ Cardinality(P \cup Q)
         = Cardinality(P) + Cardinality(Q) - Cardinality(P \cap Q)
  BY <1>3, <1>4, FS_Union
<1>7. Cardinality(P \cap Q) = 0
  BY <1>5, FS_EmptySet
<1>8. (n-1) * B \in Int
  OBVIOUS
<1> QED
  BY <1>3, <1>4, <1>6, <1>7, <1>8 DEF P, Q

\* Sets whose sizes add up to that of their union are disjoint.
LEMMA CountedApart ==
    ASSUME NEW S \in SUBSET Topics, NEW n \in Nat \ {0}, NEW B \in Nat,
           NEW b \in [1 .. n -> SUBSET S], UNION {b[i] : i \in 1 .. n} = S,
           \A i \in 1 .. n :
              Cardinality(b[i]) = IF i < n THEN B ELSE Cardinality(S) - (n-1) * B
    PROVE  \A i, j \in 1 .. n : b[i] \cap b[j] # {} => i = j
<1> DEFINE m == Cardinality(S) - (n-1) * B
           Numbering(i) == CHOOSE f \in Bijection(1 .. Cardinality(b[i]), b[i]) : TRUE
           cells == ((1 .. n-1) \X (1 .. B)) \cup ({n} \X (1 .. m))
           place == [p \in cells |-> Numbering(p[1])[p[2]]]
<1>1. \A i \in 1 .. n : /\ b[i] \in SUBSET S /\ IsFiniteSet(b[i])
                        /\ Cardinality(b[i]) \in Nat
  BY Finite
<1>2. m \in Nat /\ Cardinality(b[n]) = m /\ \A i \in 1 .. n-1 : Cardinality(b[i]) = B
  BY <1>1, n \in 1 .. n
<1> HIDE DEF m
<1>3. ASSUME NEW i \in 1 .. n
      PROVE  /\ Numbering(i) \in [1 .. Cardinality(b[i]) -> b[i]]
             /\ \A x \in b[i] : \E q \in 1 .. Cardinality(b[i]) : Numbering(i)[q] = x
  <2>1. Bijection(1 .. Cardinality(b[i]), b[i]) # {}
    BY <1>1, FS_CardinalityType DEF ExistsBijection
  <2>2. Numbering(i) \in Bijection(1 .. Cardinality(b[i]), b[i])
    BY <2>1
  <2> HIDE DEF Numbering
  <2> QED
    BY <2>2 DEF Bijection, Injection, Surjection
<1>4. \A p \in cells : p[1] \in 1 .. n /\ p[2] \in 1 .. Cardinality(b[p[1]])
  BY <1>2
<1>5. \A i \in 1 .. n : \A q \in 1 .. Cardinality(b[i]) : <<i, q>> \in cells
  <2> SUFFICES ASSUME NEW i \in 1 .. n, NEW q \in 1 .. Cardinality(b[i])
               PROVE  <<i, q>> \in cells
    OBVIOUS
  <2>1. i \in 1 .. n-1 \/ i = n
    OBVIOUS
  <2> QED
    BY <1>2, <2>1
<1> HIDE DEF cells, Numbering
<1>6. place \in [cells -> S]
  <2> SUFFICES ASSUME NEW p \in cells PROVE Numbering(p[1])[p[2]] \in S
    OBVIOUS
  <2> QED
    BY <1>1, <1>3, <1>4
<1>7. ASSUME NEW i \in 1 .. n, NEW x \in b[i]
      PROVE  \E p \in cells : p[1] = i /\ place[p] = x
  <2>1. PICK q \in 1 .. Cardinality(b[i]) : Numbering(i)[q] = x
    BY <1>3, <1>7
  <2>2. <<i, q>> \in cells /\ place[<<i, q>>] = x
    BY <1>5, <2>1
  <2> QED
    BY <2>2
<1> HIDE DEF place
<1>8. place \in Surjection(cells, S)
  <2>1. \A x \in S : \E p \in cells : place[p] = x
    BY <1>7
  <2> QED
    BY <1>6, <2>1 DEF Surjection
<1>9. IsFiniteSet(cells) /\ Cardinality(cells) = Cardinality(S)
  <2>1. IsFiniteSet(cells) /\ Cardinality(cells) = (n-1) * B + m
    BY <1>2, Table DEF cells
  <2>2. (n-1) * B \in Int /\ Cardinality(S) \in Int
    BY Finite
  <2> QED
    BY <2>1, <2>2 DEF m
<1>10. place \in Injection(cells, S)
  BY <1>8, <1>9, FS_Surjection
<1>11. \A p, q \in cells : place[p] = place[q] => p = q
  BY <1>10 DEF Injection, IsInjective
<1> QED
  BY <1>7, <1>11

\* What syncTopics sends for S: commands of the type, each with topics of S,
\* no two with the same.
LEMMA Batched ==
    ASSUME NEW type \in {"LISTEN", "UNLISTEN"}, NEW S \in SUBSET Topics,
           NEW cs \in Batchings(type, S)
    PROVE  /\ cs \in Seq(Commands)
           /\ \A i \in 1 .. Len(cs) : /\ cs[i].type = type
                                      /\ cs[i].topics \subseteq S /\ cs[i].topics # {}
           /\ \A i, j \in 1 .. Len(cs) : i # j => ~Meets(cs[i], cs[j].topics)
<1> DEFINE B == ListenBatchSize
           N == Cardinality(S)
           n == (N + B - 1) \div B
<1>1. /\ B \in Nat \ {0} /\ N \in Nat /\ n \in Nat /\ (n - 1) * B < N
      /\ (n - 1) * B \in Int
  <2>1. B \in Nat \ {0} /\ N \in Nat
    BY PubSubShardAssumption, Finite
  <2>2. n \in Nat /\ (n - 1) * B < N
    BY <2>1, Rounded
  <2> HIDE DEF n
  <2> QED
    BY <2>1, <2>2
<1>2. PICK b \in [1 .. n -> SUBSET S] :
         /\ UNION {b[i] : i \in 1 .. n} = S
         /\ \A i \in 1 .. n : Cardinality(b[i]) = IF i < n THEN B ELSE N - (n - 1) * B
         /\ cs = [i \in 1 .. n |-> [type |-> type, topics |-> b[i]]]
  BY DEF Batchings
<1> HIDE DEF B, N, n
<1>3. ASSUME NEW i \in 1 .. n
      PROVE  b[i] # {} /\ b[i] \subseteq S /\ [type |-> type, topics |-> b[i]] \in Commands
  <2>1. b[i] \in SUBSET S
    BY <1>2
  <2>2. Cardinality(b[i]) # 0
    BY <1>1, <1>2
  <2> QED
    BY <2>1, <2>2, Finite DEF Commands
<1>4. \A i, j \in 1 .. n : b[i] \cap b[j] # {} => i = j
  <2>1. CASE n = 0
    BY <2>1
  <2>2. CASE n # 0
    BY <1>1, <1>2, <2>2, CountedApart DEF N
  <2> QED
    BY <2>1, <2>2
<1>5. cs \in [1 .. n -> Commands] /\ \A i \in 1 .. n : cs[i] = [type |-> type, topics |-> b[i]]
  BY <1>2, <1>3
<1>6. cs \in Seq(Commands) /\ Len(cs) = n
  BY <1>1, <1>5
<1> QED
  BY <1>3, <1>4, <1>5, <1>6 DEF Meets

-----------------------------------------------------------------------------
(* The line.                                                               *)

Requests == Commands \cup {Ping}

LEMMA AnsweredType ==
    ASSUME NEW r \in Replies
    PROVE  /\ Answered(r) \in Requests
           /\ r.type \in Verdicts => r.command \in Commands /\ Answered(r) = r.command
           /\ r.type \notin Verdicts => Answered(r) = Ping
           /\ r.type = "MESSAGE" => r.topic \in Topics
BY DEF Replies, Verdicts, Answered, Requests

LEMMA PingIsNone == Ping \notin Commands
BY DEF Ping, Commands

LEMMA LineType ==
    ASSUME NEW rs \in Seq(Replies), NEW qs \in Seq(Requests)
    PROVE  /\ Len(rs) \in Nat /\ Len(qs) \in Nat
           /\ DOMAIN rs = 1 .. Len(rs) /\ DOMAIN qs = 1 .. Len(qs)
           /\ DOMAIN LineOf(rs, qs) = 1 .. Len(rs) + Len(qs)
           /\ \A i \in DOMAIN rs :
                /\ rs[i] \in Replies /\ i \in DOMAIN LineOf(rs, qs)
                /\ LineOf(rs, qs)[i] = Answered(rs[i])
           /\ \A i \in DOMAIN qs :
                /\ qs[i] \in Requests /\ Len(rs) + i \in DOMAIN LineOf(rs, qs)
                /\ LineOf(rs, qs)[Len(rs) + i] = qs[i]
           /\ \A i \in DOMAIN LineOf(rs, qs) :
                LineOf(rs, qs)[i] \in Requests
<1>1. /\ Len(rs) \in Nat /\ Len(qs) \in Nat
      /\ DOMAIN rs = 1 .. Len(rs) /\ DOMAIN qs = 1 .. Len(qs)
      /\ \A i \in 1 .. Len(rs) : rs[i] \in Replies
      /\ \A i \in 1 .. Len(qs) : qs[i] \in Requests
  BY LenProperties, ElementOfSeq
<1>2. DOMAIN LineOf(rs, qs) = 1 .. Len(rs) + Len(qs)
      /\ \A i \in 1 .. Len(rs) + Len(qs) :
            LineOf(rs, qs)[i] = IF i <= Len(rs) THEN Answered(rs[i]) ELSE qs[i - Len(rs)]
  BY DEF LineOf
<1>3. \A i \in 1 .. Len(rs) + Len(qs) : i <= Len(rs) \/ i - Len(rs) \in 1 .. Len(qs)
  BY <1>1
<1>4. \A i \in 1 .. Len(rs) + Len(qs) : LineOf(rs, qs)[i] \in Requests
  BY <1>1, <1>2, <1>3, AnsweredType
<1>5. \A i \in 1 .. Len(qs) :
         /\ Len(rs) + i \in 1 .. Len(rs) + Len(qs)
         /\ LineOf(rs, qs)[Len(rs) + i] = qs[i]
  <2> SUFFICES ASSUME NEW i \in 1 .. Len(qs)
               PROVE  /\ Len(rs) + i \in 1 .. Len(rs) + Len(qs)
                      /\ LineOf(rs, qs)[Len(rs) + i] = qs[i]
    OBVIOUS
  <2>1. Len(rs) + i \in 1 .. Len(rs) + Len(qs) /\ ~(Len(rs) + i <= Len(rs))
        /\ (Len(rs) + i) - Len(rs) = i
    BY <1>1
  <2> QED
    BY <1>2, <2>1
<1> QED
  BY <1>1, <1>2, <1>4, <1>5

\* A reply is read.
LEMMA LineRead ==
    ASSUME NEW rs \in Seq(Replies), NEW qs \in Seq(Requests), rs # <<>>
    PROVE  /\ LineOf(rs, qs)[1] = Answered(Head(rs)) /\ Head(rs) = rs[1]
           /\ 1 \in DOMAIN rs /\ 1 \in DOMAIN LineOf(rs, qs)
           /\ \A i \in DOMAIN Tail(rs) : i + 1 \in DOMAIN rs /\ Tail(rs)[i] = rs[i + 1]
           /\ \A i \in DOMAIN rs : i # 1 => i - 1 \in DOMAIN Tail(rs)
                                          /\ Tail(rs)[i - 1] = rs[i]
           /\ \A i \in DOMAIN LineOf(Tail(rs), qs) :
                /\ i + 1 \in DOMAIN LineOf(rs, qs)
                /\ LineOf(Tail(rs), qs)[i] = LineOf(rs, qs)[i + 1]
           /\ \A i \in DOMAIN LineOf(rs, qs) : i # 1 =>
                /\ i - 1 \in DOMAIN LineOf(Tail(rs), qs)
                /\ LineOf(Tail(rs), qs)[i - 1] = LineOf(rs, qs)[i]
<1> DEFINE m == Len(rs)
           n == Len(qs)
<1>1. /\ m \in Nat \ {0} /\ n \in Nat /\ Tail(rs) \in Seq(Replies)
      /\ Len(Tail(rs)) = m - 1 /\ DOMAIN Tail(rs) = 1 .. m - 1 /\ DOMAIN rs = 1 .. m
      /\ \A i \in 1 .. m - 1 : Tail(rs)[i] = rs[i + 1]
  BY LenProperties, HeadTailProperties, EmptySeq
<1>2. Head(rs) = rs[1]
  OBVIOUS
<1>3. /\ DOMAIN LineOf(rs, qs) = 1 .. m + n
      /\ \A i \in 1 .. m + n :
            LineOf(rs, qs)[i] = IF i <= m THEN Answered(rs[i]) ELSE qs[i - m]
  BY DEF LineOf
<1>4. /\ DOMAIN LineOf(Tail(rs), qs) = 1 .. (m - 1) + n
      /\ \A i \in 1 .. (m - 1) + n :
            LineOf(Tail(rs), qs)[i] =
               IF i <= m - 1 THEN Answered(Tail(rs)[i]) ELSE qs[i - (m - 1)]
  BY <1>1 DEF LineOf
<1> HIDE DEF m, n
<1>5. ASSUME NEW i \in 1 .. (m - 1) + n
      PROVE  /\ i + 1 \in 1 .. m + n
             /\ LineOf(Tail(rs), qs)[i] = LineOf(rs, qs)[i + 1]
  <2>1. i + 1 \in 1 .. m + n /\ (i <= m - 1 <=> i + 1 <= m) /\ i - (m - 1) = (i + 1) - m
        /\ (i <= m - 1 => i \in 1 .. m - 1)
    BY <1>1
  <2> QED
    BY <1>1, <1>3, <1>4, <2>1
<1>6. ASSUME NEW i \in 1 .. m + n, i # 1
      PROVE  i - 1 \in 1 .. (m - 1) + n /\ (i - 1) + 1 = i
  BY <1>1, <1>6
<1>7. ASSUME NEW i \in 1 .. m, i # 1
      PROVE  i - 1 \in 1 .. m - 1 /\ (i - 1) + 1 = i
  BY <1>1, <1>7
<1>8. 1 \in 1 .. m /\ 1 \in 1 .. m + n /\ 1 <= m
  BY <1>1
<1>9. \A i \in 1 .. m - 1 : i + 1 \in 1 .. m
  BY <1>1
<1>10. LineOf(rs, qs)[1] = Answered(Head(rs))
  BY <1>2, <1>3, <1>8
<1>11. \A i \in 1 .. m + n : i # 1 =>
         /\ i - 1 \in 1 .. (m - 1) + n
         /\ LineOf(Tail(rs), qs)[i - 1] = LineOf(rs, qs)[i]
  BY <1>5, <1>6
<1>12. \A i \in 1 .. m : i # 1 => i - 1 \in 1 .. m - 1 /\ Tail(rs)[i - 1] = rs[i]
  BY <1>1, <1>7
<1> QED
  BY <1>1, <1>2, <1>3, <1>4, <1>5, <1>8, <1>9, <1>10, <1>11, <1>12

\* The server answers: the command stays where it is in the line.
LEMMA LineAnswered ==
    ASSUME NEW rs \in Seq(Replies), NEW qs \in Seq(Requests), qs # <<>>,
           NEW r \in Replies, Answered(r) = Head(qs)
    PROVE  LineOf(Append(rs, r), Tail(qs)) = LineOf(rs, qs)
<1> DEFINE m == Len(rs)
           n == Len(qs)
<1>1. /\ m \in Nat /\ n \in Nat \ {0}
      /\ Len(Append(rs, r)) = m + 1 /\ Len(Tail(qs)) = n - 1
      /\ \A i \in 1 .. m : Append(rs, r)[i] = rs[i]
      /\ Append(rs, r)[m + 1] = r
      /\ \A i \in 1 .. n - 1 : Tail(qs)[i] = qs[i + 1]
  BY LenProperties, HeadTailProperties, EmptySeq, AppendProperties
<1>2. Head(qs) = qs[1]
  OBVIOUS
<1> HIDE DEF m, n
<1>3. (m + 1) + (n - 1) = m + n
  BY <1>1
<1>4. ASSUME NEW i \in 1 .. m + n
      PROVE  (IF i <= m + 1 THEN Answered(Append(rs, r)[i]) ELSE Tail(qs)[i - (m + 1)])
             = (IF i <= m THEN Answered(rs[i]) ELSE qs[i - m])
  <2>1. CASE i <= m
    <3>1. i <= m + 1 /\ i \in 1 .. m
      BY <1>1, <2>1
    <3> QED
      BY <1>1, <2>1, <3>1
  <2>2. CASE i = m + 1
    <3>1. i <= m + 1 /\ ~(i <= m) /\ i - m = 1
      BY <1>1, <2>2
    <3> QED
      BY <1>1, <1>2, <2>2, <3>1
  <2>3. CASE i > m + 1
    <3>1. /\ ~(i <= m + 1) /\ ~(i <= m)
          /\ i - (m + 1) \in 1 .. n - 1 /\ (i - (m + 1)) + 1 = i - m
      BY <1>1, <2>3
    <3> QED
      BY <1>1, <3>1
  <2> QED
    BY <1>1, <2>1, <2>2, <2>3
<1> QED
  BY <1>1, <1>3, <1>4 DEF LineOf, m, n

\* The server sends something that answers no command.
LEMMA LineSent ==
    ASSUME NEW rs \in Seq(Replies), NEW qs \in Seq(Requests),
           NEW r \in Replies, Answered(r) = Ping
    PROVE  LET k == Len(rs) + 1
               new == LineOf(Append(rs, r), qs)
               old == LineOf(rs, qs)
           IN  /\ new[k] = Ping
               /\ \A i \in DOMAIN new :
                    /\ i < k => i \in DOMAIN old /\ new[i] = old[i]
                    /\ i > k => i - 1 \in DOMAIN old /\ new[i] = old[i - 1]
               /\ \A i \in DOMAIN old :
                    /\ i < k => i \in DOMAIN new /\ new[i] = old[i]
                    /\ i >= k => i + 1 \in DOMAIN new /\ new[i + 1] = old[i]
<1> DEFINE m == Len(rs)
           n == Len(qs)
           new == LineOf(Append(rs, r), qs)
           old == LineOf(rs, qs)
<1>1. /\ m \in Nat /\ n \in Nat /\ Len(Append(rs, r)) = m + 1
      /\ \A i \in 1 .. m : Append(rs, r)[i] = rs[i]
      /\ Append(rs, r)[m + 1] = r
  BY LenProperties, AppendProperties
<1>2. /\ DOMAIN old = 1 .. m + n
      /\ \A i \in 1 .. m + n : old[i] = IF i <= m THEN Answered(rs[i]) ELSE qs[i - m]
  BY DEF LineOf
<1>3. /\ DOMAIN new = 1 .. (m + 1) + n
      /\ \A i \in 1 .. (m + 1) + n :
           new[i] = IF i <= m + 1 THEN Answered(Append(rs, r)[i]) ELSE qs[i - (m + 1)]
  BY <1>1 DEF LineOf
<1> HIDE DEF m, n, new, old
<1>4. new[m + 1] = Ping
  BY <1>1, <1>3, m + 1 \in 1 .. (m + 1) + n, m + 1 <= m + 1
<1>5. ASSUME NEW i \in 1 .. m
      PROVE  new[i] = old[i] /\ i \in 1 .. m + n /\ i \in 1 .. (m + 1) + n
  <2>1. i \in 1 .. m + n /\ i \in 1 .. (m + 1) + n /\ i <= m /\ i <= m + 1
    BY <1>1
  <2> QED
    BY <1>1, <1>2, <1>3, <2>1
<1>6. ASSUME NEW i \in m + 1 .. m + n
      PROVE  new[i + 1] = old[i] /\ i \in 1 .. m + n /\ i + 1 \in 1 .. (m + 1) + n
  <2>1. /\ i \in 1 .. m + n /\ i + 1 \in 1 .. (m + 1) + n /\ ~(i <= m)
        /\ ~(i + 1 <= m + 1) /\ (i + 1) - (m + 1) = i - m
    BY <1>1
  <2> QED
    BY <1>2, <1>3, <2>1
<1>7. ASSUME NEW i \in 1 .. (m + 1) + n
      PROVE  /\ i < m + 1 => i \in 1 .. m
             /\ i > m + 1 => i - 1 \in m + 1 .. m + n /\ (i - 1) + 1 = i
  BY <1>1
<1>8. ASSUME NEW i \in 1 .. m + n
      PROVE  /\ i < m + 1 => i \in 1 .. m
             /\ i >= m + 1 => i \in m + 1 .. m + n
  BY <1>1
<1>9. \A i \in DOMAIN new :
         /\ i < m + 1 => i \in DOMAIN old /\ new[i] = old[i]
         /\ i > m + 1 => i - 1 \in DOMAIN old /\ new[i] = old[i - 1]
  <2> SUFFICES ASSUME NEW i \in 1 .. (m + 1) + n
               PROVE  /\ i < m + 1 => i \in DOMAIN old /\ new[i] = old[i]
                      /\ i > m + 1 => i - 1 \in DOMAIN old /\ new[i] = old[i - 1]
    BY <1>3
  <2>1. ASSUME i < m + 1 PROVE i \in DOMAIN old /\ new[i] = old[i]
    BY <2>1, <1>2, <1>5, <1>7
  <2>2. ASSUME i > m + 1 PROVE i - 1 \in DOMAIN old /\ new[i] = old[i - 1]
    <3>1. i - 1 \in m + 1 .. m + n /\ (i - 1) + 1 = i
      BY <2>2, <1>7
    <3>2. new[(i - 1) + 1] = old[i - 1] /\ i - 1 \in 1 .. m + n
      BY <3>1, <1>6
    <3> QED
      BY <3>1, <3>2, <1>2
  <2> QED
    BY <2>1, <2>2
<1>10. \A i \in DOMAIN old :
         /\ i < m + 1 => i \in DOMAIN new /\ new[i] = old[i]
         /\ i >= m + 1 => i + 1 \in DOMAIN new /\ new[i + 1] = old[i]
  BY <1>2, <1>3, <1>5, <1>6, <1>8
<1> QED
  BY <1>4, <1>9, <1>10 DEF m, new, old

\* The shard sends more.
LEMMA LineMore ==
    ASSUME NEW rs \in Seq(Replies), NEW qs \in Seq(Requests), NEW more \in Seq(Requests)
    PROVE  LET n == Len(rs) + Len(qs)
               new == LineOf(rs, qs \o more)
               old == LineOf(rs, qs)
           IN  /\ n \in Nat /\ DOMAIN old = 1 .. n /\ DOMAIN new = 1 .. n + Len(more)
               /\ \A i \in 1 .. n : new[i] = old[i]
               /\ \A i \in 1 .. Len(more) : new[n + i] = more[i]
<1> DEFINE m == Len(rs)
           n == Len(qs)
           l == Len(more)
<1>1. /\ m \in Nat /\ n \in Nat /\ l \in Nat /\ Len(qs \o more) = n + l
      /\ \A i \in 1 .. n + l : (qs \o more)[i] = IF i <= n THEN qs[i] ELSE more[i - n]
  BY LenProperties, ConcatProperties
<1>2. /\ DOMAIN LineOf(rs, qs) = 1 .. m + n
      /\ \A i \in 1 .. m + n :
           LineOf(rs, qs)[i] = IF i <= m THEN Answered(rs[i]) ELSE qs[i - m]
  BY DEF LineOf
<1>3. /\ DOMAIN LineOf(rs, qs \o more) = 1 .. m + (n + l)
      /\ \A i \in 1 .. m + (n + l) :
           LineOf(rs, qs \o more)[i] = IF i <= m THEN Answered(rs[i]) ELSE (qs \o more)[i - m]
  BY <1>1 DEF LineOf
<1> HIDE DEF m, n, l
<1>4. ASSUME NEW i \in 1 .. m + n
      PROVE  LineOf(rs, qs \o more)[i] = LineOf(rs, qs)[i]
  <2>1. i \in 1 .. m + (n + l) /\ (~(i <= m) => i - m \in 1 .. n + l /\ i - m <= n)
    BY <1>1
  <2> QED
    BY <1>1, <1>2, <1>3, <2>1
<1>5. ASSUME NEW i \in 1 .. l
      PROVE  LineOf(rs, qs \o more)[(m + n) + i] = more[i]
  <2>1. /\ (m + n) + i \in 1 .. m + (n + l) /\ ~((m + n) + i <= m)
        /\ ((m + n) + i) - m = n + i /\ n + i \in 1 .. n + l /\ ~(n + i <= n)
        /\ (n + i) - n = i
    BY <1>1
  <2> QED
    BY <1>1, <1>3, <2>1
<1>6. m + (n + l) = (m + n) + l /\ m + n \in Nat
  BY <1>1
<1> QED
  BY <1>2, <1>3, <1>4, <1>5, <1>6 DEF m, n, l

-----------------------------------------------------------------------------
(* Types.                                                                  *)

\* TypeOK in the words of this module.
LEMMA QueueTypes ==
    TypeOK => /\ replies \in Seq(Replies) /\ requests \in Seq(Requests)
              /\ Len(replies) \in Nat /\ Len(requests) \in Nat
BY LenProperties DEF TypeOK, Replies, Requests, Verdicts

LEMMA Fewer ==
    ASSUME NEW S \in SUBSET Topics, NEW T \in SUBSET S, Cardinality(S) <= ShardTopicLimit
    PROVE  Cardinality(T) <= ShardTopicLimit
BY Finite, PubSubShardAssumption, FS_Subset

LEMMA EventType ==
    ASSUME TypeOK, Event
    PROVE  events' \in 0 .. MaxEvents
BY PubSubShardAssumption DEF TypeOK, Event

LEMMA TypesStep ==
    ASSUME TypeOK, Next
    PROVE  TypeOK'
<1>0. /\ replies \in Seq(Replies) /\ requests \in Seq(Requests)
      /\ replies # <<>> => Tail(replies) \in Seq(Replies) /\ Head(replies) \in Replies
      /\ requests # <<>> => Tail(requests) \in Seq(Requests) /\ Head(requests) \in Requests
      /\ <<>> \in Seq(Replies) /\ <<>> \in Seq(Requests)
      /\ IsFiniteSet({}) /\ Cardinality({}) = 0
  BY QueueTypes, HeadTailProperties, EmptySeq, FS_EmptySet
<1>1. TypeOK' <=>
        /\ topics' \subseteq Topics /\ Cardinality(topics') <= ShardTopicLimit
        /\ submitted' \subseteq Topics
        /\ pending' \subseteq Commands
        /\ connected' \in BOOLEAN
        /\ status' \in {"disconnected", "connecting", "connected", "reconnecting"}
        /\ wake' \in BOOLEAN
        /\ run' \in RunAt
        /\ diff' \in [removed : SUBSET Topics, added : SUBSET Topics]
        /\ ping' \in {"due", "sent", "overdue", "quiet"}
        /\ queue' \in 0..EventBuffer
        /\ cancelled' \in BOOLEAN
        /\ requests' \in Seq(Requests) /\ replies' \in Seq(Replies)
        /\ server' \subseteq Topics
        /\ silent' \in BOOLEAN
        /\ events' \in 0..MaxEvents
  BY DEF TypeOK, Replies, Requests, Verdicts
<1> USE <1>0, <1>1 DEF TypeOK, shard, flow, network
<1>2. 0 <= ShardTopicLimit /\ {} \subseteq Topics
  BY PubSubShardAssumption
<1>3. CASE RunFinishes \/ ConnectionEnds
  BY <1>3 DEF RunFinishes, Finish, ConnectionEnds, RunAt
<1>4. CASE RunIdles \/ RunConnects \/ DialSucceeds \/ PauseEnds
  <2>1. CASE RunIdles \/ RunConnects \/ PauseEnds
    BY <2>1 DEF RunIdles, RunConnects, PauseEnds, RunAt
  <2>2. CASE DialSucceeds
    BY <2>2 DEF DialSucceeds, RunAt, NoDiff
  <2> QED
    BY <1>4, <2>1, <2>2
<1>5. CASE DialFails \/ SyncFails \/ ReadError
  BY <1>5, EventType DEF DialFails, SyncFails, ReadError, Break, RunAt
<1>6. CASE Serve
  <2>1. Ping \in Requests
    BY DEF Requests
  <2>2. requests' \in Seq(Requests)
    BY <1>6, <2>1, AppendProperties DEF Serve
  <2>3. ToRemove \in SUBSET Topics /\ ToAdd \in SUBSET Topics
    BY DEF ToRemove, ToAdd, Pending, Commands
  <2>4. diff' \in [removed : SUBSET Topics, added : SUBSET Topics]
    BY <1>6, <2>3 DEF Serve
  <2>5. ping' \in {"due", "sent", "overdue", "quiet"} /\ run' \in RunAt
    BY <1>6 DEF Serve, Break, RunAt
  <2> QED
    BY <1>6, <2>2, <2>4, <2>5 DEF Serve
<1>7. CASE SyncTopics
  <2>1. PICK removals \in Batchings("UNLISTEN", diff.removed),
             additions \in Batchings("LISTEN", diff.added) :
          /\ requests' = requests \o removals \o additions
          /\ pending' = pending \cup Sent(removals) \cup Sent(additions)
    BY <1>7 DEF SyncTopics
  <2>2. removals \in Seq(Commands) /\ additions \in Seq(Commands)
    BY Batched
  <2>3. removals \in Seq(Requests) /\ additions \in Seq(Requests)
    BY <2>2 DEF Requests
  <2>4. requests \o removals \in Seq(Requests)
    BY <2>3, ConcatProperties
  <2>5. requests' \in Seq(Requests)
    BY <2>1, <2>3, <2>4, ConcatProperties
  <2>6. Sent(removals) \subseteq Commands /\ Sent(additions) \subseteq Commands
    BY <2>2, LenProperties DEF Sent
  <2> QED
    BY <1>7, <2>1, <2>5, <2>6 DEF SyncTopics, RunAt
<1>8. CASE WaitWoken \/ WaitTimer \/ WaitCancelled
  BY <1>8 DEF WaitWoken, WaitTimer, WaitCancelled, Break, RunAt
<1>9. ASSUME NEW t, Received(t), shard' = shard, wake' = wake,
             ping' \in {"due", "sent", "overdue", "quiet"}, run' \in RunAt,
             queue' \in 0..EventBuffer
      PROVE  TypeOK'
  BY <1>9 DEF Received
<1>10. CASE Forgotten \/ Reconnect \/ Pong
  <2>1. CASE Forgotten
    BY <1>9, <2>1 DEF Forgotten, RunAt
  <2>2. CASE Reconnect
    BY <1>9, <2>2 DEF Reconnect, Break, RunAt
  <2>3. CASE Pong
    BY <1>9, <2>3 DEF Pong, RunAt
  <2> QED
    BY <1>10, <2>1, <2>2, <2>3
<1>11. CASE Message
  <2>1. queue' \in 0..EventBuffer
    BY <1>11, PubSubShardAssumption DEF Message
  <2> QED
    BY <1>9, <1>11, <2>1 DEF Message, RunAt
<1>12. CASE Accepted
  <2>1. submitted' \subseteq Topics /\ pending' \subseteq Commands
    BY <1>12 DEF Accepted, Commands
  <2> QED
    BY <1>12, <2>1 DEF Accepted, Received, Refresh, RunAt
<1>13. CASE Rejected
  <2>1. /\ topics' \subseteq topics /\ submitted' \subseteq submitted
        /\ pending' \subseteq pending /\ wake' \in BOOLEAN
    BY <1>13 DEF Rejected
  <2>2. Cardinality(topics') <= ShardTopicLimit
    BY <2>1, Fewer
  <2> QED
    BY <1>13, <2>1, <2>2 DEF Rejected, Received, Refresh, RunAt
<1>14. CASE BadAuth
  BY <1>14 DEF BadAuth, Received, Break, RunAt
<1>15. CASE Dispatch
  BY <1>15, PubSubShardAssumption DEF Dispatch
<1>16. ASSUME NEW t \in Topics, AddTopic(t)
       PROVE  TypeOK'
  <2>1. IsFiniteSet(topics) /\ Cardinality(topics) \in Nat
    BY Finite
  <2>2. Cardinality(topics \cup {t}) = Cardinality(topics) + 1
    BY <1>16, <2>1, FS_AddElement DEF AddTopic
  <2>3. Cardinality(topics') <= ShardTopicLimit
    BY <1>16, <2>1, <2>2, PubSubShardAssumption DEF AddTopic
  <2> QED
    BY <1>16, <2>3, EventType DEF AddTopic
<1>17. ASSUME NEW S \in SUBSET Topics, RemoveTopics(S)
       PROVE  TypeOK'
  <2>1. Cardinality(topics') <= ShardTopicLimit
    BY <1>17, Fewer DEF RemoveTopics
  <2> QED
    BY <1>17, <2>1, EventType DEF RemoveTopics
<1>18. ASSUME NEW clear \in BOOLEAN, Stop(clear)
       PROVE  TypeOK'
  BY <1>2, <1>18, EventType DEF Stop
<1>19. CASE PingDue \/ PongDeadline
  BY <1>19, EventType DEF PingDue, PongDeadline
<1>20. ASSUME NEW r \in Replies, Answer(r), requests # <<>>, server' \subseteq Topics,
              events' \in 0..MaxEvents
       PROVE  TypeOK'
  BY <1>20, AppendProperties DEF Answer
<1>21. CASE ServerAccepts \/ ServerRejects
  <2>1. Head(requests) \in Commands
    BY <1>21 DEF ServerAccepts, ServerRejects, Asked, Requests
  <2>2. \A type \in Verdicts : [type |-> type, command |-> Head(requests)] \in Replies
    BY <2>1 DEF Replies
  <2>3. CASE ServerAccepts
    BY <1>20, <2>1, <2>2, <2>3 DEF ServerAccepts, Asked, Commands, Verdicts
  <2>4. CASE ServerRejects
    BY <1>20, <2>2, <2>4, EventType DEF ServerRejects, Asked, Verdicts
  <2> QED
    BY <1>21, <2>3, <2>4
<1>22. CASE ServerPongs
  <2>1. [type |-> "PONG"] \in Replies
    BY DEF Replies
  <2> QED
    BY <1>20, <1>22, <2>1 DEF ServerPongs, Asked
<1>23. CASE ServerSends
  <2>1. [type |-> "RECONNECT"] \in Replies
        /\ \A t \in server : [type |-> "MESSAGE", topic |-> t] \in Replies
    BY DEF Replies
  <2>2. ASSUME NEW r \in Replies PROVE Append(replies, r) \in Seq(Replies)
    BY AppendProperties
  <2>3. \E r \in Replies : replies' = Append(replies, r)
    BY <1>23, <2>1 DEF ServerSends
  <2>4. replies' \in Seq(Replies)
    BY <2>2, <2>3
  <2> QED
    BY <1>23, <2>4, EventType DEF ServerSends
<1>24. CASE ServerFallsSilent
  BY <1>24, EventType DEF ServerFallsSilent
<1> QED
  BY <1>3, <1>4, <1>5, <1>6, <1>7, <1>8, <1>10, <1>11, <1>12, <1>13, <1>14, <1>15,
     <1>16, <1>17, <1>18, <1>19, <1>21, <1>22, <1>23, <1>24
     DEF Next, RunStep, Inbound, ServerStep

-----------------------------------------------------------------------------
(* What becomes of the line.                                               *)

Positions(L) == DOMAIN L \subseteq Nat \ {0}

LEMMA PingMeetsNone ==
    ASSUME NEW c, NEW S
    PROVE  ~Meets(Ping, S) /\ ~Meets(c, Ping.topics) /\ Ping.type = "PING"
BY DEF Meets, Ping

\* A command is on its way once.
LEMMA Distinct ==
    ASSUME NEW L, OrderlyIn(L), NEW i \in DOMAIN L, NEW j \in DOMAIN L, i < j,
           L[i] # Ping
    PROVE  L[i] # L[j]
BY DEF OrderlyIn, Meets

\* The first of L is gone.
Shifted(L, M) ==
    /\ \A i \in DOMAIN M : i + 1 \in DOMAIN L /\ M[i] = L[i + 1]
    /\ \A i \in DOMAIN L : i # 1 => i - 1 \in DOMAIN M /\ M[i - 1] = L[i]

LEMMA ShiftedHolds ==
    ASSUME NEW L, NEW M, NEW P, Positions(L), Positions(M), 1 \in DOMAIN L,
           Ping \notin P, Shifted(L, M), OrderlyIn(L), LatestIn(L, P)
    PROVE  /\ OrderlyIn(M)
           /\ LatestIn(M, P \ {L[1]})
           /\ AllIn(L, P) \/ L[1] \in P => AllIn(M, P \ {L[1]})
<1> USE DEF Positions
<1>1. OrderlyIn(M)
  <2> SUFFICES ASSUME NEW i \in DOMAIN M
               PROVE  /\ M[i] # Ping => M[i].topics # {}
                      /\ \A j \in DOMAIN M :
                           i < j /\ (M[i].type = "UNLISTEN" \/ M[i].type = M[j].type)
                             => ~Meets(M[i], M[j].topics)
    BY DEF OrderlyIn
  <2>1. i + 1 \in DOMAIN L /\ M[i] = L[i + 1]
    BY DEF Shifted
  <2>2. \A j \in DOMAIN M : j + 1 \in DOMAIN L /\ M[j] = L[j + 1] /\ (i < j => i + 1 < j + 1)
    BY DEF Shifted
  <2> QED
    BY <2>1, <2>2 DEF OrderlyIn
<1>2. \A j \in DOMAIN L : j # 1 /\ L[j] # Ping => L[j] # L[1]
  <2> SUFFICES ASSUME NEW j \in DOMAIN L, j # 1, L[j] # Ping, L[j] = L[1]
               PROVE  FALSE
    OBVIOUS
  <2>1. 1 < j
    OBVIOUS
  <2> QED
    BY <2>1, Distinct
<1>3. LatestIn(M, P \ {L[1]})
  <2>1. ASSUME NEW c \in P \ {L[1]}
        PROVE  \E i \in DOMAIN M : M[i] = c
    <3>1. PICK i \in DOMAIN L : L[i] = c
      BY DEF LatestIn
    <3>2. i # 1
      BY <3>1
    <3> QED
      BY <3>1, <3>2 DEF Shifted
  <2>2. ASSUME NEW i \in DOMAIN M, NEW j \in DOMAIN M, i < j, M[i] \in P, M[j] # Ping
        PROVE  M[j] \in P \ {L[1]}
    <3>1. i + 1 \in DOMAIN L /\ M[i] = L[i + 1] /\ j + 1 \in DOMAIN L /\ M[j] = L[j + 1]
          /\ i + 1 < j + 1 /\ j + 1 # 1
      BY <2>2 DEF Shifted
    <3>2. L[j + 1] \in P
      BY <2>2, <3>1 DEF LatestIn
    <3> QED
      BY <1>2, <2>2, <3>1, <3>2
  <2> QED
    BY <2>1, <2>2 DEF LatestIn
<1>4. ASSUME AllIn(L, P) \/ L[1] \in P, NEW i \in DOMAIN M, M[i] # Ping
      PROVE  M[i] \in P \ {L[1]}
  <2>1. i + 1 \in DOMAIN L /\ M[i] = L[i + 1] /\ i + 1 # 1 /\ 1 < i + 1
    BY DEF Shifted
  <2>2. L[i + 1] \in P
    BY <1>4, <2>1 DEF AllIn, LatestIn
  <2> QED
    BY <1>2, <1>4, <2>1, <2>2
<1> QED
  BY <1>1, <1>3, <1>4 DEF AllIn

\* What stands for no command is put at k.
Inserted(L, M, k) ==
    /\ M[k] = Ping
    /\ \A i \in DOMAIN M :
         /\ i < k => i \in DOMAIN L /\ M[i] = L[i]
         /\ i > k => i - 1 \in DOMAIN L /\ M[i] = L[i - 1]
    /\ \A i \in DOMAIN L :
         /\ i < k => i \in DOMAIN M /\ M[i] = L[i]
         /\ i >= k => i + 1 \in DOMAIN M /\ M[i + 1] = L[i]

LEMMA InsertedHolds ==
    ASSUME NEW L, NEW M, NEW k \in Nat, NEW P, Positions(L), Positions(M),
           Ping \notin P, Inserted(L, M, k)
    PROVE  /\ OrderlyIn(L) => OrderlyIn(M)
           /\ LatestIn(L, P) => LatestIn(M, P)
           /\ AllIn(L, P) => AllIn(M, P)
           /\ \A d : FitsIn(L, d) => FitsIn(M, d)
<1> USE DEF Positions
<1> DEFINE old(i) == IF i < k THEN i ELSE i - 1
<1>1. ASSUME NEW i \in DOMAIN M, M[i] # Ping
      PROVE  i # k /\ old(i) \in DOMAIN L /\ M[i] = L[old(i)]
  <2>1. i < k \/ i > k
    BY <1>1 DEF Inserted
  <2> QED
    BY <2>1 DEF Inserted
<1>2. ASSUME NEW i \in DOMAIN M, NEW j \in DOMAIN M, i < j, i # k, j # k
      PROVE  old(i) < old(j)
  BY <1>2
<1>3. ASSUME NEW i \in DOMAIN L
      PROVE  \E j \in DOMAIN M : M[j] = L[i]
  <2>1. i < k \/ i >= k
    OBVIOUS
  <2> QED
    BY <2>1 DEF Inserted
<1> HIDE DEF old
<1>4. ASSUME OrderlyIn(L) PROVE OrderlyIn(M)
  <2>1. ASSUME NEW i \in DOMAIN M, M[i] # Ping PROVE M[i].topics # {}
    BY <1>1, <1>4, <2>1 DEF OrderlyIn
  <2>2. ASSUME NEW i \in DOMAIN M, NEW j \in DOMAIN M, i < j,
               M[i].type = "UNLISTEN" \/ M[i].type = M[j].type
        PROVE  ~Meets(M[i], M[j].topics)
    <3>1. CASE M[i] = Ping \/ M[j] = Ping
      BY <3>1, PingMeetsNone
    <3>2. CASE M[i] # Ping /\ M[j] # Ping
      <4>1. /\ old(i) \in DOMAIN L /\ M[i] = L[old(i)]
            /\ old(j) \in DOMAIN L /\ M[j] = L[old(j)] /\ old(i) < old(j)
        BY <1>1, <1>2, <2>2, <3>2
      <4> QED
        BY <1>4, <2>2, <4>1 DEF OrderlyIn
    <3> QED
      BY <3>1, <3>2
  <2> QED
    BY <2>1, <2>2 DEF OrderlyIn
<1>5. ASSUME LatestIn(L, P) PROVE LatestIn(M, P)
  <2>1. \A c \in P : \E i \in DOMAIN M : M[i] = c
    BY <1>3, <1>5 DEF LatestIn
  <2>2. ASSUME NEW i \in DOMAIN M, NEW j \in DOMAIN M, i < j, M[i] \in P, M[j] # Ping
        PROVE  M[j] \in P
    <3>1. /\ old(i) \in DOMAIN L /\ M[i] = L[old(i)]
          /\ old(j) \in DOMAIN L /\ M[j] = L[old(j)] /\ old(i) < old(j)
      BY <1>1, <1>2, <2>2
    <3> QED
      BY <1>5, <2>2, <3>1 DEF LatestIn
  <2> QED
    BY <2>1, <2>2 DEF LatestIn
<1>6. AllIn(L, P) => AllIn(M, P)
  BY <1>1 DEF AllIn
<1>7. ASSUME NEW d, FitsIn(L, d) PROVE FitsIn(M, d)
  <2> SUFFICES ASSUME NEW i \in DOMAIN M
               PROVE  ~Meets(M[i], d.added)
                      /\ (M[i].type = "UNLISTEN" => ~Meets(M[i], d.removed))
    BY <1>7 DEF FitsIn
  <2>1. CASE M[i] = Ping
    BY <2>1, PingMeetsNone
  <2>2. CASE M[i] # Ping
    BY <1>1, <1>7, <2>2 DEF FitsIn
  <2> QED
    BY <2>1, <2>2
<1> QED
  BY <1>4, <1>5, <1>6, <1>7

\* cs come after L.
Longer(L, M, cs) ==
    \E n, l \in Nat :
      /\ DOMAIN L = 1 .. n /\ DOMAIN cs = 1 .. l /\ DOMAIN M = 1 .. n + l
      /\ \A i \in 1 .. n : M[i] = L[i]
      /\ \A i \in 1 .. l : M[n + i] = cs[i]

LEMMA LineLonger ==
    ASSUME NEW rs \in Seq(Replies), NEW qs \in Seq(Requests), NEW more \in Seq(Requests)
    PROVE  Longer(LineOf(rs, qs), LineOf(rs, qs \o more), more)
<1> DEFINE n == Len(rs) + Len(qs)
           new == LineOf(rs, qs \o more)
           old == LineOf(rs, qs)
<1>1. /\ n \in Nat /\ DOMAIN old = 1 .. n /\ DOMAIN new = 1 .. n + Len(more)
      /\ \A i \in 1 .. n : new[i] = old[i]
      /\ \A i \in 1 .. Len(more) : new[n + i] = more[i]
  BY LineMore
<1>2. Len(more) \in Nat /\ DOMAIN more = 1 .. Len(more)
  BY LenProperties
<1> HIDE DEF n, new, old
<1>3. Longer(old, new, more)
  BY <1>1, <1>2 DEF Longer
<1> QED
  BY <1>3 DEF old, new

LEMMA LongerHolds ==
    ASSUME NEW L, NEW M, NEW cs, NEW P, Longer(L, M, cs),
           OrderlyIn(L), OrderlyIn(cs), LatestIn(L, P), Ping \notin Sent(cs),
           \A i \in DOMAIN L, j \in DOMAIN cs :
              /\ L[i] # cs[j]
              /\ L[i].type = "UNLISTEN" \/ L[i].type = cs[j].type
                   => ~Meets(L[i], cs[j].topics)
    PROVE  /\ OrderlyIn(M)
           /\ LatestIn(M, P \cup Sent(cs))
           /\ AllIn(L, P) => AllIn(M, P \cup Sent(cs))
           /\ \A i \in DOMAIN M : (i \in DOMAIN L /\ M[i] = L[i]) \/ M[i] \in Sent(cs)
<1>1. PICK n \in Nat, l \in Nat :
         /\ DOMAIN L = 1 .. n /\ DOMAIN cs = 1 .. l /\ DOMAIN M = 1 .. n + l
         /\ \A i \in 1 .. n : M[i] = L[i]
         /\ \A i \in 1 .. l : M[n + i] = cs[i]
  BY DEF Longer
<1>2. ASSUME NEW i \in DOMAIN M
      PROVE  \/ i \in 1 .. n /\ M[i] = L[i]
             \/ i > n /\ i - n \in 1 .. l /\ M[i] = cs[i - n]
  <2>1. CASE i \in 1 .. n
    BY <1>1, <2>1
  <2>2. CASE i \notin 1 .. n
    <3>1. i > n /\ i - n \in 1 .. l /\ n + (i - n) = i
      BY <1>1, <2>2
    <3> QED
      BY <1>1, <3>1
  <2> QED
    BY <2>1, <2>2
<1>3. \A i \in 1 .. l : cs[i] \in Sent(cs) /\ cs[i] # Ping
  BY <1>1 DEF Sent
<1>4. OrderlyIn(M)
  <2>1. ASSUME NEW i \in DOMAIN M, M[i] # Ping PROVE M[i].topics # {}
    BY <1>1, <1>2, <2>1 DEF OrderlyIn
  <2>2. ASSUME NEW i \in DOMAIN M, NEW j \in DOMAIN M, i < j,
               M[i].type = "UNLISTEN" \/ M[i].type = M[j].type
        PROVE  ~Meets(M[i], M[j].topics)
    <3>1. CASE j \in 1 .. n
      <4>1. i \in 1 .. n
        BY <1>1, <2>2, <3>1
      <4> QED
        BY <1>1, <2>2, <3>1, <4>1 DEF OrderlyIn
    <3>2. CASE j \notin 1 .. n
      <4>1. j - n \in 1 .. l /\ M[j] = cs[j - n]
        BY <1>2, <3>2
      <4>2. CASE i \in 1 .. n
        BY <1>1, <2>2, <4>1, <4>2
      <4>3. CASE i \notin 1 .. n
        <5>1. i - n \in 1 .. l /\ M[i] = cs[i - n]
          BY <1>2, <4>3
        <5>2. i - n < j - n
          BY <1>1, <2>2
        <5> QED
          BY <1>1, <2>2, <4>1, <5>1, <5>2 DEF OrderlyIn
      <4> QED
        BY <4>2, <4>3
    <3> QED
      BY <3>1, <3>2
  <2> QED
    BY <2>1, <2>2 DEF OrderlyIn
<1>5. LatestIn(M, P \cup Sent(cs))
  <2>1. ASSUME NEW c \in P \cup Sent(cs)
        PROVE  \E i \in DOMAIN M : M[i] = c
    <3>1. CASE c \in P
      <4>1. PICK i \in 1 .. n : L[i] = c
        BY <1>1, <3>1 DEF LatestIn
      <4>2. i \in 1 .. n + l
        OBVIOUS
      <4> QED
        BY <1>1, <4>1, <4>2
    <3>2. CASE c \in Sent(cs)
      <4>1. PICK i \in 1 .. l : cs[i] = c
        BY <1>1, <3>2 DEF Sent
      <4>2. n + i \in 1 .. n + l
        OBVIOUS
      <4> QED
        BY <1>1, <4>1, <4>2
    <3> QED
      BY <3>1, <3>2
  <2>2. ASSUME NEW i \in DOMAIN M, NEW j \in DOMAIN M, i < j, M[i] \in P \cup Sent(cs),
               M[j] # Ping
        PROVE  M[j] \in P \cup Sent(cs)
    <3>1. CASE j \in 1 .. n
      <4>1. i \in 1 .. n
        BY <1>1, <2>2, <3>1
      <4>2. M[i] \in P
        BY <1>1, <2>2, <4>1 DEF Sent
      <4> QED
        BY <1>1, <2>2, <3>1, <4>1, <4>2 DEF LatestIn
    <3>2. CASE j \notin 1 .. n
      BY <1>2, <1>3, <3>2
    <3> QED
      BY <3>1, <3>2
  <2> QED
    BY <2>1, <2>2 DEF LatestIn
<1>6. AllIn(L, P) => AllIn(M, P \cup Sent(cs))
  BY <1>1, <1>2, <1>3 DEF AllIn
<1> QED
  BY <1>1, <1>2, <1>3, <1>4, <1>5, <1>6

-----------------------------------------------------------------------------
(* What the invariants survive.                                            *)

Safe == Orderly /\ Remembered /\ DiffFits /\ Served

LEMMA LineFacts ==
    ASSUME TypeOK
    PROVE  /\ Positions(Line) /\ Ping \notin pending
           /\ DOMAIN replies = 1 .. Len(replies) /\ Len(replies) \in Nat
           /\ \A i \in DOMAIN replies : /\ replies[i] \in Replies /\ i \in DOMAIN Line
                                       /\ Line[i] = Answered(replies[i])
           /\ \A i \in DOMAIN replies : \A type, t :
                 Says(i, type, t) => /\ replies[i].command = Line[i] /\ Line[i] \in pending
                                     /\ Line[i].type = type /\ t \in Line[i].topics
<1>1. replies \in Seq(Replies) /\ requests \in Seq(Requests)
  BY QueueTypes
<1>2. /\ Len(replies) \in Nat /\ Len(requests) \in Nat
      /\ DOMAIN replies = 1 .. Len(replies)
      /\ DOMAIN Line = 1 .. Len(replies) + Len(requests)
      /\ \A i \in DOMAIN replies : /\ replies[i] \in Replies /\ i \in DOMAIN Line
                                  /\ Line[i] = Answered(replies[i])
  BY <1>1, LineType DEF Line
<1>3. Positions(Line)
  BY <1>2 DEF Positions
<1>4. Ping \notin pending
  BY PingIsNone DEF TypeOK
<1>5. \A i \in DOMAIN replies : replies[i].type = "accepted" => replies[i].command = Line[i]
  BY <1>2, AnsweredType DEF Verdicts
<1> QED
  BY <1>2, <1>3, <1>4, <1>5 DEF Says

\* The shard reads a reply; what it then takes as confirmed it already did,
\* or the reply says so.
LEMMA ReadSafe ==
    ASSUME TypeOK, TypeOK', Safe, replies # <<>>, replies' = Tail(replies),
           requests' = requests, server' = server, cancelled' = cancelled, run' # "sync",
           pending' = pending \ {Line[1]},
           \A t \in submitted' : /\ t \in submitted \/ Says(1, "LISTEN", t)
                                 /\ ~Says(1, "UNLISTEN", t)
    PROVE  Safe'
<1>1. replies \in Seq(Replies) /\ requests \in Seq(Requests)
      /\ replies' \in Seq(Replies) /\ requests' \in Seq(Requests)
  BY QueueTypes DEF TypeOK, Replies, Requests, Verdicts
<1>2. /\ 1 \in DOMAIN replies /\ 1 \in DOMAIN Line /\ Shifted(Line, Line')
      /\ \A i \in DOMAIN replies' : i + 1 \in DOMAIN replies /\ replies'[i] = replies[i + 1]
      /\ \A i \in DOMAIN replies : i # 1 => /\ i - 1 \in DOMAIN replies'
                                            /\ replies'[i - 1] = replies[i]
  BY <1>1, LineRead DEF Shifted, Line
<1>3. Positions(Line) /\ Positions(Line') /\ Ping \notin pending
  <2>1. DOMAIN Line' = 1 .. Len(replies') + Len(requests')
        /\ Len(replies') \in Nat /\ Len(requests') \in Nat
    BY <1>1, LineType DEF Line
  <2> QED
    BY <2>1, LineFacts DEF Positions
<1>4. /\ OrderlyIn(Line') /\ LatestIn(Line', pending')
      /\ AllIn(Line, pending) \/ Line[1] \in pending => AllIn(Line', pending')
  BY <1>2, <1>3, ShiftedHolds DEF Safe, Orderly, Remembered
<1>5. DiffFits' /\ Orderly'
  BY <1>4 DEF DiffFits, Orderly
<1>6. ASSUME NEW i \in DOMAIN replies', NEW type, NEW t, Says(i, type, t)'
      PROVE  i + 1 \in DOMAIN replies /\ Says(i + 1, type, t)
  BY <1>2, <1>6 DEF Says
<1>7. ASSUME NEW t, Listened(t)'
      PROVE  Listened(t) /\ ~Says(1, "UNLISTEN", t)
  <2>1. CASE t \in submitted'
    BY <1>2, <2>1 DEF Listened
  <2>2. ASSUME NEW i \in DOMAIN replies', Says(i, "LISTEN", t)'
        PROVE  Listened(t) /\ ~Says(1, "UNLISTEN", t)
    <3>1. i + 1 \in DOMAIN replies /\ Says(i + 1, "LISTEN", t)
      BY <1>6, <2>2
    <3>2. ASSUME Says(1, "UNLISTEN", t) PROVE FALSE
      <4>1. /\ Line[1].type = "UNLISTEN" /\ t \in Line[1].topics
            /\ t \in Line[i + 1].topics /\ i + 1 \in DOMAIN Line
        BY <1>2, <3>1, <3>2, LineFacts
      <4>2. 1 < i + 1
        BY <1>2, <1>3, LineFacts DEF Positions, TypeOK
      <4> QED
        BY <1>2, <4>1, <4>2 DEF Safe, Orderly, OrderlyIn, Meets
    <3> QED
      BY <3>1, <3>2 DEF Listened
  <2> QED
    BY <1>7, <2>1, <2>2 DEF Listened
<1>8. Remembered'
  <2>1. ASSUME ~cancelled' \/ submitted' # {}
        PROVE  AllIn(Line, pending) \/ Line[1] \in pending
    <3>1. CASE ~cancelled \/ submitted # {}
      BY <3>1 DEF Safe, Remembered
    <3>2. CASE cancelled /\ submitted = {}
      <4>1. PICK t \in submitted' : Says(1, "LISTEN", t)
        BY <2>1, <3>2
      <4> QED
        BY <1>2, <4>1, LineFacts
    <3> QED
      BY <3>1, <3>2
  <2> QED
    BY <1>4, <2>1 DEF Remembered
<1>9. Served'
  <2> SUFFICES ASSUME NEW t \in Topics, Listened(t)', t \notin server
               PROVE  \E i \in DOMAIN replies' : Says(i, "UNLISTEN", t)'
    BY DEF Served
  <2>1. Listened(t) /\ ~Says(1, "UNLISTEN", t)
    BY <1>7
  <2>2. PICK i \in DOMAIN replies : Says(i, "UNLISTEN", t)
    BY <2>1 DEF Safe, Served
  <2>3. i # 1
    BY <2>1, <2>2
  <2>4. i - 1 \in DOMAIN replies' /\ replies'[i - 1] = replies[i]
    BY <1>2, <2>3
  <2>5. replies[i].command # Line[1]
    <3>1. /\ i \in DOMAIN Line /\ replies[i].command = Line[i] /\ Line[i] # Ping
          /\ i \in Nat \ {0}
      BY <2>2, LineFacts DEF Positions
    <3>2. 1 < i
      BY <2>3, <3>1
    <3>3. Line[i] # Line[1]
      BY <1>2, <3>1, <3>2, Distinct DEF Safe, Orderly
    <3> QED
      BY <3>1, <3>3
  <2> QED
    BY <2>2, <2>4, <2>5 DEF Says
<1> QED
  BY <1>5, <1>8, <1>9 DEF Safe

\* Nothing moves; at most the shard forgets, and then it is cancelled.
LEMMA KeptSafe ==
    ASSUME Safe, replies' = replies, requests' = requests, server' = server,
           cancelled => cancelled',
           \/ pending' = pending /\ submitted' = submitted
           \/ pending' = {} /\ submitted' = {} /\ cancelled',
           run' = "sync" => run = "sync" /\ diff' = diff
    PROVE  Safe'
<1>1. Line' = Line
  BY DEF Line
<1>2. Orderly' /\ DiffFits'
  BY <1>1 DEF Safe, Orderly, DiffFits
<1>3. Remembered'
  BY <1>1 DEF Safe, Remembered, LatestIn
<1>4. Served'
  BY DEF Safe, Served, Listened, Says
<1> QED
  BY <1>2, <1>3, <1>4 DEF Safe

\* The socket and all that is known about it are gone.
LEMMA EmptySafe ==
    ASSUME replies' = <<>>, requests' = <<>>, pending' = {}, submitted' = {},
           run' # "sync"
    PROVE  Safe'
<1>1. DOMAIN replies' = {} /\ DOMAIN Line' = {}
  BY DEF Line, LineOf
<1>2. Orderly' /\ DiffFits'
  BY <1>1 DEF Orderly, OrderlyIn, DiffFits
<1>3. Remembered'
  BY <1>1 DEF Remembered, LatestIn, AllIn
<1>4. Served'
  BY <1>1 DEF Served, Listened
<1> QED
  BY <1>2, <1>3, <1>4 DEF Safe

\* The line keeps its commands; r, which the server sends, may be an answer.
LEMMA AnswerSafe ==
    ASSUME TypeOK, TypeOK', Safe, NEW r \in Replies, Answer(r), requests # <<>>,
           Answered(r) = Head(requests),
           \/ r.type # "accepted" /\ server' = server
           \/ /\ r.type = "accepted"
              /\ server' = IF r.command.type = "LISTEN" THEN server \cup r.command.topics
                                                       ELSE server \ r.command.topics
    PROVE  Safe'
<1>1. replies \in Seq(Replies) /\ requests \in Seq(Requests)
  BY QueueTypes
<1>2. Line' = Line
  BY <1>1, LineAnswered DEF Line, Answer
<1>3. pending' = pending /\ submitted' = submitted /\ cancelled' = cancelled
      /\ run' = run /\ diff' = diff
  BY DEF Answer, shard, flow
<1>4. Orderly' /\ DiffFits' /\ Remembered'
  BY <1>2, <1>3 DEF Safe, Orderly, DiffFits, Remembered
<1>0. PICK m \in Nat : m = Len(replies)
  BY <1>1, LenProperties
<1>5. /\ DOMAIN replies = 1 .. m /\ DOMAIN replies' = 1 .. m + 1
      /\ \A i \in 1 .. m : replies'[i] = replies[i]
      /\ replies'[m + 1] = r
  BY <1>1, <1>0, AppendProperties, LenProperties DEF Answer
<1>6. \A i \in 1 .. m + 1 : i \in 1 .. m \/ i = m + 1
  BY <1>5
<1>7. ASSUME NEW i \in 1 .. m, NEW type, NEW t
      PROVE  i \in 1 .. m + 1 /\ (Says(i, type, t)' <=> Says(i, type, t))
  BY <1>3, <1>5 DEF Says
<1>8. CASE r.type # "accepted" /\ server' = server
  <2>1. ASSUME NEW t PROVE ~Says(m + 1, "LISTEN", t)'
    BY <1>5, <1>8 DEF Says
  <2> SUFFICES ASSUME NEW t \in Topics, Listened(t)'
               PROVE  t \in server \/ \E i \in DOMAIN replies' : Says(i, "UNLISTEN", t)'
    BY <1>4, <1>8 DEF Safe, Served
  <2> QED
    BY <1>3, <1>5, <1>6, <1>7, <2>1 DEF Safe, Served, Listened
<1>9. CASE /\ r.type = "accepted"
           /\ server' = IF r.command.type = "LISTEN" THEN server \cup r.command.topics
                                                    ELSE server \ r.command.topics
  <2> DEFINE c == r.command
  <2>1. /\ c \in Commands /\ m + 1 \in DOMAIN Line /\ Line[m + 1] = c /\ c # Ping
    <3>1. c \in Commands /\ c = Head(requests)
      BY <1>9, AnsweredType DEF Verdicts
    <3>2. 1 \in DOMAIN requests /\ Head(requests) = requests[1]
      BY <1>1, EmptySeq, LenProperties
    <3>3. m + 1 \in DOMAIN Line /\ Line[m + 1] = requests[1]
      BY <1>1, <1>0, <3>2, LineType DEF Line
    <3> QED
      BY <3>1, <3>2, <3>3, PingIsNone
  <2>2. ASSUME NEW t, Listened(t), NEW u \in c.topics
        PROVE  c \in pending
    <3>1. CASE t \in submitted
      BY <2>1, <3>1 DEF Safe, Remembered, AllIn
    <3>2. ASSUME NEW i \in 1 .. m, Says(i, "LISTEN", t) PROVE c \in pending
      <4>1. i \in DOMAIN Line /\ Line[i] \in pending
        BY <1>5, <3>2, LineFacts
      <4>2. i < m + 1
        BY <1>5
      <4> QED
        BY <2>1, <4>1, <4>2 DEF Safe, Remembered, LatestIn
    <3> QED
      BY <2>2, <3>1, <3>2, <1>5 DEF Listened
  <2>3. ASSUME NEW t, Listened(t)' PROVE Listened(t) \/ t \in server'
    <3>1. CASE t \in submitted
      BY <3>1 DEF Listened
    <3>2. ASSUME NEW i \in 1 .. m, Says(i, "LISTEN", t)'
          PROVE Listened(t)
      BY <1>5, <1>7, <3>2 DEF Listened
    <3>3. CASE Says(m + 1, "LISTEN", t)'
      BY <1>5, <1>9, <3>3 DEF Says
    <3> QED
      BY <1>3, <1>5, <1>6, <2>3, <3>1, <3>2, <3>3 DEF Listened
  <2>4. ASSUME NEW t \in Topics, Listened(t)', t \notin server'
        PROVE  \E i \in DOMAIN replies' : Says(i, "UNLISTEN", t)'
    <3>1. Listened(t)
      BY <2>3, <2>4
    <3>2. CASE t \in server
      <4>1. c.type = "UNLISTEN" /\ t \in c.topics
        BY <1>9, <2>1, <2>4, <3>2 DEF Commands
      <4>2. c \in pending
        BY <2>2, <3>1, <4>1
      <4>3. Says(m + 1, "UNLISTEN", t)' /\ m + 1 \in 1 .. m + 1
        BY <1>3, <1>5, <1>9, <4>1, <4>2 DEF Says
      <4> QED
        BY <1>5, <4>3
    <3>3. CASE t \notin server
      <4>1. PICK i \in DOMAIN replies : Says(i, "UNLISTEN", t)
        BY <3>1, <3>3 DEF Safe, Served
      <4> QED
        BY <1>5, <1>7, <4>1
    <3> QED
      BY <3>2, <3>3
  <2> QED
    BY <1>4, <2>4 DEF Safe, Served
<1> QED
  BY <1>8, <1>9

\* The server sends something that answers no command.
LEMMA SentSafe ==
    ASSUME TypeOK, TypeOK', Safe,
           NEW r \in Replies, Answered(r) = Ping, r.type \notin Verdicts,
           replies' = Append(replies, r), requests' = requests, server' = server,
           shard' = shard, flow' = flow, cancelled' = cancelled
    PROVE  Safe'
<1>1. replies \in Seq(Replies) /\ requests \in Seq(Requests)
      /\ replies' \in Seq(Replies) /\ requests' \in Seq(Requests)
  BY QueueTypes DEF TypeOK, Replies, Requests, Verdicts
<1>2. pending' = pending /\ submitted' = submitted /\ run' = run /\ diff' = diff
  BY DEF shard, flow
<1>0. PICK m \in Nat : m = Len(replies)
  BY <1>1, LenProperties
<1>3. Inserted(Line, Line', m + 1)
  BY <1>0, <1>1, LineSent DEF Line, Inserted
<1>4. Positions(Line) /\ Positions(Line') /\ Ping \notin pending
  <2>1. DOMAIN Line' = 1 .. Len(replies') + Len(requests')
        /\ Len(replies') \in Nat /\ Len(requests') \in Nat
    BY <1>1, LineType DEF Line
  <2> QED
    BY <2>1, LineFacts DEF Positions
<1>5. /\ OrderlyIn(Line) => OrderlyIn(Line')
      /\ LatestIn(Line, pending) => LatestIn(Line', pending)
      /\ AllIn(Line, pending) => AllIn(Line', pending)
      /\ FitsIn(Line, diff) => FitsIn(Line', diff)
  BY <1>3, <1>4, InsertedHolds
<1>6. Orderly' /\ DiffFits' /\ Remembered'
  BY <1>2, <1>5 DEF Safe, Orderly, DiffFits, Remembered
<1>7. /\ DOMAIN replies = 1 .. m /\ DOMAIN replies' = 1 .. m + 1
      /\ \A i \in 1 .. m : replies'[i] = replies[i]
      /\ replies'[m + 1] = r
  BY <1>0, <1>1, AppendProperties, LenProperties
<1>8. \A i \in 1 .. m + 1 : i \in 1 .. m \/ i = m + 1
  BY <1>3
<1>9. ASSUME NEW i \in 1 .. m, NEW type, NEW t
      PROVE  i \in 1 .. m + 1 /\ (Says(i, type, t)' <=> Says(i, type, t))
  BY <1>2, <1>3, <1>7 DEF Says
<1>10. ASSUME NEW type, NEW t PROVE ~Says(m + 1, type, t)'
  BY <1>7 DEF Says, Verdicts
<1>11. \A t : Listened(t)' => Listened(t)
  BY <1>2, <1>7, <1>8, <1>9, <1>10 DEF Listened
<1>12. Served'
  BY <1>7, <1>9, <1>11 DEF Safe, Served
<1> QED
  BY <1>6, <1>12 DEF Safe

\* Replies stay as they are and what is pending only grows, by nothing that an
\* unread reply answers.
LEMMA ServedStays ==
    ASSUME Served, replies' = replies, submitted' = submitted, server' = server,
           pending \subseteq pending',
           \A i \in DOMAIN replies :
              replies[i].type = "accepted" /\ replies[i].command \in pending'
                => replies[i].command \in pending
    PROVE  Served'
<1>1. \A i \in DOMAIN replies : \A type, t : Says(i, type, t)' <=> Says(i, type, t)
  BY DEF Says
<1> QED
  BY <1>1 DEF Served, Listened

\* At the top of the loop a PING is sent, or nothing, and everything on its
\* way is remembered when the topics are compared.
LEMMA ServeSafe ==
    ASSUME TypeOK, TypeOK', Safe, Serve
    PROVE  Safe'
<1>1. CASE cancelled \/ ping = "overdue"
  BY <1>1, KeptSafe DEF Serve, Break, shard
<1>2. CASE ~(cancelled \/ ping = "overdue")
  <2>1. /\ replies' = replies /\ submitted' = submitted /\ server' = server
        /\ pending' = pending /\ cancelled' = cancelled /\ ~cancelled
        /\ diff' = [removed |-> ToRemove, added |-> ToAdd]
        /\ requests' = requests \/ requests' = requests \o <<Ping>>
    <3>1. requests \in Seq(Requests) /\ Ping \in Requests
      BY QueueTypes DEF Requests
    <3>2. Append(requests, Ping) = requests \o <<Ping>>
      BY <3>1, AppendIsConcat
    <3> QED
      BY <1>2, <3>2 DEF Serve, shard
  <2>2. AllIn(Line, pending)
    BY <2>1 DEF Safe, Remembered
  <2>3. FitsIn(Line, diff')
    <3>1. ASSUME NEW i \in DOMAIN Line, Line[i] # Ping
          PROVE  /\ Line[i].topics \subseteq Pending(Line[i].type)
                 /\ Line[i].type \in {"LISTEN", "UNLISTEN"}
      BY <2>2, <3>1 DEF AllIn, Pending, TypeOK, Commands
    <3>2. ToAdd \cap ToRemove = {}
      BY DEF ToAdd, ToRemove
    <3> SUFFICES ASSUME NEW i \in DOMAIN Line
                 PROVE  ~Meets(Line[i], ToAdd)
                        /\ (Line[i].type = "UNLISTEN" => ~Meets(Line[i], ToRemove))
      BY <2>1, <3>2 DEF FitsIn
    <3>3. CASE Line[i] = Ping
      BY <3>3, PingMeetsNone
    <3>4. CASE Line[i] # Ping
      BY <3>1, <3>4 DEF Meets, ToAdd, ToRemove
    <3> QED
      BY <3>3, <3>4
  <2>4. Served'
    BY <2>1, ServedStays DEF Safe
  <2>5. CASE requests' = requests
    <3>1. Line' = Line
      BY <2>1, <2>5 DEF Line
    <3> QED
      BY <2>1, <2>3, <2>4, <3>1 DEF Safe, Orderly, Remembered, DiffFits
  <2>6. CASE requests' = requests \o <<Ping>>
    <3>1. /\ replies \in Seq(Replies) /\ requests \in Seq(Requests)
          /\ <<Ping>> \in Seq(Requests) /\ Len(<<Ping>>) = 1 /\ <<Ping>>[1] = Ping
      BY QueueTypes DEF Requests
    <3>2. PICK n \in Nat :
            /\ DOMAIN Line = 1 .. n /\ DOMAIN Line' = 1 .. n + 1
            /\ \A i \in 1 .. n : Line'[i] = Line[i]
            /\ Line'[n + 1] = Ping
      <4>1. Line' = LineOf(replies, requests \o <<Ping>>)
        BY <2>1, <2>6 DEF Line
      <4>2. Longer(Line, LineOf(replies, requests \o <<Ping>>), <<Ping>>)
        BY <3>1, LineLonger DEF Line
      <4>3. Longer(Line, Line', <<Ping>>)
        BY <4>1, <4>2
      <4> HIDE DEF Line
      <4>4. DOMAIN <<Ping>> = 1 .. 1
        OBVIOUS
      <4>5. ASSUME NEW l \in Nat, 1 .. l = 1 .. 1 PROVE l = 1
        BY <4>5
      <4> QED
        BY <3>1, <4>3, <4>4, <4>5 DEF Longer
    <3>3. Inserted(Line, Line', n + 1)
      BY <3>2 DEF Inserted
    <3>4. Positions(Line) /\ Positions(Line') /\ Ping \notin pending
      BY <3>2, LineFacts DEF Positions
    <3>5. /\ OrderlyIn(Line') /\ LatestIn(Line', pending) /\ AllIn(Line', pending)
          /\ FitsIn(Line', diff')
      BY <2>2, <2>3, <3>3, <3>4, InsertedHolds DEF Safe, Orderly, Remembered
    <3> QED
      BY <2>1, <2>4, <3>5 DEF Safe, Orderly, Remembered, DiffFits
  <2> QED
    BY <2>1, <2>5, <2>6
<1> QED
  BY <1>1, <1>2

\* A batch of commands is a piece of line on its own.
LEMMA BatchOrderly ==
    ASSUME NEW type \in {"LISTEN", "UNLISTEN"}, NEW S \in SUBSET Topics,
           NEW cs \in Batchings(type, S)
    PROVE  /\ cs \in Seq(Requests) /\ DOMAIN cs = 1 .. Len(cs) /\ Len(cs) \in Nat
           /\ Ping \notin Sent(cs) /\ OrderlyIn(cs)
           /\ \A c \in Sent(cs) : c.type = type /\ c.topics \subseteq S /\ c.topics # {}
           /\ \A i \in DOMAIN cs : cs[i] \in Sent(cs)
<1>1. /\ cs \in Seq(Commands)
      /\ \A i \in 1 .. Len(cs) : /\ cs[i].type = type
                                 /\ cs[i].topics \subseteq S /\ cs[i].topics # {}
      /\ \A i, j \in 1 .. Len(cs) : i # j => ~Meets(cs[i], cs[j].topics)
  BY Batched
<1>2. /\ cs \in Seq(Requests) /\ DOMAIN cs = 1 .. Len(cs) /\ Len(cs) \in Nat
      /\ \A i \in DOMAIN cs : cs[i] \in Commands
  BY <1>1, LenProperties, ElementOfSeq DEF Requests
<1>3. Ping \notin Sent(cs)
  BY <1>2, PingIsNone DEF Sent
<1>4. OrderlyIn(cs)
  BY <1>1, <1>2 DEF OrderlyIn
<1> QED
  BY <1>1, <1>2, <1>3, <1>4 DEF Sent

\* What syncTopics sends comes after everything on its way and crosses none.
LEMMA SyncSafe ==
    ASSUME TypeOK, TypeOK', Safe, SyncTopics
    PROVE  Safe'
<1>1. PICK removals \in Batchings("UNLISTEN", diff.removed),
           additions \in Batchings("LISTEN", diff.added) :
         /\ requests' = requests \o removals \o additions
         /\ pending' = pending \cup Sent(removals) \cup Sent(additions)
  BY DEF SyncTopics
<1>2. /\ run = "sync" /\ run' = "wait" /\ replies' = replies /\ submitted' = submitted
      /\ server' = server /\ cancelled' = cancelled
  BY DEF SyncTopics
<1> DEFINE R == LineOf(replies, requests \o removals)
<1>3. /\ removals \in Seq(Requests) /\ additions \in Seq(Requests)
      /\ DOMAIN removals = 1 .. Len(removals) /\ DOMAIN additions = 1 .. Len(additions)
      /\ Len(removals) \in Nat /\ Len(additions) \in Nat
      /\ Ping \notin Sent(removals) /\ Ping \notin Sent(additions)
      /\ OrderlyIn(removals) /\ OrderlyIn(additions)
      /\ \A c \in Sent(removals) : /\ c.type = "UNLISTEN" /\ c.topics \subseteq diff.removed
                                  /\ c.topics # {}
      /\ \A c \in Sent(additions) : /\ c.type = "LISTEN" /\ c.topics \subseteq diff.added
                                   /\ c.topics # {}
      /\ \A i \in DOMAIN removals : removals[i] \in Sent(removals)
      /\ \A i \in DOMAIN additions : additions[i] \in Sent(additions)
  <2>1. diff.removed \in SUBSET Topics /\ diff.added \in SUBSET Topics
    BY DEF TypeOK
  <2> QED
    BY <2>1, BatchOrderly
<1>4. replies \in Seq(Replies) /\ requests \in Seq(Requests)
      /\ requests \o removals \in Seq(Requests)
  BY <1>3, QueueTypes, ConcatProperties
<1>5. Longer(Line, R, removals)
  BY <1>3, <1>4, LineLonger DEF Line
<1>6. Longer(R, Line', additions)
  <2>1. Line' = LineOf(replies, (requests \o removals) \o additions)
    BY <1>1, <1>2 DEF Line
  <2>2. Longer(R, LineOf(replies, (requests \o removals) \o additions), additions)
    BY <1>3, <1>4, LineLonger
  <2> QED
    BY <2>1, <2>2
<1> HIDE DEF R
<1>7. /\ OrderlyIn(Line) /\ LatestIn(Line, pending) /\ FitsIn(Line, diff)
      /\ ~cancelled \/ submitted # {} => AllIn(Line, pending)
  BY <1>2 DEF Safe, Orderly, Remembered, DiffFits
<1>8. \A i \in DOMAIN Line, j \in DOMAIN removals :
         /\ Line[i] # removals[j]
         /\ Line[i].type = "UNLISTEN" \/ Line[i].type = removals[j].type
              => ~Meets(Line[i], removals[j].topics)
  <2> SUFFICES ASSUME NEW i \in DOMAIN Line, NEW c \in Sent(removals),
                      Line[i].type = "UNLISTEN"
               PROVE  ~Meets(Line[i], c.topics) /\ Line[i] # c
    BY <1>3
  <2>1. ~Meets(Line[i], diff.removed)
    BY <1>7 DEF FitsIn
  <2> QED
    BY <1>3, <2>1 DEF Meets
<1>9. /\ OrderlyIn(R) /\ LatestIn(R, pending \cup Sent(removals))
      /\ AllIn(Line, pending) => AllIn(R, pending \cup Sent(removals))
      /\ \A i \in DOMAIN R : (i \in DOMAIN Line /\ R[i] = Line[i]) \/ R[i] \in Sent(removals)
  BY <1>3, <1>5, <1>7, <1>8, LongerHolds
<1>10. \A i \in DOMAIN R, c \in Sent(additions) : R[i] # c /\ ~Meets(R[i], c.topics)
  <2> SUFFICES ASSUME NEW i \in DOMAIN R, NEW c \in Sent(additions)
               PROVE  R[i] # c /\ ~Meets(R[i], c.topics)
    OBVIOUS
  <2>1. ~Meets(R[i], diff.added)
    BY <1>3, <1>7, <1>9 DEF FitsIn, Meets
  <2> QED
    BY <1>3, <2>1 DEF Meets
<1>11. /\ OrderlyIn(Line') /\ LatestIn(Line', pending')
       /\ AllIn(Line, pending) => AllIn(Line', pending')
  <2>1. \A i \in DOMAIN R, j \in DOMAIN additions :
          R[i] # additions[j] /\ ~Meets(R[i], additions[j].topics)
    BY <1>3, <1>10
  <2> QED
    <3> DEFINE P == pending \cup Sent(removals)
    <3>1. OrderlyIn(R) /\ LatestIn(R, P) /\ (AllIn(Line, pending) => AllIn(R, P))
      BY <1>9
    <3> HIDE DEF P
    <3>2. /\ OrderlyIn(Line') /\ LatestIn(Line', P \cup Sent(additions))
          /\ AllIn(R, P) => AllIn(Line', P \cup Sent(additions))
      BY <1>3, <1>6, <2>1, <3>1, LongerHolds
    <3>3. pending' = P \cup Sent(additions)
      BY <1>1 DEF P
    <3> QED
      BY <3>1, <3>2, <3>3
<1>12. Remembered'
  BY <1>2, <1>7, <1>11 DEF Remembered
<1>13. Served'
  <2> SUFFICES ASSUME NEW i \in DOMAIN replies, replies[i].type = "accepted",
                      replies[i].command \in pending'
               PROVE  replies[i].command \in pending
    BY <1>1, <1>2, ServedStays DEF Safe
  <2>1. i \in DOMAIN Line /\ replies[i].command = Line[i]
    BY LineFacts, AnsweredType DEF Verdicts
  <2>2. \A c \in Sent(removals) \cup Sent(additions) : Line[i] # c
    <3>1. ASSUME NEW c \in Sent(removals) PROVE Line[i] # c
      BY <1>8, <2>1, <3>1 DEF Sent
    <3>2. ASSUME NEW c \in Sent(additions) PROVE Line[i] # c
      BY <1>3, <1>7, <2>1, <3>2 DEF FitsIn, Meets
    <3> QED
      BY <3>1, <3>2
  <2> QED
    BY <1>1, <2>1, <2>2
<1> QED
  BY <1>2, <1>11, <1>12, <1>13 DEF Safe, Orderly, DiffFits

\* handleInbound, one kind of reply at a time.
LEMMA InboundSafe ==
    ASSUME TypeOK, TypeOK', Safe, Inbound
    PROVE  Safe'
<1>1. ASSUME NEW type, Received(type)
      PROVE  /\ replies # <<>> /\ replies' = Tail(replies) /\ requests' = requests
             /\ server' = server /\ cancelled' = cancelled
             /\ replies[1].type = type /\ Head(replies) = replies[1] /\ 1 \in DOMAIN replies
             /\ Line[1] = Answered(replies[1])
             /\ type \in Verdicts => Line[1] = replies[1].command
             /\ type \notin Verdicts => Line[1] = Ping /\ Line[1] \notin pending
             /\ type # "accepted" => \A t, action : ~Says(1, action, t)
             /\ replies[1].command \notin pending => \A t, action : ~Says(1, action, t)
  <2>1. replies \in Seq(Replies) /\ requests \in Seq(Requests)
    BY QueueTypes
  <2>2. replies # <<>> /\ Head(replies) = replies[1] /\ 1 \in DOMAIN replies
    BY <1>1, <2>1, LineRead DEF Received
  <2>3. replies[1] \in Replies /\ Line[1] = Answered(replies[1]) /\ Ping \notin pending
    BY <2>2, LineFacts
  <2> QED
    BY <1>1, <2>2, <2>3, AnsweredType DEF Received, Says
<1>2. CASE Forgotten
  BY <1>1, <1>2, ReadSafe DEF Forgotten, Verdicts, shard
<1>3. CASE Accepted
  <2>1. Received("accepted")
    BY <1>3 DEF Accepted
  <2>2. /\ run' = "serve" /\ Line[1] = replies[1].command /\ Line[1] \in pending
        /\ pending' = pending \ {Line[1]}
        /\ submitted' = IF Line[1].type = "LISTEN"
                          THEN submitted \cup (Line[1].topics \cap topics)
                          ELSE submitted \ Line[1].topics
    BY <1>1, <1>3, <2>1 DEF Accepted, Verdicts
  <2>3. Line[1].type \in {"LISTEN", "UNLISTEN"}
    BY <2>2 DEF TypeOK, Commands
  <2>4. ASSUME NEW t \in submitted'
        PROVE  (t \in submitted \/ Says(1, "LISTEN", t)) /\ ~Says(1, "UNLISTEN", t)
    BY <1>1, <2>1, <2>2, <2>3 DEF Says
  <2> QED
    BY <1>1, <2>1, <2>2, <2>4, ReadSafe
<1>4. CASE Rejected
  <2>1. Received("rejected")
    BY <1>4 DEF Rejected
  <2>2. /\ run' = "serve" /\ pending' = pending \ {Line[1]}
        /\ submitted' \subseteq submitted
    BY <1>1, <1>4, <2>1 DEF Rejected, Verdicts
  <2> QED
    BY <1>1, <2>1, <2>2, ReadSafe
<1>5. CASE BadAuth
  BY <1>1, <1>5, ReadSafe DEF BadAuth, Break, Verdicts
<1>6. CASE Reconnect
  BY <1>1, <1>6, ReadSafe DEF Reconnect, Break, Verdicts, shard
<1>7. CASE Pong
  BY <1>1, <1>7, ReadSafe DEF Pong, Verdicts, shard
<1>8. CASE Message
  BY <1>1, <1>8, ReadSafe DEF Message, Verdicts, shard
<1> QED
  BY <1>2, <1>3, <1>4, <1>5, <1>6, <1>7, <1>8 DEF Inbound

\* The server, which answers the oldest command.
LEMMA ServerSafe ==
    ASSUME TypeOK, TypeOK', Safe, ServerStep \/ ServerRejects \/ ServerSends
    PROVE  Safe'
<1>1. Asked => /\ requests # <<>> /\ Head(requests) \in Requests
               /\ Head(requests) # Ping => Head(requests) \in Commands
  BY QueueTypes, HeadTailProperties DEF Asked, Requests
<1>2. ASSUME NEW c \in Commands, NEW type \in Verdicts
      PROVE  LET r == [type |-> type, command |-> c]
             IN  r \in Replies /\ Answered(r) = c /\ r.type = type /\ r.command = c
  BY DEF Replies, Answered
<1>3. CASE ServerAccepts
  <2> DEFINE c == Head(requests)
             r == [type |-> "accepted", command |-> c]
  <2>1. c \in Commands /\ requests # <<>> /\ Answer(r)
        /\ server' = IF c.type = "LISTEN" THEN server \cup c.topics ELSE server \ c.topics
    BY <1>1, <1>3 DEF ServerAccepts, Asked
  <2>2. r \in Replies /\ Answered(r) = c /\ r.type = "accepted" /\ r.command = c
    BY <1>2, <2>1 DEF Verdicts
  <2> HIDE DEF r
  <2> QED
    BY <2>1, <2>2, AnswerSafe
<1>4. CASE ServerRejects
  <2>1. Head(requests) \in Commands /\ requests # <<>> /\ server' = server
    BY <1>1, <1>4 DEF ServerRejects, Asked
  <2>2. PICK type \in {"rejected", "badauth"} :
          Answer([type |-> type, command |-> Head(requests)])
    BY <1>4 DEF ServerRejects
  <2> DEFINE r == [type |-> type, command |-> Head(requests)]
  <2>3. r \in Replies /\ Answered(r) = Head(requests) /\ r.type # "accepted"
    BY <1>2, <2>1 DEF Verdicts
  <2> HIDE DEF r
  <2>4. Answer(r)
    BY <2>2 DEF r
  <2> QED
    BY <2>1, <2>3, <2>4, AnswerSafe
<1>5. ASSUME NEW type \in {"PONG", "RECONNECT"}
      PROVE  LET r == [type |-> type]
             IN  r \in Replies /\ Answered(r) = Ping /\ r.type \notin Verdicts
                 /\ r.type # "accepted"
  BY DEF Replies, Answered, Verdicts
<1>6. CASE ServerPongs
  <2> DEFINE r == [type |-> "PONG"]
  <2>1. Head(requests) = Ping /\ requests # <<>> /\ server' = server /\ Answer(r)
    BY <1>1, <1>6 DEF ServerPongs, Asked
  <2>2. r \in Replies /\ Answered(r) = Ping /\ r.type # "accepted"
    BY <1>5
  <2> HIDE DEF r
  <2> QED
    BY <2>1, <2>2, AnswerSafe
<1>7. CASE ServerSends
  <2>1. /\ requests' = requests /\ server' = server /\ shard' = shard /\ flow' = flow
        /\ cancelled' = cancelled
    BY <1>7 DEF ServerSends
  <2>2. ASSUME NEW t \in server
        PROVE  LET r == [type |-> "MESSAGE", topic |-> t]
               IN  r \in Replies /\ Answered(r) = Ping /\ r.type \notin Verdicts
    BY DEF Replies, Answered, Verdicts, TypeOK
  <2>3. \E r \in Replies : /\ Answered(r) = Ping /\ r.type \notin Verdicts
                          /\ replies' = Append(replies, r)
    <3>1. CASE replies' = Append(replies, [type |-> "RECONNECT"])
      BY <1>5, <3>1
    <3>2. ASSUME NEW t \in server,
                 replies' = Append(replies, [type |-> "MESSAGE", topic |-> t])
          PROVE  \E r \in Replies : /\ Answered(r) = Ping /\ r.type \notin Verdicts
                                   /\ replies' = Append(replies, r)
      BY <2>2, <3>2
    <3> QED
      BY <1>7, <3>1, <3>2 DEF ServerSends
  <2> QED
    BY <2>1, <2>3, SentSafe
<1> QED
  BY <1>3, <1>4, <1>6, <1>7 DEF ServerStep

LEMMA SafeStep ==
    ASSUME TypeOK, TypeOK', Safe, Next
    PROVE  Safe'
<1>1. CASE RunFinishes
  BY <1>1, KeptSafe DEF RunFinishes, Finish, network
<1>2. CASE RunIdles \/ RunConnects \/ PauseEnds \/ DialFails
  BY <1>2, KeptSafe DEF RunIdles, RunConnects, PauseEnds, DialFails, shard, flow, network
<1>3. CASE SyncFails \/ ReadError
  BY <1>3, KeptSafe DEF SyncFails, ReadError, Break, shard, network
<1>4. CASE WaitWoken \/ WaitTimer \/ WaitCancelled
  BY <1>4, KeptSafe DEF WaitWoken, WaitTimer, WaitCancelled, Break, shard, network
<1>5. CASE DialSucceeds \/ ConnectionEnds
  BY <1>5, EmptySafe DEF DialSucceeds, ConnectionEnds, Finish
<1>6. CASE Serve
  BY <1>6, ServeSafe
<1>7. CASE SyncTopics
  BY <1>7, SyncSafe
<1>8. CASE Inbound
  BY <1>8, InboundSafe
<1>9. CASE Dispatch \/ PingDue \/ PongDeadline \/ ServerFallsSilent
  BY <1>9, KeptSafe
     DEF Dispatch, PingDue, PongDeadline, ServerFallsSilent, shard, flow, network
<1>10. ASSUME NEW t \in Topics, AddTopic(t) PROVE Safe'
  BY <1>10, KeptSafe DEF AddTopic, flow, network
<1>11. ASSUME NEW S \in SUBSET Topics, RemoveTopics(S) PROVE Safe'
  BY <1>11, KeptSafe DEF RemoveTopics, flow, network
<1>12. ASSUME NEW clear \in BOOLEAN, Stop(clear) PROVE Safe'
  BY <1>12, KeptSafe DEF Stop, shard, flow, network
<1>13. CASE ServerStep \/ ServerRejects \/ ServerSends
  BY <1>13, ServerSafe
<1> QED
  BY <1>1, <1>2, <1>3, <1>4, <1>5, <1>6, <1>7, <1>8, <1>9, <1>10, <1>11, <1>12, <1>13
     DEF Next, RunStep

-----------------------------------------------------------------------------
(* The theorems.                                                           *)

LEMMA Start ==
    ASSUME Init
    PROVE  IInv
<1>1. TypeOK
  <2>1. Cardinality({}) <= ShardTopicLimit
    BY FS_EmptySet, PubSubShardAssumption
  <2>2. \A S : <<>> \in Seq(S)
    BY EmptySeq
  <2>3. 0 \in 0 .. EventBuffer /\ 0 \in 0 .. MaxEvents
    BY PubSubShardAssumption
  <2> QED
    BY <2>1, <2>2, <2>3 DEF Init, TypeOK, NoDiff, RunAt
<1>2. DOMAIN replies = {} /\ DOMAIN Line = {}
  BY DEF Init, Line, LineOf
<1>3. Orderly /\ DiffFits /\ Remembered /\ Served
  BY <1>2 DEF Init, Orderly, OrderlyIn, DiffFits, Remembered, LatestIn, AllIn, Served,
              Listened
<1> QED
  BY <1>1, <1>3 DEF IInv

LEMMA Step ==
    ASSUME IInv, [Next]_vars
    PROVE  IInv'
<1>1. CASE Next
  <2>1. TypeOK'
    BY <1>1, TypesStep DEF IInv
  <2>2. Safe'
    BY <1>1, <2>1, SafeStep DEF IInv, Safe
  <2> QED
    BY <2>1, <2>2 DEF IInv, Safe
<1>2. CASE UNCHANGED vars
  <2>1. TypeOK'
    BY <1>2 DEF IInv, TypeOK, vars, shard, flow, network
  <2>2. Safe'
    BY <1>2, KeptSafe DEF IInv, Safe, vars, shard, flow, network
  <2> QED
    BY <2>1, <2>2 DEF IInv, Safe
<1> QED
  BY <1>1, <1>2

\* The inductive invariant: types, and the order of the commands on their way,
\* what s.pending remembers of them, what syncTopics may add to them, and what
\* the server sends by the answers the shard has not read.
THEOREM Inductive == Spec => []IInv
<1>1. Init => IInv
  BY Start
<1>2. IInv /\ [Next]_vars => IInv'
  BY Step
<1> QED
  BY <1>1, <1>2, PTL DEF Spec

\* The shard, its socket and its queue of events keep their types: no more
\* topics than the shard's limit, no more events than the buffer holds.
THEOREM TypeCorrect == Spec => []TypeOK
<1>1. IInv => TypeOK
  BY DEF IInv
<1> QED
  BY <1>1, Inductive, PTL

\* No topic is ever in two unanswered commands of one type: syncTopics leaves
\* out what an unanswered command already asks for, and its batches are
\* disjoint because their sizes add up.
THEOREM InFlightOnceAlways == Spec => []InFlightOnce
<1>1. IInv => InFlightOnce
  <2> SUFFICES ASSUME IInv, NEW c \in pending, NEW d \in pending, c.type = d.type,
                      c.topics \cap d.topics # {}
               PROVE  c = d
    BY DEF InFlightOnce
  <2>1. PICK i \in DOMAIN Line, j \in DOMAIN Line : Line[i] = c /\ Line[j] = d
    BY DEF IInv, Remembered, LatestIn
  <2>2. i \in Nat /\ j \in Nat
    BY LineFacts DEF IInv, Positions
  <2>3. i = j
    <3>1. CASE i < j
      BY <2>1, <3>1 DEF IInv, Orderly, OrderlyIn, Meets
    <3>2. CASE j < i
      BY <2>1, <3>2 DEF IInv, Orderly, OrderlyIn, Meets
    <3> QED
      BY <2>2, <3>1, <3>2
  <2> QED
    BY <2>1, <2>3
<1> QED
  BY <1>1, Inductive, PTL

\* A topic that the shard takes as confirmed is one the server sends, or one
\* whose UNLISTEN is unanswered, however removals, additions, rejections, lost
\* sockets and stop have crossed.
THEOREM ConfirmedAlways == Spec => []Confirmed
<1>1. IInv => Confirmed
  <2> SUFFICES ASSUME IInv, NEW t \in submitted, t \notin server
               PROVE  t \in Pending("UNLISTEN")
    BY DEF Confirmed
  <2>1. PICK i \in DOMAIN replies : Says(i, "UNLISTEN", t)
    BY DEF IInv, Served, Listened, TypeOK
  <2>2. Line[i] \in pending /\ Line[i].type = "UNLISTEN" /\ t \in Line[i].topics
    BY <2>1, LineFacts DEF IInv
  <2> QED
    BY <2>2 DEF Pending
<1> QED
  BY <1>1, Inductive, PTL
=============================================================================
