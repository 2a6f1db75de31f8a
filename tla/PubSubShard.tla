---------------------------- MODULE PubSubShard ----------------------------
(***************************************************************************)
(* One shard of internal/pubsub: the goroutine that keeps a socket open,   *)
(* the LISTEN and UNLISTEN commands that bring the server's subscriptions  *)
(* in line with the topics the manager gave the shard, their responses,    *)
(* PING and PONG, the reconnect, and the bounded queue to the dispatcher.  *)
(* The server is the environment: it answers in the order it was asked,    *)
(* may reject, may fall silent, and forgets everything with the socket.    *)
(***************************************************************************)
EXTENDS Naturals, Sequences, FiniteSets

CONSTANTS
    Topics,            \* topic keys
    ShardTopicLimit,   \* m.shardTopicLimit
    ListenBatchSize,   \* m.listenBatchSize
    EventBuffer,       \* eventBufferSize
    MaxEvents          \* bound: events from outside in one behaviour

ASSUME PubSubShardAssumption ==
    /\ IsFiniteSet(Topics)
    /\ ShardTopicLimit \in Nat \ {0}
    /\ ListenBatchSize \in Nat \ {0}
    /\ EventBuffer \in Nat \ {0}
    /\ MaxEvents \in Nat

VARIABLES
    topics,      \* s.topics: what the manager wants
    submitted,   \* s.submitted: what the server has confirmed
    pending,     \* s.pending: the commands without a response
    connected,   \* s.connected
    status,      \* s.state
    wake,        \* s.wake holds its one element
    run,         \* where the run goroutine is
    diff,        \* syncTopics: what it found to remove and to add
    ping,        \* "due", "sent" (a PONG is awaited), "overdue" or "quiet"
    queue,       \* how many events s.events holds
    cancelled,   \* the shard's context is done
    requests,    \* on their way to the server
    replies,     \* on their way to the shard
    server,      \* the topics the server sends events of
    silent,      \* the connection is dead and nobody has noticed
    events       \* events from outside so far

shard == <<topics, submitted, pending, connected, status>>
flow == <<run, diff, ping>>
network == <<requests, replies, server, silent>>
vars == <<shard, wake, flow, queue, cancelled, network, events>>

\* A command; its topics and action stand for its nonce.
Commands == [type : {"LISTEN", "UNLISTEN"}, topics : SUBSET Topics]
Ping == [type |-> "PING", topics |-> {}]

RunAt == {"top", "dial", "serve", "sync", "wait", "broken", "pause", "off"}

\* s.conn # nil
Open == run \in {"serve", "sync", "wait", "broken"}

TypeOK ==
    /\ topics \subseteq Topics /\ Cardinality(topics) <= ShardTopicLimit
    /\ submitted \subseteq Topics
    /\ pending \subseteq Commands
    /\ connected \in BOOLEAN
    /\ status \in {"disconnected", "connecting", "connected", "reconnecting"}
    /\ wake \in BOOLEAN
    /\ run \in RunAt
    /\ diff \in [removed : SUBSET Topics, added : SUBSET Topics]
    /\ ping \in {"due", "sent", "overdue", "quiet"}
    /\ queue \in 0..EventBuffer
    /\ cancelled \in BOOLEAN
    /\ requests \in Seq(Commands \cup {Ping})
    /\ replies \in Seq([type : {"accepted", "rejected", "badauth"},
                        command : Commands]
                       \cup [type : {"MESSAGE"}, topic : Topics]
                       \cup [type : {"PONG", "RECONNECT"}])
    /\ server \subseteq Topics
    /\ silent \in BOOLEAN
    /\ events \in 0..MaxEvents

NoDiff == [removed |-> {}, added |-> {}]

Init ==
    /\ topics = {} /\ submitted = {} /\ pending = {}
    /\ connected = FALSE /\ status = "disconnected"
    /\ wake = FALSE
    /\ run = "top" /\ diff = NoDiff /\ ping = "due"
    /\ queue = 0
    /\ cancelled = FALSE
    /\ requests = <<>> /\ replies = <<>> /\ server = {} /\ silent = FALSE
    /\ events = 0

Event == events < MaxEvents /\ events' = events + 1

-----------------------------------------------------------------------------
(* The goroutine's outer loop.                                             *)

\* finishRun
Finish ==
    /\ run' = "off"
    /\ submitted' = {} /\ pending' = {}
    /\ connected' = FALSE /\ status' = "disconnected"
    /\ UNCHANGED topics

RunFinishes ==
    /\ run \in {"top", "pause"} /\ cancelled
    /\ Finish
    /\ UNCHANGED <<wake, diff, ping, queue, cancelled, network, events>>

\* Nothing to listen to: sleep and look again.
RunIdles ==
    /\ run = "top" /\ ~cancelled /\ topics = {}
    /\ status' = "disconnected" /\ connected' = FALSE
    /\ UNCHANGED <<topics, submitted, pending, wake, flow, queue, cancelled,
                   network, events>>

RunConnects ==
    /\ run = "top" /\ ~cancelled /\ topics # {}
    /\ status' = "connecting" /\ connected' = FALSE
    /\ run' = "dial"
    /\ UNCHANGED <<topics, submitted, pending, wake, diff, ping, queue,
                   cancelled, network, events>>

\* Authentication, headers or the dial fail; with the context they all do.
DialFails ==
    /\ run = "dial"
    /\ IF cancelled THEN UNCHANGED events ELSE Event
    /\ run' = "pause"
    /\ UNCHANGED <<shard, wake, diff, ping, queue, cancelled, network>>

\* setConn, then connected is set before anything is listened to.
DialSucceeds ==
    /\ run = "dial"
    /\ run' = "serve" /\ ping' = "due" /\ diff' = NoDiff
    /\ submitted' = {} /\ pending' = {}
    /\ connected' = TRUE /\ status' = "connecting"
    /\ requests' = <<>> /\ replies' = <<>> /\ server' = {} /\ silent' = FALSE
    /\ UNCHANGED <<topics, wake, queue, cancelled, events>>

PauseEnds ==
    /\ run = "pause" /\ ~cancelled
    /\ run' = "top"
    /\ UNCHANGED <<shard, wake, diff, ping, queue, cancelled, network, events>>

\* handleConnection has returned: close, clearConn, reconnect if needed.
ConnectionEnds ==
    /\ run = "broken"
    /\ IF cancelled THEN Finish
       ELSE /\ submitted' = {} /\ pending' = {} /\ connected' = FALSE
            /\ IF topics = {} THEN status' = "disconnected" /\ run' = "top"
                              ELSE status' = "reconnecting" /\ run' = "pause"
            /\ UNCHANGED topics
    /\ requests' = <<>> /\ replies' = <<>> /\ server' = {} /\ silent' = FALSE
    /\ UNCHANGED <<wake, diff, ping, queue, cancelled, events>>

-----------------------------------------------------------------------------
(* handleConnection.                                                       *)

Break == run' = "broken"

Pending(type) == UNION {c.topics : c \in {p \in pending : p.type = type}}

\* syncTopics' comparison.  A topic that is no longer wanted is given up also
\* while its LISTEN is unanswered; one that is wanted again waits for its
\* UNLISTEN to be answered.
ToRemove ==
    ((submitted \cup Pending("LISTEN")) \ topics) \ Pending("UNLISTEN")

\* Mutant: an unanswered LISTEN is sent again.
ToAddAgain == topics \ (submitted \cup Pending("UNLISTEN"))

ToAdd == topics \ (submitted \cup Pending("LISTEN") \cup Pending("UNLISTEN"))

\* Mutant: the PONG deadline is not looked at.
ServeOverdue ==
    /\ run = "serve"
    /\ IF cancelled
         THEN Break /\ UNCHANGED <<ping, requests, diff>>
         ELSE /\ run' = "sync"
              /\ diff' = [removed |-> ToRemove, added |-> ToAdd]
              /\ IF ping = "due"
                   THEN ping' = "sent" /\ requests' = Append(requests, Ping)
                   ELSE UNCHANGED <<ping, requests>>
    /\ UNCHANGED <<shard, wake, queue, cancelled, replies, server, silent,
                   events>>

\* The top of the loop: context, PONG deadline, PING, then the snapshot that
\* syncTopics works from.
Serve ==
    /\ run = "serve"
    /\ IF cancelled \/ ping = "overdue"
         THEN Break /\ UNCHANGED <<ping, requests, diff>>
         ELSE /\ run' = "sync"
              /\ diff' = [removed |-> ToRemove, added |-> ToAdd]
              /\ IF ping = "due"
                   THEN ping' = "sent" /\ requests' = Append(requests, Ping)
                   ELSE UNCHANGED <<ping, requests>>
    /\ UNCHANGED <<shard, wake, queue, cancelled, replies, server, silent,
                   events>>

\* Topics in commands of ListenBatchSize.
Batchings(type, S) ==
    LET n == (Cardinality(S) + ListenBatchSize - 1) \div ListenBatchSize
        last == Cardinality(S) - (n - 1) * ListenBatchSize
    IN {[i \in 1..n |-> [type |-> type, topics |-> b[i]]] :
          b \in {b \in [1..n -> SUBSET S] :
                   /\ UNION {b[i] : i \in 1..n} = S
                   /\ \A i \in 1..n : Cardinality(b[i]) =
                         IF i < n THEN ListenBatchSize ELSE last}}

Sent(cs) == {cs[i] : i \in DOMAIN cs}

\* The commands are written and noted as pending, all UNLISTENs first.
SyncTopics ==
    /\ run = "sync"
    /\ \E removals \in Batchings("UNLISTEN", diff.removed),
         additions \in Batchings("LISTEN", diff.added) :
          /\ requests' = requests \o removals \o additions
          /\ pending' = pending \cup Sent(removals) \cup Sent(additions)
    /\ run' = "wait"
    /\ UNCHANGED <<topics, submitted, connected, status, wake, diff, ping,
                   queue, cancelled, replies, server, silent, events>>

\* Validate or a write fails.
SyncFails ==
    /\ run = "sync" /\ diff # NoDiff
    /\ Event
    /\ Break
    /\ UNCHANGED <<shard, wake, diff, ping, queue, cancelled, network>>

\* The select: a wake-up, the timer, the context or a broken socket.
WaitWoken ==
    /\ run = "wait" /\ wake
    /\ wake' = FALSE
    /\ run' = "serve"
    /\ UNCHANGED <<shard, diff, ping, queue, cancelled, network, events>>

WaitTimer ==
    /\ run = "wait"
    /\ run' = "serve"
    /\ UNCHANGED <<shard, wake, diff, ping, queue, cancelled, network, events>>

WaitCancelled ==
    /\ run = "wait" /\ cancelled
    /\ Break
    /\ UNCHANGED <<shard, wake, diff, ping, queue, cancelled, network, events>>

ReadError ==
    /\ run = "wait"
    /\ Event
    /\ Break
    /\ UNCHANGED <<shard, wake, diff, ping, queue, cancelled, network>>

-----------------------------------------------------------------------------
(* handleInbound.                                                          *)

Received(type) ==
    /\ run = "wait" /\ replies # <<>> /\ Head(replies).type = type
    /\ replies' = Tail(replies)
    /\ UNCHANGED <<diff, cancelled, requests, server, silent, events>>

\* refreshConnectedState compares only how many topics there are.
Refresh(t, s) ==
    /\ connected' = (Cardinality(t) = Cardinality(s))
    /\ status' = IF connected' THEN "connected" ELSE "connecting"

\* A response to a command that stop has made the shard forget.
Forgotten ==
    /\ Received("accepted")
    /\ Head(replies).command \notin pending
    /\ run' = "serve"
    /\ UNCHANGED <<shard, wake, ping, queue>>

\* Mutant: the response to an UNLISTEN is taken for a LISTEN's.
AcceptedListen ==
    /\ Received("accepted")
    /\ LET command == Head(replies).command IN
         /\ command \in pending
         /\ submitted' = submitted \cup (command.topics \cap topics)
         /\ pending' = pending \ {command}
    /\ Refresh(topics, submitted')
    /\ run' = "serve"
    /\ UNCHANGED <<topics, wake, ping, queue>>

\* A LISTEN counts for the topics that are still wanted.
Accepted ==
    /\ Received("accepted")
    /\ LET command == Head(replies).command IN
         /\ command \in pending
         /\ submitted' = IF command.type = "LISTEN"
                           THEN submitted \cup (command.topics \cap topics)
                           ELSE submitted \ command.topics
         /\ pending' = pending \ {command}
    /\ Refresh(topics, submitted')
    /\ run' = "serve"
    /\ UNCHANGED <<topics, wake, ping, queue>>

\* A rejected LISTEN takes its topics away from the shard.
Rejected ==
    /\ Received("rejected")
    /\ LET command == Head(replies).command
           named == IF command \in pending THEN command.topics ELSE {}
       IN /\ pending' = pending \ {command}
          /\ IF command.type = "LISTEN"
               THEN /\ topics' = topics \ named
                    /\ wake' = (wake \/ topics' # topics)
                    /\ UNCHANGED submitted
               ELSE /\ submitted' = submitted \ named
                    /\ UNCHANGED <<topics, wake>>
    /\ Refresh(topics', submitted')
    /\ run' = "serve"
    /\ UNCHANGED <<ping, queue>>

\* The token was refused, or the server asks for a new connection.
BadAuth ==
    /\ Received("badauth")
    /\ pending' = pending \ {Head(replies).command}
    /\ Break
    /\ UNCHANGED <<topics, submitted, connected, status, wake, ping, queue>>

Reconnect ==
    /\ Received("RECONNECT")
    /\ Break
    /\ UNCHANGED <<shard, wake, ping, queue>>

Pong ==
    /\ Received("PONG")
    /\ ping' = "quiet"
    /\ run' = "serve"
    /\ UNCHANGED <<shard, wake, queue>>

\* Mutant: the run goroutine waits for room in the queue.
MessageWaits ==
    /\ Received("MESSAGE")
    /\ Head(replies).topic \in topics => queue < EventBuffer
    /\ queue' = IF Head(replies).topic \in topics THEN queue + 1 ELSE queue
    /\ run' = "serve"
    /\ UNCHANGED <<shard, wake, ping>>

\* dispatchMessage: the run goroutine never waits for the dispatcher.
Message ==
    /\ Received("MESSAGE")
    /\ queue' = IF Head(replies).topic \in topics /\ queue < EventBuffer
                  THEN queue + 1 ELSE queue
    /\ run' = "serve"
    /\ UNCHANGED <<shard, wake, ping>>

Inbound == Forgotten \/ Accepted \/ Rejected \/ BadAuth \/ Reconnect \/ Pong \/ Message

RunStep ==
    \/ RunFinishes \/ RunIdles \/ RunConnects \/ DialSucceeds \/ PauseEnds
    \/ ConnectionEnds \/ Serve \/ SyncTopics
    \/ WaitWoken \/ WaitCancelled \/ Inbound

-----------------------------------------------------------------------------
(* The dispatcher, the manager, the clock and the server.                  *)

\* A handler has returned, and the next event is taken.
Dispatch ==
    /\ queue > 0 /\ ~cancelled
    /\ queue' = queue - 1
    /\ UNCHANGED <<shard, wake, flow, cancelled, network, events>>

AddTopic(t) ==
    /\ Event
    /\ t \notin topics /\ Cardinality(topics) < ShardTopicLimit
    /\ topics' = topics \cup {t}
    /\ wake' = TRUE
    /\ UNCHANGED <<submitted, pending, connected, status, flow, queue,
                   cancelled, network>>

RemoveTopics(S) ==
    /\ Event
    /\ S \cap topics # {}
    /\ topics' = topics \ S
    /\ wake' = TRUE
    /\ UNCHANGED <<submitted, pending, connected, status, flow, queue,
                   cancelled, network>>

\* stop(clearTopics), from Manager.Stop or a shard that was recycled.
Stop(clear) ==
    /\ Event
    /\ ~cancelled
    /\ cancelled' = TRUE
    /\ IF clear
         THEN /\ topics' = {} /\ submitted' = {} /\ pending' = {}
              /\ connected' = FALSE /\ status' = "disconnected"
         ELSE UNCHANGED shard
    /\ UNCHANGED <<wake, flow, queue, network>>

PingDue ==
    /\ Open /\ ping = "quiet"
    /\ ping' = "due"
    /\ UNCHANGED <<shard, wake, run, diff, queue, cancelled, network, events>>

\* The PONG is late, or will never come.
PongDeadline ==
    /\ Open /\ ping = "sent"
    /\ IF silent THEN UNCHANGED events ELSE Event
    /\ ping' = "overdue"
    /\ UNCHANGED <<shard, wake, run, diff, queue, cancelled, network>>

Answer(reply) ==
    /\ replies' = Append(replies, reply)
    /\ requests' = Tail(requests)
    /\ UNCHANGED <<shard, wake, flow, queue, cancelled, silent>>

Asked == Open /\ ~silent /\ requests # <<>>

ServerAccepts ==
    /\ Asked /\ Head(requests) # Ping
    /\ LET command == Head(requests) IN
         /\ server' = IF command.type = "LISTEN" THEN server \cup command.topics
                                                 ELSE server \ command.topics
         /\ Answer([type |-> "accepted", command |-> command])
    /\ UNCHANGED events

ServerRejects ==
    /\ Asked /\ Head(requests) # Ping
    /\ Event
    /\ \E type \in {"rejected", "badauth"} :
          Answer([type |-> type, command |-> Head(requests)])
    /\ UNCHANGED server

ServerPongs ==
    /\ Asked /\ Head(requests) = Ping
    /\ Answer([type |-> "PONG"])
    /\ UNCHANGED <<server, events>>

ServerSends ==
    /\ Open /\ ~silent
    /\ Event
    /\ \/ \E t \in server :
             replies' = Append(replies, [type |-> "MESSAGE", topic |-> t])
       \/ replies' = Append(replies, [type |-> "RECONNECT"])
    /\ UNCHANGED <<shard, wake, flow, queue, cancelled, requests, server,
                   silent>>

\* The peer is gone without a word; what it had sent still arrives.
ServerFallsSilent ==
    /\ Open /\ ~silent
    /\ Event
    /\ silent' = TRUE
    /\ UNCHANGED <<shard, wake, flow, queue, cancelled, requests, replies,
                   server>>

ServerStep == ServerAccepts \/ ServerPongs

Next ==
    \/ RunStep \/ WaitTimer \/ DialFails \/ SyncFails \/ ReadError
    \/ Dispatch \/ PingDue \/ PongDeadline
    \/ \E t \in Topics : AddTopic(t)
    \/ \E S \in SUBSET Topics : RemoveTopics(S)
    \/ \E clear \in BOOLEAN : Stop(clear)
    \/ ServerStep \/ ServerRejects \/ ServerSends \/ ServerFallsSilent

Spec == Init /\ [][Next]_vars

\* The goroutine runs, its timers fire, and a server that is there answers.
\* select takes one of the ready channels at random, so a message that waits
\* is taken in the end.  Nothing is assumed of Dispatch: an event handler may
\* take for ever.
FairSpec ==
    /\ Spec
    /\ WF_vars(RunStep)
    /\ SF_vars(Inbound)
    /\ WF_vars(WaitTimer)
    /\ WF_vars(PingDue)
    /\ WF_vars(PongDeadline)
    /\ WF_vars(ServerStep)
-----------------------------------------------------------------------------
(* Properties.                                                             *)

\* No topic is in two unanswered commands of one type, however often it is
\* removed and added again while the server is slow: a response names its
\* command only by a nonce, and the second one would undo the first.
InFlightOnce ==
    \A c, d \in pending :
        c.type = d.type /\ c.topics \cap d.topics # {} => c = d

\* What the shard takes as confirmed, the server does send, or the shard has
\* asked it to stop: a confirmation never outlives its socket, a removal, or
\* an UNLISTEN that crossed with the LISTEN of the same topic.
Confirmed ==
    \A t \in submitted : t \in server \/ t \in Pending("UNLISTEN")

\* When the failures, the changes and the events stop, the shard comes to
\* listen to exactly the topics it was given and stays that way; or,
\* cancelled, it ends.  An event handler that never returns, a full queue, a
\* dead socket and crossed commands do not keep it from that.
Converges ==
    <>[]\/ cancelled /\ run = "off"
        \/ ~cancelled /\ topics = {}
        \/ /\ ~cancelled /\ Open
           /\ submitted = topics /\ topics \subseteq server

\* A connection whose peer has gone without a word is given up.
SilentLeft == silent ~> ~silent
=============================================================================
