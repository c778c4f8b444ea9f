------------------------------- MODULE WsHub -------------------------------
(***************************************************************************)
(* The WebSocket hub of one API Gateway process: a loop per topic takes    *)
(* each message to the connections subscribed to its order, while clients  *)
(* come and go and a goroutine per connection waits for it to end.         *)
(*                                                                         *)
(* A step is what happens under the mutex, or the begin or the end of a    *)
(* write, which blocks.  The library allows one writer per connection:     *)
(* it panics when it notices a second one, and the process starts again    *)
(* without subscribers.                                                    *)
(***************************************************************************)
EXTENDS Naturals, Sequences, SequencesExt

CONSTANTS Conns,    \* WebSocket connections, one per attempt of a client
          OrderOf,  \* OrderOf[c]: the order id in the path of c
          Topics,
          Feed,     \* Feed[t]: the order ids of the messages of topic t
          NoConn

ASSUME ConnsAssumption == NoConn \notin Conns

ASSUME FeedAssumption == \A t \in Topics : Feed[t] \in Seq(ToSet(Feed[t]))

VARIABLES subscribers,  \* Hub.subscribers: the connections of an order
          state,        \* of a connection: its client and its socket
          reading,      \* whether a connection's goroutine still runs
          next,         \* how many messages of a topic have been read
          conns,        \* broadcast's copy: whom a loop has still to write to
          writing,      \* the connection a loop is writing to
          frames,       \* the frames a client has received
          overlap,      \* the loops whose write ran into another loop's
          owed          \* history: who was subscribed when the copy was made

vars == <<subscribers, state, reading, next, conns, writing, frames, overlap, owed>>

Orders == {OrderOf[c] : c \in Conns}

Subscribed == UNION {ToSet(subscribers[o]) : o \in Orders}

Frame(t) == [topic |-> t, position |-> next[t]]

Init == /\ subscribers = [o \in Orders |-> << >>]
        /\ state = [c \in Conns |-> "none"]
        /\ reading = [c \in Conns |-> FALSE]
        /\ next = [t \in Topics |-> 0]
        /\ conns = [t \in Topics |-> << >>]
        /\ writing = [t \in Topics |-> NoConn]
        /\ frames = [c \in Conns |-> << >>]
        /\ overlap = {}
        /\ owed = [t \in Topics |-> {}]

(* Another loop is in the middle of a write to c.                          *)
Busy(t, c) == \E u \in Topics \ {t} : writing[u] = c

(* The subscribers without c: the loop breaks at the first that is c.      *)
Without(c) == [subscribers EXCEPT ![OrderOf[c]] = RemoveFirst(@, c)]

(* Slips of a programmer, which no specification here uses: README.md says *)
(* which definition each would replace and which property then fails.      *)
CloseOnly(c) ==
  /\ state' = [state EXCEPT ![c] = "closed"]
  /\ UNCHANGED subscribers

EveryOrder(c) ==
  /\ state[c] = "none"
  /\ state' = [state EXCEPT ![c] = "open"]
  /\ subscribers' = [o \in Orders |-> Append(subscribers[o], c)]
  /\ reading' = [reading EXCEPT ![c] = TRUE]
  /\ UNCHANGED <<next, conns, writing, frames, overlap, owed>>

ReturnOnError(t) ==
  LET c == Head(conns[t]) IN
  /\ conns[t] # << >>
  /\ writing[t] \in {c, NoConn}
  /\ state[c] \in {"broken", "closed"}
  /\ state' = [state EXCEPT ![c] = "closed"]
  /\ subscribers' = Without(c)
  /\ conns' = [conns EXCEPT ![t] = << >>]
  /\ writing' = [writing EXCEPT ![t] = NoConn]
  /\ overlap' = overlap \ {t}
  /\ UNCHANGED <<reading, next, frames, owed>>

RetryForEver(t) ==
  LET c == Head(conns[t]) IN
  /\ conns[t] # << >>
  /\ writing[t] \in {c, NoConn}
  /\ state[c] \in {"broken", "closed"}
  /\ state' = [state EXCEPT ![c] = "closed"]
  /\ subscribers' = Without(c)
  /\ writing' = [writing EXCEPT ![t] = NoConn]
  /\ overlap' = overlap \ {t}
  /\ UNCHANGED <<conns, reading, next, frames, owed>>

(* remove: out of the order's list and closed, under one lock; harmless    *)
(* when somebody did it before.                                            *)
remove(c) ==
  /\ subscribers' = Without(c)
  /\ state' = [state EXCEPT ![c] = "closed"]

-----------------------------------------------------------------------------
(* The connection is upgraded and registered, and its goroutine starts.    *)
ServeWS(c) ==
  /\ state[c] = "none"
  /\ state' = [state EXCEPT ![c] = "open"]
  /\ subscribers' = [subscribers EXCEPT ![OrderOf[c]] = Append(@, c)]
  /\ reading' = [reading EXCEPT ![c] = TRUE]
  /\ UNCHANGED <<next, conns, writing, frames, overlap, owed>>

(* A client stops reading its frames for good (a slow one that goes on     *)
(* counts as open): a write to it blocks, and there is no write deadline.  *)
Stall(c) ==
  /\ state[c] = "open"
  /\ state' = [state EXCEPT ![c] = "stalled"]
  /\ UNCHANGED <<subscribers, reading, next, conns, writing, frames, overlap, owed>>

(* The client leaves, or its network fails.                                *)
Break(c) ==
  /\ state[c] \in {"open", "stalled"}
  /\ state' = [state EXCEPT ![c] = "broken"]
  /\ UNCHANGED <<subscribers, reading, next, conns, writing, frames, overlap, owed>>

(* ReadMessage of the goroutine returns an error.                          *)
ReadFails(c) ==
  /\ reading[c]
  /\ state[c] \in {"broken", "closed"}
  /\ remove(c)
  /\ reading' = [reading EXCEPT ![c] = FALSE]
  /\ UNCHANGED <<next, conns, writing, frames, overlap, owed>>

(* A loop reads a message, which commits it, and copies the subscribers.   *)
Broadcast(t) ==
  LET o == Feed[t][next[t] + 1] IN
  /\ conns[t] = << >>
  /\ next[t] < Len(Feed[t])
  /\ next' = [next EXCEPT ![t] = @ + 1]
  /\ conns' = [conns EXCEPT ![t] = IF o \in Orders THEN subscribers[o] ELSE << >>]
  /\ owed' = [owed EXCEPT ![t] = ToSet(conns'[t])]
  /\ UNCHANGED <<subscribers, state, reading, writing, frames, overlap>>

(* The library starts a write without a look at the socket.                *)
BeginWrite(t) ==
  LET c == Head(conns[t]) IN
  /\ conns[t] # << >>
  /\ writing[t] = NoConn
  /\ ~Busy(t, c)
  /\ writing' = [writing EXCEPT ![t] = c]
  /\ UNCHANGED <<subscribers, state, reading, next, conns, frames, overlap, owed>>

(* The loop is done with a connection and goes on to the next one.         *)
advance(t) ==
  /\ conns' = [conns EXCEPT ![t] = Tail(@)]
  /\ writing' = [writing EXCEPT ![t] = NoConn]
  /\ overlap' = overlap \ {t}
  /\ UNCHANGED <<reading, next, owed>>

EndWrite(t) ==
  LET c == writing[t] IN
  /\ c # NoConn
  /\ state[c] = "open"
  /\ frames' = [frames EXCEPT ![c] = Append(@, Frame(t))]
  /\ advance(t)
  /\ UNCHANGED <<subscribers, state>>

(* A write to a connection that is just broken may succeed all the same:   *)
(* the kernel took the frame.                                              *)
WriteVanishes(t) ==
  /\ writing[t] # NoConn
  /\ state[writing[t]] = "broken"
  /\ advance(t)
  /\ UNCHANGED <<subscribers, state, frames>>

(* WriteMessage returns an error: remove, and on to the next connection.   *)
WriteFails(t) ==
  LET c == Head(conns[t]) IN
  /\ conns[t] # << >>
  /\ writing[t] \in {c, NoConn}
  /\ state[c] \in {"broken", "closed"}
  /\ remove(c)
  /\ advance(t)
  /\ UNCHANGED frames

Collision(t) ==
  /\ conns[t] # << >>
  /\ writing[t] = NoConn
  /\ Busy(t, Head(conns[t]))

(* Two loops write to one connection and nobody notices yet: either the    *)
(* frames come out whole, or the client cannot make sense of them and      *)
(* leaves.                                                                 *)
WriteConcurrently(t) ==
  LET c == Head(conns[t]) IN
  /\ Collision(t)
  /\ writing' = [writing EXCEPT ![t] = c]
  /\ overlap' = overlap \cup {t} \cup {u \in Topics : writing[u] = c}
  /\ \/ UNCHANGED state
     \/ /\ state[c] \in {"open", "stalled"}
        /\ state' = [state EXCEPT ![c] = "broken"]
  /\ UNCHANGED <<subscribers, reading, next, conns, frames, owed>>

(* The library sees the second writer when it begins, or when a write that *)
(* ran into another one ends: it panics, and the process dies and starts   *)
(* again.                                                                  *)
Panic(t) ==
  /\ Collision(t) \/ (t \in overlap /\ state[writing[t]] # "stalled")
  /\ subscribers' = [o \in Orders |-> << >>]
  /\ state' = [c \in Conns |-> IF state[c] = "none" THEN "none" ELSE "closed"]
  /\ reading' = [c \in Conns |-> FALSE]
  /\ conns' = [u \in Topics |-> << >>]
  /\ writing' = [u \in Topics |-> NoConn]
  /\ overlap' = {}
  /\ UNCHANGED <<next, frames, owed>>

loop(t) == Broadcast(t) \/ BeginWrite(t) \/ EndWrite(t) \/ WriteVanishes(t)
             \/ WriteFails(t) \/ WriteConcurrently(t)

Next == \/ \E c \in Conns : ServeWS(c) \/ Stall(c) \/ Break(c) \/ ReadFails(c)
        \/ \E t \in Topics : loop(t) \/ Panic(t)

Spec == Init /\ [][Next]_vars

(* Goroutines that can go on do.  A write to a stalled client cannot: no   *)
(* client has to read again or to leave.  All of the work is finite, so    *)
(* none of it is put off for ever.                                         *)
Progress == (\E t \in Topics : loop(t)) \/ (\E c \in Conns : ReadFails(c))

Fairness == WF_vars(Progress)

FairSpec == Spec /\ Fairness

-----------------------------------------------------------------------------
(* The types of the hub's, the loops' and the clients' state.              *)
TypeOK ==
  /\ \A o \in Orders : ToSet(subscribers[o]) \subseteq {c \in Conns : OrderOf[c] = o}
  /\ state \in [Conns -> {"none", "open", "stalled", "broken", "closed"}]
  /\ reading \in [Conns -> BOOLEAN]
  /\ \A t \in Topics : /\ next[t] \in 0..Len(Feed[t])
                       /\ ToSet(conns[t]) \subseteq owed[t]
                       /\ writing[t] # NoConn
                            => conns[t] # << >> /\ writing[t] = Head(conns[t])
  /\ \A c \in Conns : \A f \in ToSet(frames[c]) : f.position \in 1..next[f.topic]
  /\ overlap \subseteq {t \in Topics : writing[t] # NoConn}

(* Two goroutines may remove a connection, in any order and both: the hub  *)
(* never keeps one that is closed or that nobody watches any more, and     *)
(* never has one twice.                                                    *)
NobodyLeaked ==
  /\ \A c \in Subscribed : reading[c] /\ state[c] # "closed"
  /\ \A o \in Orders : IsInjective(subscribers[o])

(* Whoever was subscribed when a message came in and is well gets it,      *)
(* whatever other connections fail or are removed in between; a client     *)
(* gets nothing of an order it did not ask for; and the messages of a      *)
(* topic come in order, none twice, also across a restart.                 *)
FramesFollowFeed ==
  /\ \A t \in Topics : \A c \in owed[t] :
       state[c] = "open" => c \in ToSet(conns[t]) \/ Frame(t) \in ToSet(frames[c])
  /\ \A c \in Conns : \A f \in ToSet(frames[c]) :
       Feed[f.topic][f.position] = OrderOf[c]
  /\ \A c \in Conns : \A m, n \in DOMAIN frames[c] :
       m < n /\ frames[c][m].topic = frames[c][n].topic
         => frames[c][m].position < frames[c][n].position

(* What it takes for the gateway to drop a client that is well: a loop is  *)
(* at a subscriber of its message's order, and another topic has had a     *)
(* message of that same order too.  Events of different orders never do    *)
(* it, nor clients that fail or leave, nor a topic on its own.             *)
DroppedOnlyByTwoTopics ==
  [][\A c \in Conns : state[c] = "open" /\ state'[c] = "closed"
       => \E t, u \in Topics :
            /\ t # u
            /\ conns[t] # << >>
            /\ Feed[t][next[t]] = OrderOf[Head(conns[t])]
            /\ \E n \in 1..next[u] : Feed[u][n] = Feed[t][next[t]]]_vars

(* A loop takes every message of its topic, unless it is in a write to a   *)
(* stalled client for ever: no write deadline ends that (wsstream.go:88),  *)
(* but nothing else holds a loop up.  And a connection that broke leaves   *)
(* the hub, whether or not anything is written to it again.                *)
HubGoesOn ==
  /\ \A t \in Topics :
       \/ <>(next[t] = Len(Feed[t]))
       \/ <>[](\E c \in Conns : writing[t] = c /\ state[c] = "stalled")
  /\ \A c \in Conns : state[c] = "broken" ~> c \notin Subscribed
=============================================================================
