------------------------------ MODULE Realtime ------------------------------
(***************************************************************************)
(* The live stream of the dashboard: publishRealtimeLocked and             *)
(* SubscribeRealtime of the store (internal/store/realtime.go) and the     *)
(* WebSocket handler with its reader goroutine (internal/server/           *)
(* admin_realtime.go).                                                     *)
(*                                                                         *)
(* Publishing never waits: a subscriber whose channel is full misses the   *)
(* event and is sent resync_required in place of the next event for which  *)
(* there is room.  An event is its number; the resync message carries the  *)
(* number of the event it stands for.                                      *)
(***************************************************************************)
EXTENDS Integers, Sequences, FiniteSets

CONSTANTS
  Clients,       \* WebSocket requests, each once
  Capacity,      \* of a subscriber's channel, 128
  MaxSubs,       \* maxRealtimeSubscribers
  IncomingCap,   \* of the channel between reader and handler, 4
  MaxPublished   \* bound on events

ASSUME RealtimeAssumption ==
  /\ Capacity \in Nat /\ MaxSubs \in Nat /\ IncomingCap \in Nat /\ MaxPublished \in Nat

VARIABLES
  published,  \* number of the last event
  subs,       \* store.realtimeSubs
  ch, missed, \* channel and flag of each subscriber
  upto, shown,\* number and kind of the last message the browser got
  handler,    \* new, opening (before the upgrade), loop, rejected, left
  reader,     \* its goroutine: none, reading, holding a frame, gone
  incoming,   \* frames between the two
  readErr     \* its channel of one error

feed == <<published, subs, ch, missed, upto, shown>>
socket == <<handler, reader, incoming, readErr>>
vars == <<feed, socket>>

Frames == {"ping", "close", "other"}
Message == [kind : {"delta", "resync"}, n : Nat]

Init ==
  /\ published = 0 /\ subs = {}
  /\ ch = [c \in Clients |-> << >>] /\ missed = [c \in Clients |-> FALSE]
  /\ upto = [c \in Clients |-> 0] /\ shown = [c \in Clients |-> "none"]
  /\ handler = [c \in Clients |-> "new"] /\ reader = [c \in Clients |-> "none"]
  /\ incoming = [c \in Clients |-> << >>] /\ readErr = [c \in Clients |-> FALSE]

----------------------------------------------------------------------------
(* The store *)

HasRoom(c) == Len(ch[c]) < Capacity

\* A mutant: the subscriber goes on without having been told of the gap.
QueuedSilently(c, n) ==
  IF HasRoom(c) THEN Append(ch[c], [kind |-> "delta", n |-> n]) ELSE ch[c]

\* What is put into the channel of a subscriber for event n.
Queued(c, n) ==
  IF ~HasRoom(c) THEN ch[c]
  ELSE Append(ch[c], [kind |-> IF missed[c] THEN "resync" ELSE "delta", n |-> n])

\* The event is in the store and offered to every subscriber.  After a miss the
\* next event with room is replaced by the resync message.
publishRealtimeLocked ==
  /\ published < MaxPublished /\ published' = published + 1
  /\ ch' = [c \in Clients |-> IF c \in subs THEN Queued(c, published + 1) ELSE ch[c]]
  /\ missed' = [c \in Clients |-> IF c \in subs THEN ~HasRoom(c) ELSE missed[c]]
  /\ UNCHANGED <<subs, upto, shown, socket>>

\* A mutant: the limit lets one more in.
MayJoinLate == Cardinality(subs) <= MaxSubs

MayJoin == Cardinality(subs) < MaxSubs

SubscribeRealtime(c) ==
  /\ handler[c] = "new"
  /\ \/ /\ MayJoin
        /\ subs' = subs \cup {c}
        /\ upto' = [upto EXCEPT ![c] = published]
        /\ handler' = [handler EXCEPT ![c] = "opening"]
     \/ /\ ~MayJoin
        /\ handler' = [handler EXCEPT ![c] = "rejected"]
        /\ UNCHANGED <<subs, upto>>
  /\ UNCHANGED <<published, ch, missed, shown, reader, incoming, readErr>>

\* The handler returns: the deferred calls unsubscribe and close the connection.
Cancel(c) ==
  /\ subs' = subs \ {c}
  /\ ch' = [ch EXCEPT ![c] = << >>]
  /\ handler' = [handler EXCEPT ![c] = "left"]
  /\ UNCHANGED <<published, missed, upto, shown>>

----------------------------------------------------------------------------
(* The handler: every case of its select *)

\* Hijacking, the 101 response and the reader goroutine; or one of them fails.
Upgrade(c) ==
  /\ handler[c] = "opening"
  /\ \/ /\ handler' = [handler EXCEPT ![c] = "loop"]
        /\ reader' = [reader EXCEPT ![c] = "reading"]
        /\ UNCHANGED feed
     \/ Cancel(c) /\ UNCHANGED reader
  /\ UNCHANGED <<incoming, readErr>>

\* A mutant: messages are written only when the channel is full.
ForwardBatched(c) ==
  /\ handler[c] = "loop" /\ ~HasRoom(c)
  /\ upto' = [upto EXCEPT ![c] = Head(ch[c]).n]
  /\ shown' = [shown EXCEPT ![c] = Head(ch[c]).kind]
  /\ ch' = [ch EXCEPT ![c] = Tail(@)]
  /\ UNCHANGED <<published, subs, missed, handler, reader, incoming, readErr>>

\* A mutant: the handler drains the channel and writes only the newest message.
ForwardNewest(c) ==
  /\ handler[c] = "loop" /\ ch[c] # << >>
  /\ upto' = [upto EXCEPT ![c] = ch[c][Len(ch[c])].n]
  /\ shown' = [shown EXCEPT ![c] = ch[c][Len(ch[c])].kind]
  /\ ch' = [ch EXCEPT ![c] = << >>]
  /\ UNCHANGED <<published, subs, missed, handler, reader, incoming, readErr>>

\* A message is written to the browser, or cannot be written (or is too large).
Forward(c) ==
  /\ handler[c] = "loop" /\ ch[c] # << >>
  /\ \/ /\ upto' = [upto EXCEPT ![c] = Head(ch[c]).n]
        /\ shown' = [shown EXCEPT ![c] = Head(ch[c]).kind]
        /\ ch' = [ch EXCEPT ![c] = Tail(@)]
        /\ UNCHANGED <<published, subs, missed, handler>>
     \/ Cancel(c)
  /\ UNCHANGED <<reader, incoming, readErr>>

\* A frame of the browser: a ping is answered, a close answered and obeyed.
HandleFrame(c) ==
  /\ handler[c] = "loop" /\ incoming[c] # << >>
  /\ incoming' = [incoming EXCEPT ![c] = Tail(@)]
  /\ \/ Head(incoming[c]) \in {"ping", "close"} /\ Cancel(c)
     \/ Head(incoming[c]) \in {"ping", "other"} /\ UNCHANGED <<feed, handler>>
  /\ UNCHANGED <<reader, readErr>>

HandleReadErr(c) ==
  /\ handler[c] = "loop" /\ readErr[c]
  /\ readErr' = [readErr EXCEPT ![c] = FALSE]
  /\ Cancel(c)
  /\ UNCHANGED <<reader, incoming>>

\* A heartbeat cannot be written, or the context of the request is done.
Drop(c) == handler[c] = "loop" /\ Cancel(c) /\ UNCHANGED <<reader, incoming, readErr>>

----------------------------------------------------------------------------
(* The reader goroutine *)

\* A frame is read and passed on, waits for room, or is dropped when the context
\* of the request is done.
ReadFrame(c) ==
  /\ reader[c] = "reading"
  /\ \/ /\ Len(incoming[c]) < IncomingCap
        /\ \E f \in Frames : incoming' = [incoming EXCEPT ![c] = Append(@, f)]
        /\ UNCHANGED reader
     \/ /\ Len(incoming[c]) >= IncomingCap
        /\ reader' = [reader EXCEPT ![c] = "holding"]
        /\ UNCHANGED incoming
     \/ /\ handler[c] = "left"
        /\ reader' = [reader EXCEPT ![c] = "gone"]
        /\ UNCHANGED incoming
  /\ UNCHANGED <<feed, handler, readErr>>

\* The frame that had to wait, of any kind, is passed on.
PassFrame(c) ==
  /\ reader[c] = "holding" /\ Len(incoming[c]) < IncomingCap
  /\ \E f \in Frames : incoming' = [incoming EXCEPT ![c] = Append(@, f)]
  /\ reader' = [reader EXCEPT ![c] = "reading"]
  /\ UNCHANGED <<feed, handler, readErr>>

\* A mutant: readErr has no buffer.
ReadFailsUnbuffered(c) ==
  /\ reader[c] = "reading" /\ handler[c] = "loop"
  /\ reader' = [reader EXCEPT ![c] = "gone"]
  /\ readErr' = [readErr EXCEPT ![c] = TRUE]
  /\ UNCHANGED <<feed, handler, incoming>>

\* The connection is closed by either side.
ReadFails(c) ==
  /\ reader[c] = "reading"
  /\ reader' = [reader EXCEPT ![c] = "gone"]
  /\ readErr' = [readErr EXCEPT ![c] = TRUE]
  /\ UNCHANGED <<feed, handler, incoming>>

\* The context of the request ends with the handler.
ContextDone(c) ==
  /\ reader[c] = "holding" /\ handler[c] = "left"
  /\ reader' = [reader EXCEPT ![c] = "gone"]
  /\ UNCHANGED <<feed, handler, incoming, readErr>>

----------------------------------------------------------------------------
Handle(c) == Forward(c) \/ HandleFrame(c) \/ HandleReadErr(c)
Reader(c) == PassFrame(c) \/ ReadFails(c) \/ ContextDone(c)

Next ==
  \/ publishRealtimeLocked
  \/ \E c \in Clients : SubscribeRealtime(c) \/ Upgrade(c) \/ Handle(c) \/ Drop(c)
                        \/ ReadFrame(c) \/ Reader(c)

\* The goroutines run: the handler writes what its channel holds (Go's select picks
\* at random among its ready cases), and a read of a closed connection fails.
Fairness ==
  \A c \in Clients :
    /\ WF_vars(Upgrade(c)) /\ WF_vars(Forward(c))
    /\ WF_vars(handler[c] = "left" /\ ReadFails(c)) /\ WF_vars(ContextDone(c))

Spec == Init /\ [][Next]_vars
FairSpec == Spec /\ Fairness

----------------------------------------------------------------------------
(* Properties *)

\* The type invariant.
TypeOK ==
  /\ published \in Nat /\ subs \subseteq Clients
  /\ ch \in [Clients -> Seq(Message)] /\ missed \in [Clients -> BOOLEAN]
  /\ upto \in [Clients -> Nat] /\ shown \in [Clients -> {"none", "delta", "resync"}]
  /\ handler \in [Clients -> {"new", "opening", "loop", "rejected", "left"}]
  /\ reader \in [Clients -> {"none", "reading", "holding", "gone"}]
  /\ incoming \in [Clients -> Seq(Frames)] /\ readErr \in [Clients -> BOOLEAN]

\* No more than maxRealtimeSubscribers are ever served, no subscriber is left
\* behind by a handler that returned, and no channel exceeds its capacity.
SubsBounded ==
  /\ IsFiniteSet(subs) => Cardinality(subs) <= MaxSubs
  /\ \A c \in Clients : c \in subs <=> handler[c] \in {"opening", "loop"}
  /\ \A c \in Clients : Len(ch[c]) <= Capacity

\* A browser sees the events in order and without a gap, but for the gaps that a
\* resync_required message covers: the stream is a LiveFeed.
Feed == INSTANCE LiveFeed
          WITH Clients <- Clients, published <- published, subs <- subs,
               upto <- upto, shown <- shown
ImplementsLiveFeed == Feed!Spec

\* A channel holds what follows the last message the browser got: event by event,
\* past a gap only by a resync, up to the last event unless one was just missed.
NumberBefore(c, i) == IF i = 1 THEN upto[c] ELSE ch[c][i - 1].n
Newest(c) == NumberBefore(c, Len(ch[c]) + 1)

ChannelContinues(c) ==
  /\ \A i \in 1..Len(ch[c]) :
       /\ ch[c][i].kind = "delta" => ch[c][i].n = NumberBefore(c, i) + 1
       /\ ch[c][i].kind = "resync" => ch[c][i].n > NumberBefore(c, i)
       /\ ch[c][i].n <= published
  /\ upto[c] <= published
  /\ IF missed[c] THEN Newest(c) < published ELSE Newest(c) = published

StreamContinues == \A c \in subs : ChannelContinues(c)

\* Clients that have yet to subscribe have an empty channel and missed nothing.
Fresh == \A c \in Clients : handler[c] = "new" => ch[c] = << >> /\ ~missed[c]

\* The inductive invariant: what a message may say depends on the whole channel.
IInv == TypeOK /\ SubsBounded /\ Fresh /\ StreamContinues

\* A connected browser catches up with the store whenever publishing pauses (the
\* events of a run are bounded), unless it was too slow and is to be told so with
\* the next event, or leaves.
EventsArrive ==
  \A c \in Clients :
    c \in subs ~> (upto[c] = published \/ missed[c] \/ c \notin subs)

\* The reader goroutine ends with its handler, whatever it was doing.
ReaderEnds ==
  \A c \in Clients : handler[c] = "left" ~> reader[c] \in {"none", "gone"}
=============================================================================
