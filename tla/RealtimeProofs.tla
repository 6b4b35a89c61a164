--------------------------- MODULE RealtimeProofs ---------------------------
(***************************************************************************)
(* Proofs about Realtime: the channels continue the stream of each         *)
(* browser, so the live stream implements LiveFeed, for every number of    *)
(* clients and every capacity.                                             *)
(***************************************************************************)
EXTENDS Realtime, FiniteSetTheorems, TLAPS

\* The initial state satisfies the inductive invariant.
LEMMA InitInv == Init => IInv
BY RealtimeAssumption, FS_EmptySet
   DEF Init, IInv, TypeOK, SubsBounded, Fresh, StreamContinues, Frames, Message

\* The elements of a channel are messages with a number.
LEMMA MessageElements ==
  /\ \A q \in Seq(Message) : /\ Len(q) \in Nat
                             /\ \A i \in 1..Len(q) : q[i] \in Message /\ q[i].n \in Nat
  /\ \A k \in {"delta", "resync"}, n \in Nat : [kind |-> k, n |-> n] \in Message
<1>1. \A q \in Seq(Message) : Len(q) \in Nat /\ \A i \in 1..Len(q) : q[i] \in Message
  OBVIOUS
<1>2. \A m \in Message : m.n \in Nat
  BY DEF Message
<1>3. \A k \in {"delta", "resync"}, n \in Nat : [kind |-> k, n |-> n] \in Message
  BY DEF Message
<1>. QED  BY <1>1, <1>2, <1>3

\* Appending a message adds it at the end and keeps the others.
LEMMA AppendElements ==
  ASSUME NEW S, NEW q \in Seq(S), NEW m \in S
  PROVE  /\ Append(q, m) \in Seq(S) /\ Len(Append(q, m)) = Len(q) + 1
         /\ Append(q, m)[Len(q) + 1] = m
         /\ \A i \in 1..Len(q) : Append(q, m)[i] = q[i]
OBVIOUS

\* A channel that is left alone, of a browser that got nothing new, continues the
\* stream as before.
LEMMA ChannelKept ==
  ASSUME NEW c \in Clients, ChannelContinues(c),
         ch'[c] = ch[c], missed'[c] = missed[c], upto'[c] = upto[c],
         published' = published
  PROVE  ChannelContinues(c)'
BY DEF ChannelContinues, NumberBefore, Newest

\* Publishing continues every channel: by the event, by the resync that covers a
\* gap, or by a miss that is remembered.
LEMMA PublishContinues ==
  ASSUME TypeOK, NEW c \in Clients, c \in subs, ChannelContinues(c), publishRealtimeLocked
  PROVE  ChannelContinues(c)'
<1>. DEFINE q == ch[c]
            m == [kind |-> IF missed[c] THEN "resync" ELSE "delta", n |-> published + 1]
<1>1. /\ published \in Nat /\ published' = published + 1
      /\ q \in Seq(Message) /\ upto[c] \in Nat /\ upto' = upto
      /\ missed[c] \in BOOLEAN /\ missed'[c] = ~HasRoom(c)
      /\ ch'[c] = IF HasRoom(c) THEN Append(q, m) ELSE q
  BY DEF TypeOK, publishRealtimeLocked, Queued
<1>2. /\ \A i \in 1..Len(q) : q[i] \in Message
      /\ \A i \in 1..Len(q) : q[i].n \in Nat
      /\ Len(q) \in Nat /\ m \in Message
  BY <1>1, MessageElements
<1>3. CASE ~HasRoom(c)
  <2>1. ch'[c] = ch[c] /\ missed'[c] = TRUE
    BY <1>1, <1>3
  <2>2. /\ \A i \in 1..(Len(q) + 1) : NumberBefore(c, i)' = NumberBefore(c, i)
        /\ Newest(c)' = Newest(c) /\ NumberBefore(c, Len(q) + 1) \in Nat
    <3>1. \A i \in 1..(Len(q) + 1) : NumberBefore(c, i)' = NumberBefore(c, i)
      BY <1>1, <2>1 DEF NumberBefore
    <3>2. Newest(c)' = Newest(c)
      BY <1>1, <2>1 DEF Newest, NumberBefore
    <3>3. CASE Len(q) = 0
      BY <3>3, <3>1, <3>2, <1>1 DEF NumberBefore
    <3>4. CASE Len(q) # 0
      <4>1. Len(q) \in 1..Len(q) /\ Len(q) + 1 # 1 /\ (Len(q) + 1) - 1 = Len(q)
        BY <3>4, <1>2
      <4>2. q[Len(q)].n \in Nat
        BY <4>1, <1>2
      <4>. QED  BY <4>1, <4>2, <3>1, <3>2 DEF NumberBefore
    <3>. QED  BY <3>3, <3>4
  <2>. QED  BY <1>1, <1>2, <2>1, <2>2 DEF ChannelContinues, Newest
<1>4. CASE HasRoom(c)
  <2>1. /\ ch'[c] = Append(q, m) /\ Len(ch'[c]) = Len(q) + 1
        /\ \A i \in 1..Len(q) : ch'[c][i] = q[i]
        /\ ch'[c][Len(q) + 1] = m /\ Len(q) \in Nat /\ missed'[c] = FALSE
    <3>1. ch'[c] = Append(q, m) /\ missed'[c] = FALSE
      BY <1>1, <1>4
    <3>2. q \in Seq(Message) /\ m \in Message /\ Len(q) \in Nat
      BY <1>1, <1>2
    <3>. HIDE DEF m, q
    <3>3. /\ Len(Append(q, m)) = Len(q) + 1 /\ Append(q, m)[Len(q) + 1] = m
          /\ \A i \in 1..Len(q) : Append(q, m)[i] = q[i]
      BY <3>2, AppendElements
    <3>. QED  BY <3>1, <3>2, <3>3
  <2>2. \A i \in 1..(Len(q) + 1) : NumberBefore(c, i)' = NumberBefore(c, i)
    BY <1>1, <2>1 DEF NumberBefore
  <2>3. Newest(c)' = published + 1
    BY <2>1, <1>1 DEF Newest, NumberBefore
  <2>4. NumberBefore(c, Len(q) + 1) \in Nat
    BY <1>1, <1>2, <2>1 DEF NumberBefore
  <2>5. /\ ~missed[c] => NumberBefore(c, Len(q) + 1) = published
        /\ missed[c] => NumberBefore(c, Len(q) + 1) < published
    BY DEF ChannelContinues, Newest
  <2>6. \A i \in 1..Len(q) :
          /\ q[i].kind = "delta" => q[i].n = NumberBefore(c, i) + 1
          /\ q[i].kind = "resync" => q[i].n > NumberBefore(c, i)
          /\ q[i].n <= published
    BY DEF ChannelContinues
  <2>7. ASSUME NEW i \in 1..Len(ch'[c])
        PROVE  /\ ch'[c][i].kind = "delta" => ch'[c][i].n = NumberBefore(c, i)' + 1
               /\ ch'[c][i].kind = "resync" => ch'[c][i].n > NumberBefore(c, i)'
               /\ ch'[c][i].n <= published'
    <3>1. CASE i = Len(q) + 1
      BY <3>1, <2>1, <2>2, <2>4, <2>5, <1>1
    <3>2. CASE i # Len(q) + 1
      <4>1. i \in 1..Len(q) /\ i \in 1..(Len(q) + 1)
        BY <3>2, <2>1
      <4>. QED  BY <4>1, <2>1, <2>2, <2>6, <1>1, <1>2
    <3>. QED  BY <3>1, <3>2
  <2>8. upto'[c] <= published'
    BY <1>1 DEF ChannelContinues
  <2>. QED  BY <2>1, <2>3, <2>7, <2>8, <1>1 DEF ChannelContinues
<1>. QED  BY <1>3, <1>4

\* Writing the first message to the browser leaves a channel that continues it.
LEMMA ForwardContinues ==
  ASSUME TypeOK, NEW c \in Clients, ChannelContinues(c), ch[c] # << >>,
         ch'[c] = Tail(ch[c]), upto'[c] = Head(ch[c]).n,
         missed' = missed, published' = published
  PROVE  ChannelContinues(c)'
<1>. DEFINE q == ch[c]
<1>1. /\ q \in Seq(Message) /\ q # << >> /\ Len(q) \in Nat \ {0}
      /\ Head(q) = q[1] /\ Len(Tail(q)) = Len(q) - 1
      /\ \A i \in 1..(Len(q) - 1) : Tail(q)[i] = q[i + 1]
      /\ published \in Nat
  BY DEF TypeOK
<1>2. \A i \in 1..Len(q) : q[i].n \in Nat
  BY <1>1, MessageElements
<1>3. \A i \in 1..Len(q) : NumberBefore(c, i)' = NumberBefore(c, i + 1)
  BY <1>1, <1>2 DEF NumberBefore
<1>4. Newest(c)' = Newest(c)
  BY <1>1, <1>3 DEF Newest
<1>5. \A i \in 1..(Len(q) - 1) : i + 1 \in 1..Len(q)
  BY <1>1
<1>6. upto'[c] <= published'
  BY <1>1 DEF ChannelContinues
<1>. QED  BY <1>1, <1>2, <1>3, <1>4, <1>5, <1>6 DEF ChannelContinues

\* A handler that returns leaves no subscriber behind.
LEMMA CancelInv ==
  ASSUME IInv, NEW c \in Clients, handler[c] \in {"opening", "loop"}, Cancel(c),
         reader' \in [Clients -> {"none", "reading", "holding", "gone"}],
         incoming' \in [Clients -> Seq(Frames)], readErr' \in [Clients -> BOOLEAN]
  PROVE  IInv'
<1>1. TypeOK'
  <2>1. << >> \in Seq(Message)
    OBVIOUS
  <2>2. ch' \in [Clients -> Seq(Message)]
    BY <2>1 DEF IInv, TypeOK, Cancel
  <2>. QED  BY <2>2 DEF IInv, TypeOK, Cancel
<1>2. SubsBounded'
  <2>1. IsFiniteSet(subs') => IsFiniteSet(subs) /\ Cardinality(subs') <= Cardinality(subs)
    <3>1. c \in subs /\ subs = subs' \cup {c}
      BY DEF IInv, SubsBounded, Cancel
    <3>2. IsFiniteSet(subs') => IsFiniteSet(subs)
      BY <3>1, FS_AddElement
    <3>3. IsFiniteSet(subs) => Cardinality(subs') = Cardinality(subs) - 1 /\ Cardinality(subs) \in Nat
      BY <3>1, FS_RemoveElement, FS_CardinalityType DEF Cancel
    <3>. QED  BY <3>2, <3>3
  <2>2. IsFiniteSet(subs') => Cardinality(subs') <= MaxSubs
    BY <2>1, FS_CardinalityType, RealtimeAssumption DEF IInv, SubsBounded
  <2>3. \A d \in Clients : d \in subs' <=> handler'[d] \in {"opening", "loop"}
    BY DEF IInv, TypeOK, SubsBounded, Cancel
  <2>4. \A d \in Clients : Len(ch'[d]) <= Capacity
    BY RealtimeAssumption DEF IInv, TypeOK, SubsBounded, Cancel
  <2>. QED  BY <2>2, <2>3, <2>4 DEF SubsBounded
<1>3. Fresh'
  BY DEF IInv, TypeOK, Fresh, Cancel
<1>4. StreamContinues'
  <2>. SUFFICES ASSUME NEW d \in subs' PROVE ChannelContinues(d)'
    BY DEF StreamContinues
  <2>1. d \in Clients /\ d # c /\ d \in subs
    BY DEF Cancel, IInv, TypeOK
  <2>. QED  BY <2>1, ChannelKept DEF IInv, StreamContinues, TypeOK, Cancel
<1>. QED  BY <1>1, <1>2, <1>3, <1>4 DEF IInv

\* Steps that touch only the sockets keep what the invariant says of the feed.
LEMMA SocketInv ==
  ASSUME IInv, UNCHANGED feed, TypeOK',
         \A c \in Clients : /\ handler'[c] \in {"opening", "loop"} <=> handler[c] \in {"opening", "loop"}
                            /\ handler'[c] = "new" => handler[c] = "new"
  PROVE  IInv'
<1>1. SubsBounded' /\ Fresh'
  BY DEF IInv, SubsBounded, Fresh, feed
<1>2. StreamContinues'
  BY ChannelKept DEF IInv, StreamContinues, feed, TypeOK
<1>. QED  BY <1>1, <1>2 DEF IInv

\* Publishing keeps the invariant.
LEMMA PublishInv == IInv /\ publishRealtimeLocked => IInv'
<1>. SUFFICES ASSUME IInv, publishRealtimeLocked PROVE IInv'
  OBVIOUS
<1>1. \A c \in Clients : Queued(c, published + 1) \in Seq(Message)
  <2>. SUFFICES ASSUME NEW c \in Clients PROVE Queued(c, published + 1) \in Seq(Message)
    OBVIOUS
  <2>. DEFINE m == [kind |-> IF missed[c] THEN "resync" ELSE "delta", n |-> published + 1]
  <2>1. m \in Message /\ ch[c] \in Seq(Message)
    BY MessageElements DEF IInv, TypeOK
  <2>2. Append(ch[c], m) \in Seq(Message)
    BY <2>1, AppendElements
  <2>. QED  BY <2>1, <2>2 DEF Queued
<1>2. TypeOK'
  <2>1. ch' \in [Clients -> Seq(Message)]
    BY <1>1 DEF IInv, TypeOK, publishRealtimeLocked
  <2>2. missed' \in [Clients -> BOOLEAN]
    BY DEF IInv, TypeOK, publishRealtimeLocked
  <2>. QED  BY <2>1, <2>2 DEF IInv, TypeOK, publishRealtimeLocked, socket
<1>3. \A c \in Clients : Len(ch'[c]) <= Capacity
  <2>. SUFFICES ASSUME NEW c \in Clients PROVE Len(ch'[c]) <= Capacity
    OBVIOUS
  <2>1. /\ ch[c] \in Seq(Message) /\ Len(ch[c]) <= Capacity /\ Len(ch[c]) \in Nat
        /\ [kind |-> IF missed[c] THEN "resync" ELSE "delta", n |-> published + 1] \in Message
    BY DEF IInv, TypeOK, SubsBounded, Message
  <2>. QED  BY <2>1, RealtimeAssumption DEF publishRealtimeLocked, Queued, HasRoom
<1>4. SubsBounded'
  BY <1>3 DEF IInv, SubsBounded, publishRealtimeLocked, socket
<1>5. Fresh'
  BY DEF IInv, TypeOK, SubsBounded, Fresh, publishRealtimeLocked, socket
<1>6. StreamContinues'
  BY PublishContinues DEF IInv, TypeOK, StreamContinues, publishRealtimeLocked
<1>. QED  BY <1>2, <1>4, <1>5, <1>6 DEF IInv

\* Subscribing keeps the invariant: the channel is empty and starts at the last event.
LEMMA SubscribeInv == ASSUME IInv, NEW c \in Clients, SubscribeRealtime(c) PROVE IInv'
<1>1. TypeOK'
  BY DEF IInv, TypeOK, SubscribeRealtime
<1>2. c \notin subs /\ ch[c] = << >> /\ ~missed[c]
  BY DEF IInv, SubsBounded, Fresh, SubscribeRealtime
<1>3. SubsBounded'
  <2>1. IsFiniteSet(subs') => Cardinality(subs') <= MaxSubs
    <3>1. CASE subs' = subs
      BY <3>1 DEF IInv, SubsBounded
    <3>2. CASE subs' = subs \cup {c} /\ MayJoin
      <4>1. IsFiniteSet(subs') => IsFiniteSet(subs)
        BY <3>2, FS_Subset
      <4>2. IsFiniteSet(subs) => Cardinality(subs') = Cardinality(subs) + 1 /\ Cardinality(subs) \in Nat
        BY <3>2, <1>2, FS_AddElement, FS_CardinalityType
      <4>. QED  BY <3>2, <4>1, <4>2, RealtimeAssumption DEF MayJoin
    <3>. QED  BY <3>1, <3>2 DEF SubscribeRealtime
  <2>2. \A d \in Clients : d \in subs' <=> handler'[d] \in {"opening", "loop"}
    <3>1. CASE /\ subs' = subs \cup {c}
               /\ handler' = [handler EXCEPT ![c] = "opening"]
      BY <3>1 DEF IInv, TypeOK, SubsBounded
    <3>2. CASE subs' = subs /\ handler' = [handler EXCEPT ![c] = "rejected"]
      BY <3>2, <1>2 DEF IInv, TypeOK, SubsBounded
    <3>. QED  BY <3>1, <3>2 DEF SubscribeRealtime
  <2>3. \A d \in Clients : Len(ch'[d]) <= Capacity
    BY DEF IInv, SubsBounded, SubscribeRealtime
  <2>. QED  BY <2>1, <2>2, <2>3 DEF SubsBounded
<1>4. Fresh'
  BY DEF IInv, TypeOK, Fresh, SubscribeRealtime
<1>5. StreamContinues'
  <2>. SUFFICES ASSUME NEW d \in subs' PROVE ChannelContinues(d)'
    BY DEF StreamContinues
  <2>1. d \in Clients
    BY <1>1 DEF TypeOK
  <2>2. CASE d = c
    <3>1. ch'[c] = << >> /\ missed'[c] = FALSE /\ upto'[c] = published /\ published' = published
          /\ published \in Nat
      BY <1>2, <2>2 DEF IInv, TypeOK, SubscribeRealtime
    <3>. QED  BY <3>1, <2>2 DEF ChannelContinues, NumberBefore, Newest
  <2>3. CASE d # c
    <3>1. d \in subs /\ upto'[d] = upto[d] /\ ch' = ch /\ missed' = missed /\ published' = published
      BY <2>1, <2>3 DEF IInv, TypeOK, SubscribeRealtime
    <3>. QED  BY <3>1, <2>1, ChannelKept DEF IInv, StreamContinues
  <2>. QED  BY <2>2, <2>3
<1>. QED  BY <1>1, <1>3, <1>4, <1>5 DEF IInv

\* Forwarding keeps the invariant.
LEMMA ForwardInv == ASSUME IInv, NEW c \in Clients, Forward(c) PROVE IInv'
<1>1. CASE Cancel(c)
  BY <1>1, CancelInv DEF Forward, IInv, TypeOK
<1>2. CASE /\ upto' = [upto EXCEPT ![c] = Head(ch[c]).n]
           /\ shown' = [shown EXCEPT ![c] = Head(ch[c]).kind]
           /\ ch' = [ch EXCEPT ![c] = Tail(@)]
           /\ UNCHANGED <<published, subs, missed, handler>>
  <2>1. /\ ch[c] \in Seq(Message) /\ ch[c] # << >> /\ Head(ch[c]) \in Message
        /\ Tail(ch[c]) \in Seq(Message) /\ Len(Tail(ch[c])) <= Len(ch[c]) /\ Len(ch[c]) \in Nat
        /\ Len(Tail(ch[c])) \in Nat
    BY DEF Forward, IInv, TypeOK
  <2>2. TypeOK'
    BY <1>2, <2>1 DEF IInv, TypeOK, Forward, Message
  <2>3. SubsBounded'
    <3>1. \A d \in Clients : Len(ch'[d]) <= Capacity
      BY <1>2, <2>1, RealtimeAssumption DEF IInv, TypeOK, SubsBounded
    <3>. QED  BY <1>2, <3>1 DEF IInv, SubsBounded
  <2>4. Fresh'
    BY <1>2 DEF IInv, TypeOK, Fresh, Forward
  <2>5. StreamContinues'
    <3>. SUFFICES ASSUME NEW d \in subs PROVE ChannelContinues(d)'
      BY <1>2 DEF StreamContinues
    <3>1. d \in Clients /\ ChannelContinues(d)
      BY DEF IInv, TypeOK, StreamContinues
    <3>2. CASE d = c
      BY <1>2, <2>1, <3>1, <3>2, ForwardContinues DEF IInv, TypeOK
    <3>3. CASE d # c
      BY <1>2, <3>1, <3>3, ChannelKept DEF IInv, TypeOK
    <3>. QED  BY <3>2, <3>3
  <2>. QED  BY <2>2, <2>3, <2>4, <2>5 DEF IInv
<1>. QED  BY <1>1, <1>2 DEF Forward

\* Every step keeps the invariant.
LEMMA NextInv == IInv /\ [Next]_vars => IInv'
<1>. SUFFICES ASSUME IInv, [Next]_vars PROVE IInv'
  OBVIOUS
<1>1. CASE UNCHANGED vars
  <2>1. TypeOK' /\ UNCHANGED feed /\ handler' = handler
    BY <1>1 DEF vars, feed, socket, IInv, TypeOK
  <2>. QED  BY <2>1, SocketInv
<1>2. CASE publishRealtimeLocked
  BY <1>2, PublishInv
<1>3. ASSUME NEW c \in Clients,
             SubscribeRealtime(c) \/ Upgrade(c) \/ Handle(c) \/ Drop(c) \/ ReadFrame(c) \/ Reader(c)
      PROVE  IInv'
  <2>1. CASE SubscribeRealtime(c)
    BY <2>1, SubscribeInv
  <2>2. CASE Upgrade(c)
    <3>1. CASE Cancel(c) /\ UNCHANGED reader
      BY <2>2, <3>1, CancelInv DEF Upgrade, IInv, TypeOK
    <3>2. CASE /\ handler' = [handler EXCEPT ![c] = "loop"]
               /\ reader' = [reader EXCEPT ![c] = "reading"]
               /\ UNCHANGED feed
      <4>1. TypeOK'
        BY <2>2, <3>2 DEF Upgrade, IInv, TypeOK, feed
      <4>. QED  BY <2>2, <3>2, <4>1, SocketInv DEF Upgrade, IInv, TypeOK
    <3>. QED  BY <2>2, <3>1, <3>2 DEF Upgrade
  <2>3. CASE Forward(c)
    BY <2>3, ForwardInv
  <2>4. CASE HandleFrame(c)
    <3>1. incoming' \in [Clients -> Seq(Frames)]
      BY <2>4 DEF HandleFrame, IInv, TypeOK
    <3>2. CASE Cancel(c)
      BY <2>4, <3>1, <3>2, CancelInv DEF HandleFrame, IInv, TypeOK
    <3>3. CASE UNCHANGED <<feed, handler>>
      <4>1. TypeOK'
        BY <2>4, <3>1, <3>3 DEF HandleFrame, IInv, TypeOK, feed
      <4>. QED  BY <3>3, <4>1, SocketInv
    <3>. QED  BY <2>4, <3>2, <3>3 DEF HandleFrame
  <2>5. CASE HandleReadErr(c)
    BY <2>5, CancelInv DEF HandleReadErr, IInv, TypeOK
  <2>6. CASE Drop(c)
    BY <2>6, CancelInv DEF Drop, IInv, TypeOK
  <2>7. CASE ReadFrame(c) \/ Reader(c)
    <3>1. UNCHANGED <<feed, handler>>
      BY <2>7 DEF ReadFrame, Reader, PassFrame, ReadFails, ContextDone
    <3>2. TypeOK'
      <4>1. incoming' \in [Clients -> Seq(Frames)]
        <5>1. \A f \in Frames : [incoming EXCEPT ![c] = Append(@, f)] \in [Clients -> Seq(Frames)]
          BY AppendElements DEF IInv, TypeOK
        <5>2. \/ incoming' = incoming
              \/ \E f \in Frames : incoming' = [incoming EXCEPT ![c] = Append(@, f)]
          BY <2>7 DEF ReadFrame, Reader, PassFrame, ReadFails, ContextDone
        <5>. QED  BY <5>1, <5>2 DEF IInv, TypeOK
      <4>2. /\ reader' \in [Clients -> {"none", "reading", "holding", "gone"}]
            /\ readErr' \in [Clients -> BOOLEAN]
        BY <2>7 DEF ReadFrame, Reader, PassFrame, ReadFails, ContextDone, IInv, TypeOK
      <4>. QED  BY <3>1, <4>1, <4>2 DEF IInv, TypeOK, feed
    <3>. QED  BY <3>1, <3>2, SocketInv
  <2>. QED  BY <1>3, <2>1, <2>2, <2>3, <2>4, <2>5, <2>6, <2>7 DEF Handle
<1>. QED  BY <1>1, <1>2, <1>3 DEF Next

\* The inductive invariant holds in every reachable state.
THEOREM Invariance == Spec => []IInv
BY InitInv, NextInv, PTL DEF Spec

\* TypeOK: the variables keep their types.
THEOREM TypeCorrect == Spec => []TypeOK
<1>1. IInv => TypeOK
  BY DEF IInv
<1>. QED  BY <1>1, Invariance, PTL

\* StreamContinues: the channel of every subscriber continues what its browser
\* got, without a gap that a resync_required message does not cover.
THEOREM StreamIsContinued == Spec => []StreamContinues
<1>1. IInv => StreamContinues
  BY DEF IInv
<1>. QED  BY <1>1, Invariance, PTL

\* SubsBounded: SubscribeRealtime admits at most maxRealtimeSubscribers, every
\* handler that returns unsubscribes, and publishing never exceeds a channel.
THEOREM SubscribersBounded == Spec => []SubsBounded
<1>1. IInv => SubsBounded
  BY DEF IInv
<1>. QED  BY <1>1, Invariance, PTL

\* Every step of the store, the handlers and the readers is a step of LiveFeed or
\* leaves what a browser sees unchanged.
LEMMA StepSimulation == IInv /\ [Next]_vars => [Feed!Next]_(Feed!vars)
<1>. SUFFICES ASSUME IInv, [Next]_vars PROVE [Feed!Next]_(Feed!vars)
  OBVIOUS
<1>. USE DEF Feed!Next, Feed!vars
<1>1. CASE UNCHANGED vars
  BY <1>1 DEF vars, feed
<1>2. CASE publishRealtimeLocked
  BY <1>2 DEF publishRealtimeLocked, Feed!Publish
<1>3. ASSUME NEW c \in Clients, handler[c] \in {"opening", "loop"}, Cancel(c)
      PROVE  Feed!Leave(c)
  BY <1>3 DEF Cancel, Feed!Leave, IInv, SubsBounded
<1>4. ASSUME NEW c \in Clients, SubscribeRealtime(c)
      PROVE  Feed!Join(c) \/ UNCHANGED Feed!vars
  BY <1>4 DEF SubscribeRealtime, Feed!Join, IInv, SubsBounded
<1>5. ASSUME NEW c \in Clients, Forward(c), ~Cancel(c)
      PROVE  Feed!Delta(c) \/ Feed!Resync(c)
  <2>1. /\ c \in subs /\ ch[c] \in Seq(Message) /\ ch[c] # << >>
        /\ Head(ch[c]) = ch[c][1] /\ ch[c][1] \in Message /\ 1 \in 1..Len(ch[c])
        /\ published \in Nat /\ upto[c] \in Nat
    BY <1>5 DEF Forward, IInv, TypeOK, SubsBounded
  <2>2. /\ ch[c][1].kind = "delta" => ch[c][1].n = upto[c] + 1
        /\ ch[c][1].kind = "resync" => ch[c][1].n > upto[c]
        /\ ch[c][1].n <= published
    BY <2>1 DEF IInv, StreamContinues, ChannelContinues, NumberBefore
  <2>3. ch[c][1].kind \in {"delta", "resync"} /\ ch[c][1].n \in Nat
    BY <2>1 DEF Message
  <2>4. Feed!Tell(c, ch[c][1].kind, ch[c][1].n)
    BY <1>5, <2>1, <2>2 DEF Forward, Feed!Tell
  <2>5. CASE ch[c][1].kind = "delta"
    BY <2>2, <2>4, <2>5 DEF Feed!Delta
  <2>6. CASE ch[c][1].kind = "resync"
    <3>1. ch[c][1].n \in (upto[c] + 1)..published
      BY <2>1, <2>2, <2>3, <2>6
    <3>. QED  BY <2>4, <2>6, <3>1 DEF Feed!Resync
  <2>. QED  BY <2>3, <2>5, <2>6
<1>6. ASSUME NEW c \in Clients, Upgrade(c) \/ Handle(c) \/ Drop(c) \/ ReadFrame(c) \/ Reader(c)
      PROVE  [Feed!Next]_(Feed!vars)
  <2>1. CASE Cancel(c) /\ handler[c] \in {"opening", "loop"}
    BY <2>1, <1>3
  <2>2. CASE Forward(c) /\ ~Cancel(c)
    BY <2>2, <1>5
  <2>3. CASE ~Forward(c) /\ ~Cancel(c)
    BY <1>6, <2>3 DEF Upgrade, Handle, HandleFrame, HandleReadErr, Drop, ReadFrame, Reader,
       PassFrame, ReadFails, ContextDone, feed
  <2>4. CASE Cancel(c) /\ handler[c] \notin {"opening", "loop"}
    BY <1>6, <2>4 DEF Upgrade, Handle, Forward, HandleFrame, HandleReadErr, Drop, ReadFrame,
       Reader, PassFrame, ReadFails, ContextDone, feed
  <2>. QED  BY <2>1, <2>2, <2>3, <2>4
<1>. QED  BY <1>1, <1>2, <1>4, <1>6 DEF Next

\* ImplementsLiveFeed: a browser sees every event in order, but for the gaps that
\* a resync_required message covers.
THEOREM LiveStreamImplements == Spec => ImplementsLiveFeed
<1>1. Init => Feed!Init
  BY DEF Init, Feed!Init
<1>. QED  BY <1>1, StepSimulation, Invariance, PTL DEF Spec, ImplementsLiveFeed, Feed!Spec
=============================================================================
