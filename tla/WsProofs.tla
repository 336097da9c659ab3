------------------------------ MODULE WsProofs ------------------------------
(***************************************************************************)
(* Theorems about WsConnection, for every number of subscriptions and any  *)
(* size of the send queue, and about LumioSocket: the browser implements   *)
(* the client of WsConnection, and the two ends agree.                     *)
(***************************************************************************)
EXTENDS LumioSocket, FiniteSetTheorems, TLAPS

-----------------------------------------------------------------------------
(***************************************************************************)
(* Types.                                                                  *)
(***************************************************************************)
LEMMA QueueTypes ==
  ASSUME NEW S, NEW q \in Seq(S)
  PROVE  /\ q # <<>> => Head(q) \in S /\ Tail(q) \in Seq(S)
         /\ \A e \in S : Append(q, e) \in Seq(S)
         /\ <<>> \in Seq(S)
OBVIOUS

LEMMA FrameTypesOK ==
  /\ Hello \in Frames /\ Ping \in Frames
  /\ \A i \in Id, type \in FrameTypes, n \in Nat : Frame(type, i, n) \in Frames
BY DEF Hello, Ping, Frame, Frames, FrameTypes

LEMMA PlaceTypesOK ==
  /\ \A place \in {"read", "input", "ended"} : At(place) \in Places /\ At(place).at = place
  /\ \A s \in Sub : LET p == [At("start") EXCEPT !.sub = s]
                     IN  p \in Places /\ p.at = "start" /\ p.sub = s
  /\ \A f \in Frames : Answer(f) \in Places /\ Answer(f).at = "reply" /\ Answer(f).out = f
BY DEF Hello, Frame, Frames, FrameTypes, At, Answer, Places

\* A write to a shell occupies the reader and nothing else.
LEMMA InputFacts ==
  ASSUME Input
  PROVE  /\ reader.at \in {"read", "input"}
         /\ reader' \in Places /\ reader'.at \in {"read", "input"}
         /\ UNCHANGED <<conn, inbox, send, table, run, stopped, seq, pinger, missed, peer, asked>>
BY PlaceTypesOK DEF Input, ReadInput, InputDone, chans

LEMMA AnswerType ==
  \A i \in Id, type \in {"error", "closed"} :
    Answer(Frame(type, i, 0)) \in Places /\ Answer(Frame(type, i, 0)).at = "reply"
BY FrameTypesOK, PlaceTypesOK DEF FrameTypes

LEMMA RequestTypesOK ==
  /\ Pong \in Requests
  /\ \A s \in Sub : Subscribe(s) \in Requests /\ Unsubscribe(s) \in Requests
  /\ \A r \in Requests : r.type \in {"subscribe", "unsubscribe"} => r.sub \in Sub
BY DEF Pong, Subscribe, Unsubscribe, Requests

LEMMA EnqueueType ==
  ASSUME send \in Seq(Frames), NEW f \in Frames, Enqueue(f)
  PROVE  send' \in Seq(Frames)
BY DEF Enqueue

LEMMA IdOfType == ASSUME NEW s \in Sub PROVE IdOf[s] \in Id
BY ConnectionAssumption DEF ConnectionAssumption

\* What is being started is a subscription.
Starting == reader.at = "start" => reader.sub \in Sub

TypeInv == TypeOK /\ Starting

LEMMA InitType == Init => TypeInv
<1>1. At("ended") \in Places /\ At("ended").at = "ended"
  BY PlaceTypesOK
<1>2. QED
  BY <1>1, ConnectionAssumption DEF ConnectionAssumption, Init, TypeInv, TypeOK, Starting

LEMMA TakesType ==
  ASSUME TypeInv, NEW type, Takes(type)
  PROVE  /\ Head(inbox) \in Requests /\ inbox' \in Seq(Requests) /\ reader.at = "read"
         /\ type \in {"subscribe", "unsubscribe"} => Head(inbox).sub \in Sub
<1>1. inbox \in Seq(Requests) /\ inbox # <<>>
  BY DEF TypeInv, TypeOK, Takes
<1>2. Head(inbox) \in Requests /\ inbox' \in Seq(Requests)
  BY <1>1, QueueTypes DEF Takes
<1>3. QED
  BY <1>2, RequestTypesOK DEF Takes

LEMMA ReaderType == TypeInv /\ Reader => TypeInv'
<1> SUFFICES ASSUME TypeInv, Reader PROVE TypeInv'
  OBVIOUS
<1> USE DEF TypeInv, TypeOK, Starting
<1>3. CASE ReadPong
  <2>1. inbox' \in Seq(Requests)
    BY <1>3, TakesType DEF ReadPong
  <2>2. QED
    BY <1>3, <2>1 DEF ReadPong, chans
<1>4. CASE ReadSubscribe
  <2> DEFINE s == Head(inbox).sub
  <2>1. inbox' \in Seq(Requests) /\ s \in Sub /\ IdOf[s] \in Id
    BY <1>4, TakesType, IdOfType DEF ReadSubscribe
  <2> HIDE DEF s
  <2>2. CASE table[IdOf[s]] = NoSub
    <3>1. reader' = [At("start") EXCEPT !.sub = s] /\ table' = [table EXCEPT ![IdOf[s]] = s]
      BY <1>4, <2>2 DEF ReadSubscribe, s
    <3>2. reader' \in Places /\ reader'.sub \in Sub
      BY <2>1, <3>1, PlaceTypesOK
    <3>3. table' \in [Id -> Sub \cup {NoSub}]
      BY <2>1, <3>1
    <3>4. QED
      BY <1>4, <2>1, <3>2, <3>3 DEF ReadSubscribe
  <2>3. CASE table[IdOf[s]] # NoSub
    <3>1. reader' = Answer(Frame("error", IdOf[s], 0)) /\ UNCHANGED table
      BY <1>4, <2>3 DEF ReadSubscribe, s
    <3>2. reader' \in Places /\ reader'.at = "reply"
      BY <2>1, <3>1, AnswerType
    <3>3. QED
      BY <1>4, <2>1, <3>1, <3>2 DEF ReadSubscribe
  <2>4. QED
    BY <2>2, <2>3
<1>5. CASE ReadUnsubscribe
  <2> DEFINE i == IdOf[Head(inbox).sub]
  <2>1. inbox' \in Seq(Requests) /\ i \in Id
    BY <1>5, TakesType, IdOfType DEF ReadUnsubscribe
  <2> HIDE DEF i
  <2>2. reader' \in {Answer(Frame("error", i, 0)), Answer(Frame("closed", i, 0))}
    BY <1>5 DEF ReadUnsubscribe, i
  <2>3. reader' \in Places /\ reader'.at = "reply"
    BY <2>1, <2>2, AnswerType
  <2>4. table' \in [Id -> Sub \cup {NoSub}] /\ stopped' \subseteq Sub
    <3>1. \/ UNCHANGED <<table, stopped>>
          \/ /\ table[i] # NoSub
             /\ table' = [table EXCEPT ![i] = NoSub] /\ stopped' = stopped \cup {table[i]}
      BY <1>5 DEF ReadUnsubscribe, i
    <3>2. QED
      BY <2>1, <3>1
  <2>5. QED
    BY <1>5, <2>1, <2>3, <2>4 DEF ReadUnsubscribe
<1>6. CASE StartChannel
  <2>1. Frame("subscribed", IdOf[reader.sub], 0) \in Frames
    BY <1>6, IdOfType, FrameTypesOK DEF StartChannel, FrameTypes
  <2>2. send' \in Seq(Frames)
    BY <1>6, <2>1, EnqueueType DEF StartChannel
  <2>3. reader' \in Places /\ reader'.at = "read"
    BY <1>6, PlaceTypesOK DEF StartChannel
  <2>4. QED
    BY <1>6, <2>2, <2>3 DEF StartChannel
<1>7. CASE StartFails
  <2>1. IdOf[reader.sub] \in Id /\ reader.sub \in Sub
    BY <1>7, IdOfType DEF StartFails
  <2>2. reader' \in Places /\ reader'.at = "reply"
    BY <1>7, <2>1, AnswerType DEF StartFails
  <2>3. QED
    BY <1>7, <2>1, <2>2 DEF StartFails
<1>8. CASE Reply
  <2>1. reader.out \in Frames
    BY DEF Places
  <2>2. send' \in Seq(Frames)
    BY <1>8, <2>1, EnqueueType DEF Reply
  <2>3. reader' \in Places /\ reader'.at = "read"
    BY <1>8, PlaceTypesOK DEF Reply
  <2>4. QED
    BY <1>8, <2>2, <2>3 DEF Reply, chans
<1>9. CASE ReadEnds
  <2>1. reader' \in Places /\ reader'.at = "ended"
    BY <1>9, PlaceTypesOK DEF ReadEnds
  <2>2. QED
    BY <1>9, <2>1 DEF ReadEnds, Close, chans
<1>10. QED
  BY <1>3, <1>4, <1>5, <1>6, <1>7, <1>8, <1>9 DEF Reader

LEMMA ServeType ==
  ASSUME TypeInv, NEW s \in Sub, Serve(s)
  PROVE  TypeInv'
<1> USE DEF TypeInv, TypeOK, Starting, loops
<1>1. IdOf[s] \in Id /\ seq[s] \in Nat /\ seq[s] + 1 \in Nat
  BY IdOfType
<1>2. CASE Emit(s)
  <2>1. Event(s) \in Frames
    BY <1>1, FrameTypesOK DEF Event, FrameTypes
  <2>2. send' \in Seq(Frames)
    BY <1>2, <2>1, QueueTypes DEF Emit
  <2>3. seq' \in [Sub -> Nat]
    BY <1>1, <1>2 DEF Emit
  <2>4. QED
    BY <1>2, <2>2, <2>3 DEF Emit
<1>3. CASE Leave(s)
  BY <1>3 DEF Leave, GoRun
<1>4. CASE SourceEnds(s)
  BY <1>4 DEF SourceEnds, GoRun
<1>5. CASE CloseChannel(s)
  <2>1. Frame("closed", IdOf[s], 0) \in Frames
    BY <1>1, FrameTypesOK DEF FrameTypes
  <2>2. send' \in Seq(Frames)
    BY <1>5, <2>1, EnqueueType DEF CloseChannel
  <2>3. QED
    BY <1>5, <2>2 DEF CloseChannel, GoRun
<1>6. CASE RemoveChannel(s)
  BY <1>1, <1>6 DEF RemoveChannel, GoRun
<1>7. QED
  BY <1>2, <1>3, <1>4, <1>5, <1>6 DEF Serve

LEMMA ClientType == TypeInv /\ Client => TypeInv'
<1> SUFFICES ASSUME TypeInv, Client PROVE TypeInv'
  OBVIOUS
<1> USE DEF TypeInv, TypeOK, Starting
<1>1. CASE Connect
  <2>1. \A k \in DOMAIN inbox' : \E s \in Sub : inbox'[k] = Subscribe(s)
    <3>1. inbox' \in Seq({Subscribe(s) : s \in Sub})
      BY <1>1 DEF Connect
    <3>2. \A k \in DOMAIN inbox' : inbox'[k] \in {Subscribe(s) : s \in Sub}
      BY <3>1
    <3>3. QED
      BY <3>2
  <2>2. inbox' \in Seq(Requests)
    <3>1. inbox' \in Seq({Subscribe(s) : s \in Sub})
      BY <1>1 DEF Connect
    <3>2. \A k \in DOMAIN inbox' : inbox'[k] \in Requests
      BY <2>1, RequestTypesOK
    <3>3. QED
      BY <3>1, <3>2
  <2>3. asked' \subseteq Sub
    <3>1. \A k \in DOMAIN inbox' : inbox'[k].sub \in Sub
      BY <2>1 DEF Subscribe
    <3>2. QED
      BY <1>1, <3>1 DEF Connect
  <2>4. send' \in Seq(Frames)
    <3>1. send' = <<Hello>> /\ Hello \in Frames
      BY <1>1, FrameTypesOK DEF Connect, Accept
    <3>2. QED
      BY ONLY <3>1
  <2>5. reader' \in Places /\ reader'.at = "read"
    BY <1>1, PlaceTypesOK DEF Connect, Accept
  <2>6. QED
    BY <1>1, <2>2, <2>3, <2>4, <2>5 DEF Connect, Accept
<1>2. CASE HangUp \/ GoSilent
  BY <1>2 DEF HangUp, GoSilent, chans, loops
<1>3. CASE Receive
  <2>1. send' \in Seq(Frames)
    BY <1>3, QueueTypes DEF Receive
  <2>2. inbox' \in Seq(Requests)
    <3>1. inbox' \in {inbox, Append(inbox, Pong)}
      BY <1>3 DEF Receive
    <3>2. Append(inbox, Pong) \in Seq(Requests)
      BY QueueTypes, RequestTypesOK
    <3>3. QED
      BY <3>1, <3>2
  <2>3. QED
    BY <1>3, <2>1, <2>2 DEF Receive, chans, loops
<1>4. ASSUME NEW s \in Sub, AskFor(s) PROVE TypeInv'
  <2>1. inbox' \in Seq(Requests)
    BY <1>4, QueueTypes, RequestTypesOK DEF AskFor
  <2>2. QED
    BY <1>4, <2>1 DEF AskFor, chans, loops
<1>5. ASSUME NEW s \in Sub, GiveUp(s) PROVE TypeInv'
  <2>1. inbox' \in Seq(Requests)
    BY <1>5, QueueTypes, RequestTypesOK DEF GiveUp
  <2>2. QED
    BY <1>5, <2>1 DEF GiveUp, chans, loops
<1>6. QED
  BY <1>1, <1>2, <1>3, <1>4, <1>5 DEF Client

LEMMA StepType == TypeInv /\ [Next]_vars => TypeInv'
<1> SUFFICES ASSUME TypeInv, [Next]_vars PROVE TypeInv'
  OBVIOUS
<1>1. CASE Pinger \/ WriteFails
  <2> USE DEF TypeInv, TypeOK, Starting
  <2>1. CASE Tick
    <3>1. /\ conn' \in {conn, "done"} /\ send' \in {send, <<>>} /\ inbox' \in {inbox, <<>>}
          /\ pinger' \in {pinger, "send"} /\ missed' \in {missed, missed + 1}
          /\ UNCHANGED <<table, run, stopped, seq, reader, peer, asked>>
      BY <2>1 DEF Tick, Close, chans
    <3>2. send' \in Seq(Frames) /\ inbox' \in Seq(Requests)
      BY <3>1, QueueTypes
    <3>3. QED
      BY <3>1, <3>2
  <2>2. CASE SendPing
    BY <2>2, EnqueueType, FrameTypesOK DEF SendPing, chans
  <2>3. CASE PingEnds
    BY <2>3 DEF PingEnds, chans
  <2>4. CASE WriteFails
    BY <2>4 DEF WriteFails, Close, chans, loops
  <2>5. QED
    BY <1>1, <2>1, <2>2, <2>3, <2>4 DEF Pinger
<1>2. CASE UNCHANGED vars
  BY <1>2 DEF vars, chans, loops, TypeInv, TypeOK, Starting
<1>3. CASE Input
  BY <1>3, InputFacts DEF TypeInv, TypeOK, Starting
<1>4. QED
  BY <1>1, <1>2, <1>3, ReaderType, ServeType, ClientType DEF Next, Server

LEMMA TypeInvariant == Spec => []TypeInv
BY InitType, StepType, PTL DEF Spec

\* Every reachable state of a connection is well-typed, whatever the client asks for in
\* whatever order, and whoever closes it.
THEOREM TypeCorrect == Spec => []TypeOK
<1>1. TypeInv => TypeOK
  BY DEF TypeInv
<1>2. QED
  BY <1>1, TypeInvariant, PTL

-----------------------------------------------------------------------------
(***************************************************************************)
(* The channels.  A client names a subscription once per connection, so a  *)
(* channel is started once, and with ids of their own no channel takes the *)
(* entry of another out of the table.                                      *)
(***************************************************************************)
New(s) == run[s] = "none" /\ s \notin stopped /\ table[IdOf[s]] # s
StartsNow(s) == reader.at = "start" /\ reader.sub = s

\* The subscriptions asked for in frames that are not read yet.
Waits == {s \in Sub : \E k \in DOMAIN inbox : inbox[k].type = "subscribe" /\ inbox[k].sub = s}

\* No subscription is asked for by two frames on their way.
Once == \A j, k \in DOMAIN inbox :
          inbox[j].type = "subscribe" /\ inbox[k].type = "subscribe" /\ inbox[j].sub = inbox[k].sub
            => j = k

AskedOnce ==
  \A s \in Sub : s \notin asked \/ s \in Waits => New(s) /\ ~StartsNow(s)

WaitsAsked == Waits \subseteq asked

StartedOnce ==
  reader.at = "start" =>
    LET s == reader.sub IN run[s] = "none" /\ s \notin stopped /\ table[IdOf[s]] = s

TableOwn == \A i \in Id : table[i] # NoSub => IdOf[table[i]] = i

Exact(s) ==
  /\ run[s] \in {"run", "close", "remove"} /\ s \notin stopped => table[IdOf[s]] = s
  /\ table[IdOf[s]] = s => s \notin stopped
  /\ table[IdOf[s]] = s /\ run[s] = "ended" => conn = "done"

Channels == Once /\ AskedOnce /\ WaitsAsked /\ StartedOnce /\ TableOwn /\ \A s \in Sub : Exact(s)

LEMMA InitChannels == Init => Channels
<1> SUFFICES ASSUME Init PROVE Channels
  OBVIOUS
<1>1. inbox = <<>> /\ Waits = {}
  BY DEF Init, Waits
<1>2. At("ended").at = "ended"
  BY DEF At
<1>3. \A s \in Sub : table[IdOf[s]] = NoSub /\ NoSub # s
  BY IdOfType, ConnectionAssumption DEF ConnectionAssumption, Init
<1>4. QED
  BY <1>1, <1>2, <1>3
  DEF Init, Channels, Once, AskedOnce, WaitsAsked, StartedOnce, TableOwn, Exact, New, StartsNow

LEMMA TakesOnce ==
  ASSUME TypeInv, Once, NEW type, Takes(type)
  PROVE  /\ Once' /\ Waits' \subseteq Waits
         /\ type = "subscribe" => Head(inbox).sub \in Waits /\ Head(inbox).sub \notin Waits'
<1>1. inbox \in Seq(Requests) /\ inbox # <<>> /\ inbox' = Tail(inbox) /\ Head(inbox).type = type
  BY DEF TypeInv, TypeOK, Takes
<1>2. \A k \in DOMAIN inbox' : k + 1 \in DOMAIN inbox /\ k + 1 # 1 /\ inbox'[k] = inbox[k + 1]
  BY <1>1
<1>3. 1 \in DOMAIN inbox /\ Head(inbox) = inbox[1]
  BY <1>1
<1>4. \A k \in DOMAIN inbox' : k \in Nat
  BY <1>1
<1>5. Once'
  BY <1>2, <1>4 DEF Once
<1>6. Waits' \subseteq Waits
  BY <1>2 DEF Waits
<1>7. ASSUME type = "subscribe"
      PROVE  Head(inbox).sub \in Waits /\ Head(inbox).sub \notin Waits'
  <2>1. Head(inbox).sub \in Sub
    BY <1>7, TakesType
  <2>2. Head(inbox).sub \in Waits
    BY <1>1, <1>3, <1>7, <2>1 DEF Waits
  <2>3. \A k \in DOMAIN inbox' : inbox'[k].type = "subscribe" => inbox'[k].sub # Head(inbox).sub
    BY <1>1, <1>2, <1>3, <1>7 DEF Once
  <2>4. QED
    BY <2>2, <2>3 DEF Waits
<1>8. QED
  BY <1>5, <1>6, <1>7

LEMMA CloseOnce == Close => Once' /\ Waits' = {}
BY DEF Close, Once, Waits

\* A frame that asks for nothing new.
LEMMA AppendOnce ==
  ASSUME TypeInv, Once, NEW r \in Requests, inbox' = Append(inbox, r)
  PROVE  /\ r.type # "subscribe" => Once' /\ Waits' = Waits
         /\ r.type = "subscribe" /\ r.sub \notin Waits => Once' /\ Waits' = Waits \cup {r.sub}
<1>1. inbox \in Seq(Requests)
  BY DEF TypeInv, TypeOK
<1>2. /\ DOMAIN inbox' = DOMAIN inbox \cup {Len(inbox) + 1} /\ Len(inbox) + 1 \notin DOMAIN inbox
      /\ inbox'[Len(inbox) + 1] = r
      /\ \A k \in DOMAIN inbox : inbox'[k] = inbox[k]
  BY <1>1
<1> DEFINE n == Len(inbox) + 1
<1> HIDE DEF n
<1>3. /\ DOMAIN inbox' = DOMAIN inbox \cup {n} /\ n \notin DOMAIN inbox
      /\ inbox'[n] = r
      /\ \A k \in DOMAIN inbox : inbox'[k] = inbox[k]
  BY <1>2 DEF n
<1>4. ASSUME r.type # "subscribe"
      PROVE  Once' /\ Waits' = Waits
  BY <1>3, <1>4 DEF Once, Waits
<1>5. ASSUME r.type = "subscribe", r.sub \notin Waits
      PROVE  Once' /\ Waits' = Waits \cup {r.sub}
  <2>1. r.sub \in Sub
    BY <1>5, RequestTypesOK
  <2>2. \A k \in DOMAIN inbox : inbox[k].type = "subscribe" => inbox[k].sub # r.sub
    BY <1>5, <2>1 DEF Waits
  <2>3. QED
    BY <1>3, <1>5, <2>1, <2>2 DEF Once, Waits
<1>6. QED
  BY <1>4, <1>5

LEMMA ReaderChannels == FreshIds /\ TypeInv /\ Channels /\ Reader => Channels'
<1> SUFFICES ASSUME FreshIds, TypeInv, Channels, Reader PROVE Channels'
  OBVIOUS
<1>0. /\ table \in [Id -> Sub \cup {NoSub}] /\ NoSub \notin Sub /\ stopped \subseteq Sub
      /\ \A s \in Sub : IdOf[s] \in Id
      /\ \A s, t \in Sub : IdOf[s] = IdOf[t] => s = t
      /\ reader.at = "start" => reader.sub \in Sub
      /\ run \in [Sub -> {"none", "run", "close", "remove", "ended"}]
  BY IdOfType, ConnectionAssumption DEF ConnectionAssumption, TypeInv, TypeOK, FreshIds, Starting
<1>1. Once /\ AskedOnce /\ WaitsAsked /\ StartedOnce /\ TableOwn /\ \A s \in Sub : Exact(s)
  BY DEF Channels
<1>2. \A f \in Frames : Answer(f).at = "reply"
  BY PlaceTypesOK
<1>3. \A place \in {"read", "ended"} : At(place).at = place
  BY PlaceTypesOK
<1>4. CASE ReadPong
  <2>1. Once' /\ Waits' \subseteq Waits
    BY <1>1, <1>4, TakesOnce DEF ReadPong
  <2>2. QED
    BY <1>1, <1>4, <2>1
    DEF ReadPong, chans, Channels, AskedOnce, WaitsAsked, StartedOnce, TableOwn, Exact, New, StartsNow
<1>5. CASE ReadSubscribe
  <2> DEFINE s == Head(inbox).sub
  <2>1. Once' /\ Waits' \subseteq Waits /\ s \in Waits /\ s \notin Waits' /\ s \in Sub
    BY <1>1, <1>5, TakesOnce, TakesType DEF ReadSubscribe
  <2> HIDE DEF s
  <2>2. s \in asked /\ New(s)
    BY <1>1, <2>1 DEF AskedOnce, WaitsAsked
  <2>3. UNCHANGED <<conn, run, stopped, asked>>
    BY <1>5 DEF ReadSubscribe
  <2>4. CASE table[IdOf[s]] = NoSub
    <3>0. table' = [table EXCEPT ![IdOf[s]] = s] /\ reader' = [At("start") EXCEPT !.sub = s]
      BY <1>5, <2>4 DEF ReadSubscribe, s
    <3>1. table' = [table EXCEPT ![IdOf[s]] = s] /\ reader'.at = "start" /\ reader'.sub = s
      BY <2>1, <3>0, PlaceTypesOK
    <3>2. AskedOnce' /\ WaitsAsked'
      BY <1>0, <1>1, <2>1, <2>2, <2>3, <3>1 DEF AskedOnce, WaitsAsked, New, StartsNow
    <3>3. StartedOnce' /\ TableOwn'
      BY <1>0, <1>1, <2>1, <2>2, <2>3, <3>1 DEF StartedOnce, TableOwn, New
    <3>4. \A t \in Sub : Exact(t)'
      BY <1>0, <1>1, <2>1, <2>2, <2>3, <2>4, <3>1 DEF Exact, New
    <3>5. QED
      BY <2>1, <3>2, <3>3, <3>4 DEF Channels
  <2>5. CASE table[IdOf[s]] # NoSub
    <3>1. UNCHANGED table /\ reader'.at = "reply"
      BY <1>0, <1>5, <2>1, <2>5, AnswerType DEF ReadSubscribe, s
    <3>2. QED
      BY <1>1, <2>1, <2>3, <3>1
      DEF Channels, AskedOnce, WaitsAsked, StartedOnce, TableOwn, Exact, New, StartsNow
  <2>6. QED
    BY <2>4, <2>5
<1>6. CASE ReadUnsubscribe
  <2> DEFINE i == IdOf[Head(inbox).sub]
  <2>1. Once' /\ Waits' \subseteq Waits /\ i \in Id
    BY <1>0, <1>1, <1>6, TakesOnce, TakesType DEF ReadUnsubscribe
  <2>2. \/ UNCHANGED <<table, stopped>>
        \/ /\ table[i] # NoSub
           /\ table' = [table EXCEPT ![i] = NoSub] /\ stopped' = stopped \cup {table[i]}
    BY <1>6 DEF ReadUnsubscribe
  <2>3. reader' \in {Answer(Frame("error", i, 0)), Answer(Frame("closed", i, 0))}
    BY <1>6 DEF ReadUnsubscribe
  <2> HIDE DEF i
  <2>4. reader'.at = "reply"
    BY <2>1, <2>3, AnswerType
  <2>5. UNCHANGED <<conn, run, asked>>
    BY <1>6 DEF ReadUnsubscribe
  <2>6. CASE UNCHANGED <<table, stopped>>
    BY <1>1, <2>1, <2>4, <2>5, <2>6
    DEF Channels, AskedOnce, WaitsAsked, StartedOnce, TableOwn, Exact, New, StartsNow
  <2>7. ASSUME table[i] # NoSub,
               table' = [table EXCEPT ![i] = NoSub], stopped' = stopped \cup {table[i]}
        PROVE  Channels'
    <3>1. table[i] \in Sub /\ IdOf[table[i]] = i
      BY <1>0, <1>1, <2>1, <2>7 DEF TableOwn
    <3>2. \A s \in Sub : New(s) => New(s)'
      BY <1>0, <2>1, <2>5, <2>7, <3>1 DEF New
    <3>3. AskedOnce' /\ WaitsAsked' /\ StartedOnce'
      BY <1>1, <2>1, <2>4, <2>5, <3>2 DEF AskedOnce, WaitsAsked, StartedOnce, StartsNow
    <3>4. TableOwn'
      BY <1>0, <1>1, <2>1, <2>7 DEF TableOwn
    <3>5. \A s \in Sub : Exact(s)'
      BY <1>0, <1>1, <2>1, <2>5, <2>7, <3>1 DEF Exact
    <3>6. QED
      BY <2>1, <3>3, <3>4, <3>5 DEF Channels
  <2>8. QED
    BY <2>2, <2>6, <2>7
<1>7. CASE StartChannel
  <2> DEFINE s == reader.sub
  <2>1. s \in Sub /\ run[s] = "none" /\ s \notin stopped /\ table[IdOf[s]] = s
    BY <1>0, <1>1, <1>7 DEF StartChannel, StartedOnce
  <2>2. run' = [run EXCEPT ![s] = "run"] /\ reader'.at = "read"
    BY <1>3, <1>7 DEF StartChannel
  <2>3. UNCHANGED <<conn, inbox, table, stopped, asked>>
    BY <1>7 DEF StartChannel
  <2> HIDE DEF s
  <2>4. Once' /\ WaitsAsked' /\ StartedOnce' /\ TableOwn' /\ Waits' = Waits
    BY <1>1, <2>2, <2>3 DEF Once, WaitsAsked, Waits, StartedOnce, TableOwn
  <2>5. AskedOnce'
    BY <1>0, <1>1, <2>1, <2>2, <2>3, <2>4 DEF AskedOnce, New, StartsNow
  <2>6. \A t \in Sub : Exact(t)'
    BY <1>0, <1>1, <2>1, <2>2, <2>3 DEF Exact
  <2>7. QED
    BY <2>4, <2>5, <2>6 DEF Channels
<1>8. CASE StartFails
  <2> DEFINE s == reader.sub
  <2>1. s \in Sub /\ run[s] = "none" /\ IdOf[s] \in Id /\ StartsNow(s) /\ table[IdOf[s]] = s
    BY <1>0, <1>1, <1>8 DEF StartFails, StartedOnce, StartsNow
  <2>2. table' = [table EXCEPT ![IdOf[s]] = NoSub] /\ stopped' = stopped \cup {s}
    BY <1>8 DEF StartFails
  <2>3. reader'.at = "reply"
    BY <1>8, <2>1, AnswerType DEF StartFails
  <2>4. UNCHANGED <<conn, inbox, run, asked>>
    BY <1>8 DEF StartFails
  <2> HIDE DEF s
  <2>5. Once' /\ WaitsAsked' /\ StartedOnce' /\ Waits' = Waits
    BY <1>1, <2>3, <2>4 DEF Once, WaitsAsked, Waits, StartedOnce
  <2>6. AskedOnce'
    <3>1. \A t \in Sub : t # s /\ New(t) => New(t)'
      BY <1>0, <2>1, <2>2, <2>4 DEF New
    <3>2. QED
      BY <1>1, <2>1, <2>3, <2>4, <2>5, <3>1 DEF AskedOnce, StartsNow
  <2>7. TableOwn'
    BY <1>0, <1>1, <2>1, <2>2 DEF TableOwn
  <2>8. \A t \in Sub : Exact(t)'
    BY <1>0, <1>1, <2>1, <2>2, <2>4 DEF Exact
  <2>9. QED
    BY <2>5, <2>6, <2>7, <2>8 DEF Channels
<1>9. CASE Reply
  BY <1>1, <1>3, <1>9
  DEF Reply, chans, Channels, Once, AskedOnce, WaitsAsked, Waits, StartedOnce, TableOwn, Exact, New, StartsNow
<1>10. CASE ReadEnds
  <2>1. Once' /\ Waits' = {} /\ conn' = "done" /\ reader'.at = "ended"
    BY <1>3, <1>10, CloseOnce DEF ReadEnds, Close
  <2>2. QED
    BY <1>1, <1>10, <2>1
    DEF ReadEnds, chans, Channels, AskedOnce, WaitsAsked, StartedOnce, TableOwn, Exact, New, StartsNow
<1>11. QED
  BY <1>4, <1>5, <1>6, <1>7, <1>8, <1>9, <1>10 DEF Reader

LEMMA ServeChannels ==
  ASSUME FreshIds, TypeInv, Channels, NEW s \in Sub, Serve(s)
  PROVE  Channels'
<1>0. /\ table \in [Id -> Sub \cup {NoSub}] /\ NoSub \notin Sub /\ stopped \subseteq Sub
      /\ \A t \in Sub : IdOf[t] \in Id
      /\ \A t, u \in Sub : IdOf[t] = IdOf[u] => t = u
      /\ reader.at = "start" => reader.sub \in Sub
      /\ run \in [Sub -> {"none", "run", "close", "remove", "ended"}]
  BY IdOfType, ConnectionAssumption DEF ConnectionAssumption, TypeInv, TypeOK, FreshIds, Starting
<1>1. Once /\ AskedOnce /\ WaitsAsked /\ StartedOnce /\ TableOwn /\ \A t \in Sub : Exact(t)
  BY DEF Channels
<1>2. UNCHANGED <<conn, inbox, reader, asked>>
  BY DEF Serve, Emit, Leave, SourceEnds, CloseChannel, RemoveChannel, loops
<1>3. Once' /\ WaitsAsked' /\ Waits' = Waits /\ \A t \in Sub : StartsNow(t)' = StartsNow(t)
  BY <1>1, <1>2 DEF Once, WaitsAsked, Waits, StartsNow
<1>4. run[s] # "none"
  BY DEF Serve, Emit, Leave, SourceEnds, CloseChannel, RemoveChannel
<1>5. CASE UNCHANGED <<table, stopped>>
  <2>1. \/ run' = run
        \/ run[s] = "run" /\ run' = [run EXCEPT ![s] = "close"]
        \/ run[s] = "close" /\ run' = [run EXCEPT ![s] = "remove"]
        \/ (s \in stopped \/ conn = "done") /\ run[s] = "run" /\ run' = [run EXCEPT ![s] = "ended"]
        \/ RemoveChannel(s)
    BY DEF Serve, Emit, Leave, SourceEnds, CloseChannel, GoRun
  <2>2. CASE RemoveChannel(s)
    <3>1. table[IdOf[s]] # s /\ s \in stopped /\ run' = [run EXCEPT ![s] = "ended"]
      BY <1>0, <1>5, <2>2 DEF RemoveChannel, GoRun
    <3>2. AskedOnce' /\ StartedOnce' /\ TableOwn'
      BY <1>0, <1>1, <1>2, <1>3, <1>4, <1>5, <3>1 DEF AskedOnce, StartedOnce, TableOwn, New
    <3>3. \A t \in Sub : Exact(t)'
      BY <1>0, <1>1, <1>2, <1>5, <3>1 DEF Exact
    <3>4. QED
      BY <1>3, <3>2, <3>3 DEF Channels
  <2>3. CASE ~RemoveChannel(s)
    <3>1. AskedOnce' /\ StartedOnce' /\ TableOwn'
      BY <1>0, <1>1, <1>2, <1>3, <1>4, <1>5, <2>1, <2>3 DEF AskedOnce, StartedOnce, TableOwn, New
    <3>2. \A t \in Sub : Exact(t)'
      BY <1>0, <1>1, <1>2, <1>5, <2>1, <2>3 DEF Exact
    <3>3. QED
      BY <1>3, <3>1, <3>2 DEF Channels
  <2>4. QED
    BY <2>2, <2>3
<1>6. CASE RemoveChannel(s)
  <2>1. /\ run[s] = "remove" /\ run' = [run EXCEPT ![s] = "ended"]
        /\ table' = [table EXCEPT ![IdOf[s]] = NoSub] /\ stopped' = stopped \cup {s}
    BY <1>6 DEF RemoveChannel, GoRun
  <2>2. \A t \in Sub : New(t) => New(t)'
    BY <1>0, <2>1 DEF New
  <2>3. AskedOnce'
    BY <1>1, <1>2, <1>3, <2>2 DEF AskedOnce
  <2>4. StartedOnce' /\ TableOwn'
    BY <1>0, <1>1, <1>2, <2>1 DEF StartedOnce, TableOwn
  <2>5. \A t \in Sub : Exact(t)'
    BY <1>0, <1>1, <1>2, <2>1 DEF Exact
  <2>6. QED
    BY <1>3, <2>3, <2>4, <2>5 DEF Channels
<1>7. QED
  BY <1>5, <1>6 DEF Serve, Emit, Leave, SourceEnds, CloseChannel

LEMMA ClientChannels == FreshIds /\ TypeInv /\ Channels /\ Client => Channels'
<1> SUFFICES ASSUME FreshIds, TypeInv, Channels, Client PROVE Channels'
  OBVIOUS
<1>1. Once /\ AskedOnce /\ WaitsAsked /\ StartedOnce /\ TableOwn /\ \A s \in Sub : Exact(s)
  BY DEF Channels
<1>2. CASE Connect
  <2>1. \A k \in DOMAIN inbox' : \E s \in Sub : inbox'[k] = Subscribe(s)
    <3>1. inbox' \in Seq({Subscribe(s) : s \in Sub})
      BY <1>2 DEF Connect
    <3>2. \A k \in DOMAIN inbox' : inbox'[k] \in {Subscribe(s) : s \in Sub}
      BY <3>1
    <3>3. QED
      BY <3>2
  <2>2. Once'
    <3>1. \A j, k \in DOMAIN inbox' : inbox'[j].sub = inbox'[k].sub => inbox'[j] = inbox'[k]
      BY <2>1 DEF Subscribe
    <3>2. QED
      BY <1>2, <3>1 DEF Connect, Once
  <2>3. WaitsAsked'
    BY <1>2 DEF Connect, WaitsAsked, Waits
  <2>4. /\ table' = [i \in Id |-> NoSub] /\ run' = [s \in Sub |-> "none"] /\ stopped' = {}
        /\ reader'.at = "read"
    BY <1>2, PlaceTypesOK DEF Connect, Accept
  <2>5. \A s \in Sub : table'[IdOf[s]] = NoSub /\ NoSub # s
    BY <2>4, IdOfType, ConnectionAssumption DEF ConnectionAssumption
  <2>6. QED
    BY <2>2, <2>3, <2>4, <2>5
    DEF Channels, AskedOnce, StartedOnce, TableOwn, Exact, New, StartsNow
<1>3. CASE HangUp \/ GoSilent
  BY <1>1, <1>3
  DEF HangUp, GoSilent, chans, loops, Channels, Once, AskedOnce, WaitsAsked, Waits, StartedOnce,
      TableOwn, Exact, New, StartsNow
<1>4. CASE Receive
  <2>1. Once' /\ Waits' = Waits
    <3>1. CASE inbox' = inbox
      BY <1>1, <3>1 DEF Once, Waits
    <3>2. CASE inbox' = Append(inbox, Pong)
      BY <1>1, <3>2, AppendOnce, RequestTypesOK DEF Pong
    <3>3. QED
      BY <1>4, <3>1, <3>2 DEF Receive
  <2>2. QED
    BY <1>1, <1>4, <2>1
    DEF Receive, chans, loops, Channels, AskedOnce, WaitsAsked, StartedOnce, TableOwn, Exact, New, StartsNow
<1>5. ASSUME NEW s \in Sub, AskFor(s) PROVE Channels'
  <2>1. s \notin Waits /\ Subscribe(s) \in Requests /\ Subscribe(s).type = "subscribe"
        /\ Subscribe(s).sub = s
    BY <1>1, <1>5, RequestTypesOK DEF AskFor, WaitsAsked, Subscribe
  <2>2. Once' /\ Waits' = Waits \cup {s}
    BY <1>1, <1>5, <2>1, AppendOnce DEF AskFor
  <2>3. QED
    BY <1>1, <1>5, <2>2
    DEF AskFor, chans, loops, Channels, AskedOnce, WaitsAsked, StartedOnce, TableOwn, Exact, New, StartsNow
<1>6. ASSUME NEW s \in Sub, GiveUp(s) PROVE Channels'
  <2>1. Unsubscribe(s) \in Requests /\ Unsubscribe(s).type # "subscribe"
    BY <1>6, RequestTypesOK DEF Unsubscribe
  <2>2. Once' /\ Waits' = Waits
    BY <1>1, <1>6, <2>1, AppendOnce DEF GiveUp
  <2>3. QED
    BY <1>1, <1>6, <2>2
    DEF GiveUp, chans, loops, Channels, AskedOnce, WaitsAsked, StartedOnce, TableOwn, Exact, New, StartsNow
<1>7. QED
  BY <1>2, <1>3, <1>4, <1>5, <1>6 DEF Client

LEMMA StepChannels == FreshIds /\ TypeInv /\ Channels /\ [Next]_vars => Channels'
<1> SUFFICES ASSUME FreshIds, TypeInv, Channels, [Next]_vars PROVE Channels'
  OBVIOUS
<1>1. CASE Tick \/ WriteFails
  <2>1. Close \/ UNCHANGED <<conn, inbox>>
    BY <1>1 DEF Tick, WriteFails
  <2>2. UNCHANGED <<table, run, stopped, reader, asked>>
    BY <1>1 DEF Tick, WriteFails, chans, loops
  <2>3. CASE Close
    BY <2>2, <2>3, CloseOnce
    DEF Close, Channels, AskedOnce, WaitsAsked, StartedOnce, TableOwn, Exact, New, StartsNow
  <2>4. CASE UNCHANGED <<conn, inbox>>
    BY <2>2, <2>4
    DEF Channels, Once, AskedOnce, WaitsAsked, Waits, StartedOnce, TableOwn, Exact, New, StartsNow
  <2>5. QED
    BY <2>1, <2>3, <2>4
<1>2. CASE SendPing \/ PingEnds \/ UNCHANGED vars
  BY <1>2
  DEF SendPing, PingEnds, vars, chans, loops, Channels, Once, AskedOnce, WaitsAsked, Waits,
      StartedOnce, TableOwn, Exact, New, StartsNow
<1>3. CASE Input
  BY <1>3, InputFacts
  DEF Channels, Once, AskedOnce, WaitsAsked, Waits, StartedOnce, TableOwn, Exact, New, StartsNow
<1>4. QED
  BY <1>1, <1>2, <1>3, ReaderChannels, ServeChannels, ClientChannels DEF Next, Server, Pinger

LEMMA ChannelsInvariant == Spec => [](FreshIds => Channels)
<1>1. Init => (FreshIds => Channels)
  BY InitChannels
<1>2. TypeInv /\ (FreshIds => Channels) /\ [Next]_vars => (FreshIds => Channels)'
  BY StepChannels DEF FreshIds
<1>3. QED
  BY <1>1, <1>2, TypeInvariant, PTL DEF Spec

\* With ids of their own, every running channel is in the table until it is cancelled,
\* whatever the order of unsubscribing, failing and closing: it can always be stopped.
THEOREM TableIsRight == Spec => []TableIsExact
<1>1. (FreshIds => Channels) => TableIsExact
  BY DEF Channels, Exact, TableIsExact
<1>2. QED
  BY <1>1, ChannelsInvariant, PTL

-----------------------------------------------------------------------------
(***************************************************************************)
(* The send queue.                                                         *)
(***************************************************************************)
Ordered(q, s, n) ==
  \A k \in DOMAIN q : IsEvent(q[k], s) =>
    /\ q[k].seq <= n
    /\ q[k].seq < n => \E m \in DOMAIN q : m > k /\ IsEvent(q[m], s) /\ q[m].seq = q[k].seq + 1
    /\ \A m \in DOMAIN q : m > k /\ IsEvent(q[m], s) => q[m].seq > q[k].seq

IsSubscribed(f, s) == f.type = "subscribed" /\ f.id = IdOf[s]

ToldFirst(q, s) == \A j, k \in DOMAIN q : IsEvent(q[j], s) /\ IsSubscribed(q[k], s) => k < j

NoEvents(q, s) == \A k \in DOMAIN q : ~IsEvent(q[k], s)

\* An event is in the queue only when its goroutine has been started.
Queued(q, s) == ToldFirst(q, s) /\ Ordered(q, s, seq[s])

Queue ==
  /\ \A s \in Sub : Queued(send, s) /\ (run[s] = "none" => NoEvents(send, s))
  /\ reader.at = "reply" => reader.out.type \in {"error", "closed"}

LEMMA TailOrdered ==
  ASSUME NEW q \in Seq(Frames), q # <<>>, NEW s \in Sub, NEW n \in Nat
  PROVE  /\ Ordered(q, s, n) => Ordered(Tail(q), s, n)
         /\ ToldFirst(q, s) => ToldFirst(Tail(q), s)
         /\ NoEvents(q, s) => NoEvents(Tail(q), s)
<1> DEFINE t == Tail(q)
<1>1. /\ \A k \in DOMAIN t : k \in Nat /\ k + 1 \in DOMAIN q /\ t[k] = q[k + 1]
      /\ \A m \in DOMAIN q : m \in Nat /\ (m > 1 => m - 1 \in DOMAIN t /\ t[m - 1] = q[m])
  OBVIOUS
<1> HIDE DEF t
<1>2. ASSUME Ordered(q, s, n) PROVE Ordered(t, s, n)
  <2> SUFFICES ASSUME NEW k \in DOMAIN t, IsEvent(t[k], s)
               PROVE  /\ t[k].seq <= n
                      /\ t[k].seq < n => \E m \in DOMAIN t : m > k /\ IsEvent(t[m], s) /\ t[m].seq = t[k].seq + 1
                      /\ \A m \in DOMAIN t : m > k /\ IsEvent(t[m], s) => t[m].seq > t[k].seq
    BY DEF Ordered
  <2>1. k \in Nat /\ k + 1 \in DOMAIN q /\ t[k] = q[k + 1]
    BY <1>1
  <2>2. t[k].seq <= n
    BY <1>2, <2>1 DEF Ordered
  <2>3. ASSUME t[k].seq < n
        PROVE  \E m \in DOMAIN t : m > k /\ IsEvent(t[m], s) /\ t[m].seq = t[k].seq + 1
    <3>1. PICK m \in DOMAIN q : m > k + 1 /\ IsEvent(q[m], s) /\ q[m].seq = q[k + 1].seq + 1
      BY <1>2, <2>1, <2>3 DEF Ordered
    <3>2. m \in Nat /\ m - 1 \in DOMAIN t /\ t[m - 1] = q[m] /\ m - 1 > k
      BY <1>1, <2>1, <3>1
    <3>3. QED
      BY <2>1, <3>1, <3>2
  <2>4. ASSUME NEW m \in DOMAIN t, m > k, IsEvent(t[m], s)
        PROVE  t[m].seq > t[k].seq
    <3>1. m \in Nat /\ m + 1 \in DOMAIN q /\ t[m] = q[m + 1] /\ m + 1 > k + 1
      BY <1>1, <2>1, <2>4
    <3>2. QED
      BY <1>2, <2>1, <2>4, <3>1 DEF Ordered
  <2>5. QED
    BY <2>2, <2>3, <2>4
<1>3. ASSUME ToldFirst(q, s) PROVE ToldFirst(t, s)
  <2> SUFFICES ASSUME NEW j \in DOMAIN t, NEW k \in DOMAIN t, IsEvent(t[j], s), IsSubscribed(t[k], s)
               PROVE  k < j
    BY DEF ToldFirst
  <2>1. /\ j \in Nat /\ j + 1 \in DOMAIN q /\ t[j] = q[j + 1]
        /\ k \in Nat /\ k + 1 \in DOMAIN q /\ t[k] = q[k + 1]
    BY <1>1
  <2>2. k + 1 < j + 1
    BY <1>3, <2>1 DEF ToldFirst
  <2>3. QED
    BY <2>1, <2>2
<1>4. ASSUME NoEvents(q, s) PROVE NoEvents(t, s)
  BY <1>1, <1>4 DEF NoEvents
<1>5. QED
  BY <1>2, <1>3, <1>4 DEF t

\* What Append does to the queue, without saying how long it is.
LEMMA AppendFacts ==
  ASSUME NEW q \in Seq(Frames), NEW f \in Frames
  PROVE  \E n \in Nat : /\ DOMAIN Append(q, f) = DOMAIN q \cup {n}
                        /\ Append(q, f)[n] = f
                        /\ \A k \in DOMAIN q : k \in Nat /\ k < n /\ Append(q, f)[k] = q[k]
<1>1. /\ DOMAIN Append(q, f) = DOMAIN q \cup {Len(q) + 1} /\ Len(q) + 1 \in Nat
      /\ Append(q, f)[Len(q) + 1] = f
      /\ \A k \in DOMAIN q : k \in Nat /\ k < Len(q) + 1 /\ Append(q, f)[k] = q[k]
  OBVIOUS
<1>2. QED
  BY <1>1

LEMMA AppendOther ==
  ASSUME NEW q \in Seq(Frames), NEW f \in Frames, NEW s \in Sub, NEW n \in Nat, ~IsEvent(f, s)
  PROVE  /\ Ordered(q, s, n) => Ordered(Append(q, f), s, n)
         /\ ToldFirst(q, s) /\ (NoEvents(q, s) \/ ~IsSubscribed(f, s)) => ToldFirst(Append(q, f), s)
         /\ NoEvents(q, s) => NoEvents(Append(q, f), s)
<1> DEFINE t == Append(q, f)
<1>1. PICK l \in Nat : /\ DOMAIN t = DOMAIN q \cup {l} /\ t[l] = f
                       /\ \A k \in DOMAIN q : k \in Nat /\ k < l /\ t[k] = q[k]
  BY AppendFacts
<1> HIDE DEF t
<1>2. ASSUME Ordered(q, s, n) PROVE Ordered(t, s, n)
  BY <1>1, <1>2 DEF Ordered
<1>3. ASSUME ToldFirst(q, s), NoEvents(q, s) \/ ~IsSubscribed(f, s) PROVE ToldFirst(t, s)
  BY <1>1, <1>3 DEF ToldFirst, NoEvents
<1>4. ASSUME NoEvents(q, s) PROVE NoEvents(t, s)
  BY <1>1, <1>4 DEF NoEvents
<1>5. QED
  BY <1>2, <1>3, <1>4 DEF t

LEMMA AppendEvent ==
  ASSUME NEW q \in Seq(Frames), NEW f \in Frames, NEW s \in Sub, NEW n \in Nat,
         IsEvent(f, s), f.seq = n + 1, Ordered(q, s, n), ToldFirst(q, s)
  PROVE  Ordered(Append(q, f), s, n + 1) /\ ToldFirst(Append(q, f), s)
<1> DEFINE t == Append(q, f)
<1>1. PICK l \in Nat : /\ DOMAIN t = DOMAIN q \cup {l} /\ t[l] = f
                       /\ \A k \in DOMAIN q : k \in Nat /\ k < l /\ t[k] = q[k]
  BY AppendFacts
<1>2. \A k \in DOMAIN q : q[k].seq \in Nat
  <2>1. \A k \in DOMAIN q : q[k] \in Frames
    OBVIOUS
  <2>2. \A g \in Frames : g.seq \in Nat
    BY DEF Frames
  <2>3. QED
    BY <2>1, <2>2
<1> HIDE DEF t
<1>3. ASSUME NEW k \in DOMAIN q, IsEvent(q[k], s)
      PROVE  /\ t[k].seq <= n + 1
             /\ t[k].seq < n + 1 => \E m \in DOMAIN t : m > k /\ IsEvent(t[m], s) /\ t[m].seq = t[k].seq + 1
             /\ \A m \in DOMAIN t : m > k /\ IsEvent(t[m], s) => t[m].seq > t[k].seq
  <2>1. t[k] = q[k] /\ k \in Nat /\ k < l /\ q[k].seq \in Nat /\ q[k].seq <= n
    BY <1>1, <1>2, <1>3 DEF Ordered
  <2>2. CASE q[k].seq = n
    <3>1. l > k /\ IsEvent(t[l], s) /\ t[l].seq = t[k].seq + 1 /\ l \in DOMAIN t
      BY <1>1, <2>1, <2>2
    <3>2. QED
      BY <1>1, <1>2, <1>3, <2>1, <2>2, <3>1 DEF Ordered
  <2>3. CASE q[k].seq # n
    <3>1. q[k].seq < n
      BY <2>1, <2>3
    <3>2. PICK m \in DOMAIN q : m > k /\ IsEvent(q[m], s) /\ q[m].seq = q[k].seq + 1
      BY <1>3, <3>1 DEF Ordered
    <3>3. m \in DOMAIN t /\ t[m] = q[m]
      BY <1>1
    <3>4. \A o \in DOMAIN t : o > k /\ IsEvent(t[o], s) => t[o].seq > t[k].seq
      BY <1>1, <1>2, <1>3, <2>1, <3>1 DEF Ordered
    <3>5. QED
      BY <2>1, <3>2, <3>3, <3>4
  <2>4. QED
    BY <2>2, <2>3
<1>4. ~ \E m \in DOMAIN t : m > l
  BY <1>1
<1>5. Ordered(t, s, n + 1)
  BY <1>1, <1>3, <1>4 DEF Ordered
<1>6. ToldFirst(t, s)
  BY <1>1 DEF ToldFirst, IsEvent, IsSubscribed
<1>7. QED
  BY <1>5, <1>6 DEF t

LEMMA EmptyQueue ==
  ASSUME NEW q, q = <<>> \/ q = <<Hello>>
  PROVE  \A s \in Sub : NoEvents(q, s)
BY DEF NoEvents, IsEvent, Hello, Frame

LEMMA NoEventsOrdered ==
  ASSUME NEW q, NEW s \in Sub, NoEvents(q, s)
  PROVE  \A n \in Nat : Ordered(q, s, n) /\ ToldFirst(q, s)
BY DEF NoEvents, Ordered, ToldFirst

\* A frame that is neither an event nor the start of a channel that sends already.
LEMMA EnqueueQueue ==
  ASSUME TypeInv, NEW f \in Frames, Enqueue(f), f.type # "event", NEW s \in Sub,
         Queued(send, s), NoEvents(send, s) \/ ~IsSubscribed(f, s)
  PROVE  /\ ToldFirst(send', s) /\ Ordered(send', s, seq[s])
         /\ NoEvents(send, s) => NoEvents(send', s)
<1>1. send \in Seq(Frames) /\ seq[s] \in Nat /\ ~IsEvent(f, s)
  BY DEF TypeInv, TypeOK, IsEvent
<1>2. QED
  BY <1>1, AppendOther DEF Enqueue, Queued

LEMMA InitQueue == Init => Queue
<1> SUFFICES ASSUME Init PROVE Queue
  OBVIOUS
<1>1. \A s \in Sub : NoEvents(send, s) /\ seq[s] = 0
  BY EmptyQueue DEF Init
<1>2. \A s \in Sub : Queued(send, s)
  BY <1>1, NoEventsOrdered DEF Queued
<1>3. reader.at = "ended"
  BY PlaceTypesOK DEF Init
<1>4. QED
  BY <1>1, <1>2, <1>3 DEF Queue

\* A step that leaves the queue, or empties it, or takes the first frame.
LEMMA LessQueue ==
  ASSUME TypeInv, Queue, UNCHANGED seq, send' = send \/ send' = <<>> \/ (send # <<>> /\ send' = Tail(send)),
         \A s \in Sub : run'[s] = "none" => run[s] = "none",
         reader' = reader \/ reader'.at # "reply" \/ reader'.out.type \in {"error", "closed"}
  PROVE  Queue'
<1> SUFFICES ASSUME NEW s \in Sub PROVE Queued(send, s)' /\ (run'[s] = "none" => NoEvents(send', s))
  BY DEF Queue
<1>1. /\ send \in Seq(Frames) /\ seq[s] \in Nat /\ ToldFirst(send, s) /\ Ordered(send, s, seq[s])
      /\ run'[s] = "none" => NoEvents(send, s)
  BY DEF TypeInv, TypeOK, Queue, Queued
<1>2. /\ ToldFirst(send', s) /\ Ordered(send', s, seq[s])
      /\ run'[s] = "none" => NoEvents(send', s)
  BY <1>1, TailOrdered, EmptyQueue, NoEventsOrdered
<1>3. QED
  BY <1>2 DEF Queued

LEMMA ReaderQueue == FreshIds /\ TypeInv /\ Channels /\ Queue /\ Reader => Queue'
<1> SUFFICES ASSUME FreshIds, TypeInv, Channels, Queue, Reader PROVE Queue'
  OBVIOUS
<1>1. /\ \A place \in {"read", "ended"} : At(place).at = place
      /\ \A s \in Sub : [At("start") EXCEPT !.sub = s].at = "start"
      /\ \A i \in Id, type \in {"error", "closed"} :
           LET p == Answer(Frame(type, i, 0)) IN p.at = "reply" /\ p.out.type = type
  <2>1. \A i \in Id, type \in {"error", "closed"} :
           Frame(type, i, 0) \in Frames /\ Frame(type, i, 0).type = type
    BY FrameTypesOK DEF Frame, FrameTypes
  <2>2. \A i \in Id, type \in {"error", "closed"} :
           LET p == Answer(Frame(type, i, 0)) IN p.at = "reply" /\ p.out.type = type
    BY <2>1, PlaceTypesOK
  <2>3. \A s \in Sub : [At("start") EXCEPT !.sub = s].at = "start"
    BY PlaceTypesOK
  <2>4. \A place \in {"read", "ended"} : At(place).at = place
    BY PlaceTypesOK
  <2>5. QED
    BY <2>2, <2>3, <2>4
<1>2. CASE ReadPong \/ ReadEnds
  BY <1>1, <1>2, LessQueue DEF ReadPong, ReadEnds, Close, chans
<1>3. CASE ReadSubscribe
  <2>1. Head(inbox).sub \in Sub /\ IdOf[Head(inbox).sub] \in Id
    BY <1>3, TakesType, IdOfType DEF ReadSubscribe
  <2>2. reader'.at # "reply" \/ reader'.out.type \in {"error", "closed"}
    BY <1>1, <1>3, <2>1 DEF ReadSubscribe
  <2>3. UNCHANGED <<send, seq, run>>
    BY <1>3 DEF ReadSubscribe
  <2>4. QED
    BY <2>2, <2>3, LessQueue
<1>4. CASE ReadUnsubscribe
  <2>1. IdOf[Head(inbox).sub] \in Id
    BY <1>4, TakesType, IdOfType DEF ReadUnsubscribe
  <2>2. reader'.out.type \in {"error", "closed"}
    BY <1>1, <1>4, <2>1 DEF ReadUnsubscribe
  <2>3. UNCHANGED <<send, seq, run>>
    BY <1>4 DEF ReadUnsubscribe
  <2>4. QED
    BY <2>2, <2>3, LessQueue
<1>5. CASE StartChannel
  <2> DEFINE u == reader.sub
             f == Frame("subscribed", IdOf[u], 0)
  <2>1. u \in Sub /\ run[u] = "none" /\ f \in Frames /\ IdOf[u] \in Id
    BY <1>5, IdOfType, FrameTypesOK
    DEF StartChannel, Channels, StartedOnce, TypeInv, Starting, FrameTypes
  <2>2. f.type = "subscribed" /\ f.id = IdOf[u]
    BY DEF Frame
  <2>3. Enqueue(f) /\ UNCHANGED seq /\ run' = [run EXCEPT ![u] = "run"] /\ reader'.at = "read"
    BY <1>1, <1>5 DEF StartChannel
  <2> HIDE DEF u, f
  <2>4. ASSUME NEW s \in Sub
        PROVE  Queued(send, s)' /\ (run'[s] = "none" => NoEvents(send', s))
    <3>1. Queued(send, s) /\ (run[s] = "none" => NoEvents(send, s))
      BY DEF Queue
    <3>2. NoEvents(send, s) \/ ~IsSubscribed(f, s)
      BY <2>1, <2>2, <3>1 DEF FreshIds, IsSubscribed
    <3>3. run'[s] = "none" => run[s] = "none"
      BY <2>1, <2>3 DEF TypeInv, TypeOK
    <3>4. /\ ToldFirst(send', s) /\ Ordered(send', s, seq[s])
          /\ NoEvents(send, s) => NoEvents(send', s)
      BY <2>1, <2>2, <2>3, <3>1, <3>2, EnqueueQueue
    <3>5. QED
      BY <2>3, <3>1, <3>3, <3>4 DEF Queued
  <2>5. QED
    BY <2>3, <2>4 DEF Queue
<1>6. CASE StartFails
  <2>1. IdOf[reader.sub] \in Id
    BY <1>6, IdOfType DEF StartFails, TypeInv, Starting
  <2>2. reader'.out.type \in {"error", "closed"}
    BY <1>1, <1>6, <2>1 DEF StartFails
  <2>3. UNCHANGED <<send, seq, run>>
    BY <1>6 DEF StartFails
  <2>4. QED
    BY <2>2, <2>3, LessQueue
<1>7. CASE Reply
  <2>1. reader.out \in Frames /\ reader.out.type \in {"error", "closed"}
    BY <1>7 DEF Reply, Queue, TypeInv, TypeOK, Places
  <2>2. Enqueue(reader.out) /\ UNCHANGED <<seq, run>> /\ reader'.at = "read"
    BY <1>1, <1>7 DEF Reply, chans
  <2>3. ASSUME NEW s \in Sub
        PROVE  Queued(send, s)' /\ (run'[s] = "none" => NoEvents(send', s))
    <3>1. Queued(send, s) /\ (run[s] = "none" => NoEvents(send, s)) /\ ~IsSubscribed(reader.out, s)
      BY <2>1 DEF Queue, IsSubscribed
    <3>2. /\ ToldFirst(send', s) /\ Ordered(send', s, seq[s])
          /\ NoEvents(send, s) => NoEvents(send', s)
      BY <2>1, <2>2, <3>1, EnqueueQueue
    <3>3. QED
      BY <2>2, <3>1, <3>2 DEF Queued
  <2>4. QED
    BY <2>2, <2>3 DEF Queue
<1>8. QED
  BY <1>2, <1>3, <1>4, <1>5, <1>6, <1>7 DEF Reader

LEMMA ServeQueue ==
  ASSUME FreshIds, TypeInv, Channels, Queue, NEW s \in Sub, Serve(s)
  PROVE  Queue'
<1>0. /\ send \in Seq(Frames) /\ seq \in [Sub -> Nat] /\ seq[s] \in Nat /\ IdOf[s] \in Id
      /\ run \in [Sub -> {"none", "run", "close", "remove", "ended"}]
  BY IdOfType DEF TypeInv, TypeOK
<1>1. CASE Leave(s) \/ SourceEnds(s) \/ RemoveChannel(s)
  <2>1. UNCHANGED <<send, seq, reader>>
    BY <1>1 DEF Leave, SourceEnds, RemoveChannel, loops
  <2>2. \A t \in Sub : run'[t] = "none" => run[t] = "none"
    BY <1>0, <1>1 DEF Leave, SourceEnds, RemoveChannel, GoRun
  <2>3. QED
    BY <2>1, <2>2, LessQueue
<1>2. CASE CloseChannel(s)
  <2> DEFINE f == Frame("closed", IdOf[s], 0)
  <2>1. f \in Frames /\ f.type = "closed"
    BY <1>0, FrameTypesOK DEF Frame, FrameTypes
  <2>2. Enqueue(f) /\ UNCHANGED <<seq, reader>>
    BY <1>2 DEF CloseChannel, loops
  <2> HIDE DEF f
  <2>3. \A t \in Sub : run'[t] = "none" => run[t] = "none"
    BY <1>0, <1>2 DEF CloseChannel, GoRun
  <2>4. ASSUME NEW t \in Sub
        PROVE  Queued(send, t)' /\ (run'[t] = "none" => NoEvents(send', t))
    <3>1. Queued(send, t) /\ (run[t] = "none" => NoEvents(send, t)) /\ ~IsSubscribed(f, t)
      BY <2>1 DEF Queue, IsSubscribed
    <3>2. /\ ToldFirst(send', t) /\ Ordered(send', t, seq[t])
          /\ NoEvents(send, t) => NoEvents(send', t)
      BY <2>1, <2>2, <3>1, EnqueueQueue
    <3>3. QED
      BY <2>2, <2>3, <3>1, <3>2 DEF Queued
  <2>5. QED
    BY <2>2, <2>4 DEF Queue
<1>3. CASE Emit(s)
  <2>1. /\ Event(s) \in Frames /\ Event(s).type = "event" /\ Event(s).seq = seq[s] + 1
        /\ \A t \in Sub : IsEvent(Event(s), t) <=> t = s
    BY <1>0, FrameTypesOK DEF Event, Frame, FrameTypes, IsEvent, FreshIds
  <2>2. /\ send' = Append(send, Event(s)) /\ seq' = [seq EXCEPT ![s] = @ + 1]
        /\ UNCHANGED <<run, reader>> /\ run[s] = "run"
    BY <1>3 DEF Emit, loops
  <2>3. ASSUME NEW t \in Sub
        PROVE  Queued(send, t)' /\ (run'[t] = "none" => NoEvents(send', t))
    <3>1. /\ ToldFirst(send, t) /\ Ordered(send, t, seq[t])
          /\ run[t] = "none" => NoEvents(send, t)
      BY DEF Queue, Queued
    <3>2. CASE t = s
      <4>1. Ordered(send', s, seq[s] + 1) /\ ToldFirst(send', s)
        BY <1>0, <2>1, <2>2, <3>1, <3>2, AppendEvent
      <4>2. seq'[s] = seq[s] + 1
        BY <1>0, <2>2
      <4>3. QED
        BY <2>2, <3>2, <4>1, <4>2 DEF Queued
    <3>3. CASE t # s
      <4>1. ~IsEvent(Event(s), t) /\ ~IsSubscribed(Event(s), t) /\ seq'[t] = seq[t] /\ seq[t] \in Nat
        BY <1>0, <2>1, <2>2, <3>3 DEF IsSubscribed
      <4>2. /\ ToldFirst(send', t) /\ Ordered(send', t, seq[t])
            /\ NoEvents(send, t) => NoEvents(send', t)
        BY <1>0, <2>1, <2>2, <3>1, <4>1, AppendOther
      <4>3. QED
        BY <2>2, <3>1, <4>1, <4>2 DEF Queued
    <3>4. QED
      BY <3>2, <3>3
  <2>4. QED
    BY <2>2, <2>3 DEF Queue
<1>4. QED
  BY <1>1, <1>2, <1>3 DEF Serve

LEMMA ClientQueue == TypeInv /\ Queue /\ Client => Queue'
<1> SUFFICES ASSUME TypeInv, Queue, Client PROVE Queue'
  OBVIOUS
<1>1. CASE Connect
  <2>1. send' = <<Hello>> /\ seq' = [s \in Sub |-> 0] /\ reader'.at = "read"
    BY <1>1, PlaceTypesOK DEF Connect, Accept
  <2>2. \A s \in Sub : NoEvents(send', s)
    BY <2>1, EmptyQueue
  <2>3. \A s \in Sub : ToldFirst(send', s) /\ Ordered(send', s, seq'[s])
    BY <2>1, <2>2, NoEventsOrdered
  <2>4. QED
    BY <2>1, <2>2, <2>3 DEF Queue, Queued
<1>2. CASE HangUp \/ GoSilent \/ Receive \/ \E s \in Sub : AskFor(s) \/ GiveUp(s)
  <2>1. UNCHANGED <<seq, run, reader>>
    BY <1>2 DEF HangUp, GoSilent, Receive, AskFor, GiveUp, chans, loops
  <2>2. send' = send \/ (send # <<>> /\ send' = Tail(send))
    BY <1>2 DEF HangUp, GoSilent, Receive, AskFor, GiveUp
  <2>3. QED
    BY <2>1, <2>2, LessQueue
<1>3. QED
  BY <1>1, <1>2 DEF Client

LEMMA StepQueue == FreshIds /\ TypeInv /\ Channels /\ Queue /\ [Next]_vars => Queue'
<1> SUFFICES ASSUME FreshIds, TypeInv, Channels, Queue, [Next]_vars PROVE Queue'
  OBVIOUS
<1>1. CASE Tick \/ WriteFails \/ PingEnds \/ UNCHANGED vars
  <2>1. UNCHANGED <<seq, run, reader>>
    BY <1>1 DEF Tick, WriteFails, PingEnds, vars, chans, loops
  <2>2. send' = send \/ send' = <<>>
    BY <1>1 DEF Tick, WriteFails, PingEnds, Close, vars
  <2>3. QED
    BY <2>1, <2>2, LessQueue
<1>2. CASE SendPing
  <2>1. Ping \in Frames /\ Ping.type = "ping"
    BY FrameTypesOK DEF Ping, Frame
  <2>2. Enqueue(Ping) /\ UNCHANGED <<seq, run, reader>>
    BY <1>2 DEF SendPing, chans
  <2>3. ASSUME NEW s \in Sub
        PROVE  Queued(send, s)' /\ (run'[s] = "none" => NoEvents(send', s))
    <3>1. Queued(send, s) /\ (run[s] = "none" => NoEvents(send, s)) /\ ~IsSubscribed(Ping, s)
      BY <2>1 DEF Queue, IsSubscribed
    <3>2. /\ ToldFirst(send', s) /\ Ordered(send', s, seq[s])
          /\ NoEvents(send, s) => NoEvents(send', s)
      BY <2>1, <2>2, <3>1, EnqueueQueue
    <3>3. QED
      BY <2>2, <3>1, <3>2 DEF Queued
  <2>4. QED
    BY <2>2, <2>3 DEF Queue
<1>3. CASE Input
  BY <1>3, InputFacts, LessQueue
<1>4. QED
  BY <1>1, <1>2, <1>3, ReaderQueue, ServeQueue, ClientQueue DEF Next, Server, Pinger

LEMMA QueueInvariant == Spec => [](FreshIds => Queue)
<1>1. Init => (FreshIds => Queue)
  BY InitQueue
<1>2. TypeInv /\ (FreshIds => Channels) /\ (FreshIds => Queue) /\ [Next]_vars => (FreshIds => Queue)'
  BY StepQueue DEF FreshIds
<1>3. QED
  BY <1>1, <1>2, TypeInvariant, ChannelsInvariant, PTL DEF Spec

\* The events of a channel that are on their way have consecutive numbers and end with
\* the last one given out, with any number of dropped samples between them.
THEOREM EventsAreGapless == Spec => []Gapless
<1>1. (FreshIds => Queue) => Gapless
  BY DEF Queue, Queued, Ordered, Gapless
<1>2. QED
  BY <1>1, QueueInvariant, PTL

\* The answer to a subscribe is queued before anything the channel's goroutine sends.
THEOREM AnswerComesFirst == Spec => []SubscribedFirst
<1>1. (FreshIds => Queue) => SubscribedFirst
  BY DEF Queue, Queued, ToldFirst, IsSubscribed, SubscribedFirst
<1>2. QED
  BY <1>1, QueueInvariant, PTL

-----------------------------------------------------------------------------
(***************************************************************************)
(* What the two ends have still to learn of a subscription: the frames on  *)
(* their way, the entry in the table and the goroutine, and how a step of  *)
(* the agent changes them.                                                 *)
(***************************************************************************)
\* The frames on their way to the client, and the answer readLoop has yet to queue.
Answers == ToSet(send) \cup (IF reader.at = "reply" THEN {reader.out} ELSE {})

Says(f, type, s) == f.type = type /\ f.id = IdOf[s]
Said(type, s) == \E f \in Answers : Says(f, type, s)
Has(s) == table[IdOf[s]] = s
Withdrawn(s) == Unsubscribe(s) \in ToSet(inbox)

\* What is said of a channel is said of one the client has.
Known(f) == f.type \in {"event", "error", "closed"} => \E s \in Sub : f.id = IdOf[s]
Sourced == \A f \in Answers : Known(f)

Counted == \A s \in Sub : seq[s] <= MaxEvents /\ (run[s] = "none" => seq[s] = 0)

\* A subscription is asked for before it is given up.
AskFirst ==
  \A s \in Sub :
    /\ Withdrawn(s) => s \in asked
    /\ \A j, k \in DOMAIN inbox : inbox[j] = Unsubscribe(s) /\ inbox[k] = Subscribe(s) => k < j

\* An error and a closed are the last that is said of a channel on a connection, but
\* that removeChannel may still have to take it out of the table.
Refusal(s) == Said("error", s) => s \in asked \ Waits /\ ~Has(s)
Ending(s) == Said("closed", s) => s \in asked \ Waits /\ (Has(s) => run[s] = "remove")

Spoken == Sourced /\ Counted /\ AskFirst /\ \A s \in Sub : Refusal(s) /\ Ending(s)

LEMMA QueueSets ==
  ASSUME NEW S, NEW q \in Seq(S)
  PROVE  /\ ToSet(<<>>) = {}
         /\ q # <<>> => ToSet(q) = {Head(q)} \cup ToSet(Tail(q))
         /\ \A e \in S : ToSet(Append(q, e)) = ToSet(q) \cup {e}
<1>1. ToSet(<<>>) = {}
  BY DEF ToSet
<1>2. ASSUME q # <<>>
      PROVE  ToSet(q) = {Head(q)} \cup ToSet(Tail(q))
  <2> DEFINE t == Tail(q)
  <2>1. /\ Head(q) = q[1] /\ 1 \in DOMAIN q
        /\ \A k \in DOMAIN t : k + 1 \in DOMAIN q /\ t[k] = q[k + 1]
        /\ \A m \in DOMAIN q : m = 1 \/ (m - 1 \in DOMAIN t /\ t[m - 1] = q[m])
    BY <1>2
  <2> HIDE DEF t
  <2>2. ToSet(q) = {Head(q)} \cup ToSet(t)
    BY <2>1 DEF ToSet
  <2>3. QED
    BY <2>2 DEF t
<1>3. ASSUME NEW e \in S
      PROVE  ToSet(Append(q, e)) = ToSet(q) \cup {e}
  <2> DEFINE t == Append(q, e)
             n == Len(q) + 1
  <2>1. DOMAIN t = DOMAIN q \cup {n} /\ t[n] = e /\ \A k \in DOMAIN q : t[k] = q[k]
    OBVIOUS
  <2> HIDE DEF t, n
  <2>2. ToSet(t) = ToSet(q) \cup {e}
    BY <2>1 DEF ToSet
  <2>3. QED
    BY <2>2 DEF t
<1>4. QED
  BY <1>1, <1>2, <1>3

LEMMA RequestFacts ==
  /\ \A s, t \in Sub : /\ Subscribe(s) = Subscribe(t) => s = t
                       /\ Unsubscribe(s) = Unsubscribe(t) => s = t
                       /\ Subscribe(s) # Unsubscribe(t) /\ Subscribe(s) # Pong /\ Unsubscribe(s) # Pong
  /\ \A r \in Requests : /\ r.type = "subscribe" => r = Subscribe(r.sub)
                         /\ r.type = "unsubscribe" => r = Unsubscribe(r.sub)
                         /\ r.type = "pong" => r = Pong
  /\ \A s \in Sub : /\ Subscribe(s).type = "subscribe" /\ Subscribe(s).sub = s
                    /\ Unsubscribe(s).type = "unsubscribe" /\ Unsubscribe(s).sub = s
<1>1. \A s, t \in Sub : /\ Subscribe(s) = Subscribe(t) => s = t
                        /\ Unsubscribe(s) = Unsubscribe(t) => s = t
                        /\ Subscribe(s) # Unsubscribe(t) /\ Subscribe(s) # Pong /\ Unsubscribe(s) # Pong
  BY DEF Subscribe, Unsubscribe, Pong
<1>2. \A r \in Requests : /\ r.type = "subscribe" => r = Subscribe(r.sub)
                          /\ r.type = "unsubscribe" => r = Unsubscribe(r.sub)
                          /\ r.type = "pong" => r = Pong
  BY DEF Requests, Subscribe, Unsubscribe, Pong
<1>3. \A s \in Sub : /\ Subscribe(s).type = "subscribe" /\ Subscribe(s).sub = s
                     /\ Unsubscribe(s).type = "unsubscribe" /\ Unsubscribe(s).sub = s
  BY DEF Subscribe, Unsubscribe
<1>4. QED
  BY <1>1, <1>2, <1>3

\* What waits to be read, as frames.
LEMMA WaitsFrames ==
  ASSUME NEW q \in Seq(Requests), NEW s \in Sub
  PROVE  (\E k \in DOMAIN q : q[k].type = "subscribe" /\ q[k].sub = s) <=> Subscribe(s) \in ToSet(q)
<1>1. \A k \in DOMAIN q : q[k] \in Requests
  OBVIOUS
<1>2. \A k \in DOMAIN q : q[k].type = "subscribe" /\ q[k].sub = s <=> q[k] = Subscribe(s)
  BY <1>1, RequestFacts
<1>3. QED
  BY <1>2 DEF ToSet

-----------------------------------------------------------------------------
(***************************************************************************)
(* The steps of the agent, as a subscription sees them.                    *)
(***************************************************************************)
SameFrames(s) == (s \in Waits' <=> s \in Waits) /\ (Withdrawn(s)' <=> Withdrawn(s))
SameEntry(s) == Has(s)' <=> Has(s)
SameWords(s) == \A type \in {"error", "closed"} :
                  /\ Said(type, s)' => Said(type, s)
                  /\ conn' = "open" /\ Said(type, s) => Said(type, s)'

\* Nothing happens, or the goroutine starts or leaves.
Quiet(s) ==
  /\ SameFrames(s) /\ SameEntry(s) /\ SameWords(s)
  /\ run'[s] = run[s] \/ "remove" \notin {run[s], run'[s]}

\* close() drops the frames that are on their way.
Drops(s) ==
  /\ conn' = "done" /\ s \notin Waits' /\ ~Withdrawn(s)' /\ SameEntry(s) /\ SameWords(s)
  /\ run'[s] = run[s]

\* readLoop registers the channel.
Registers(s) ==
  /\ s \in Waits /\ s \notin Waits' /\ (Withdrawn(s)' <=> Withdrawn(s))
  /\ Has(s)' /\ SameWords(s) /\ run'[s] = run[s]

\* readLoop answers that there is no such channel, or that it has ended.
Refuses(s, type) ==
  /\ s \in asked /\ s \notin Waits' /\ ~Has(s)'
  /\ Said(type, s)' /\ run'[s] = run[s]
  /\ \A other \in {"error", "closed"} \ {type} :
       (Said(other, s)' => Said(other, s)) /\ (conn' = "open" /\ Said(other, s) => Said(other, s)')

\* The goroutine says that the channel has ended, and then takes it out of the table.
SaysClosed(s) ==
  /\ s \in asked \ Waits /\ SameFrames(s) /\ SameEntry(s) /\ run'[s] = "remove"
  /\ conn' = "open" => Said("closed", s)'
  /\ (Said("error", s)' => Said("error", s)) /\ (conn' = "open" /\ Said("error", s) => Said("error", s)')

TakesOut(s) ==
  /\ run[s] = "remove" /\ run'[s] = "ended" /\ ~Has(s)' /\ SameFrames(s) /\ SameWords(s)

Seen(s) ==
  Quiet(s) \/ Drops(s) \/ Registers(s) \/ Refuses(s, "error") \/ Refuses(s, "closed") \/ SaysClosed(s) \/ TakesOut(s)

\* A frame is queued that says neither.
LEMMA EnqueueWords ==
  ASSUME TypeInv, NEW f \in Frames, Enqueue(f), f.type \notin {"error", "closed"},
         reader' = reader \/ "reply" \notin {reader.at, reader'.at}, NEW s \in Sub
  PROVE  SameWords(s)
<1>1. send \in Seq(Frames) /\ (send' = send \/ send' = Append(send, f))
  BY DEF Enqueue, TypeInv, TypeOK
<1>2. ToSet(Append(send, f)) = ToSet(send) \cup {f}
  BY <1>1, QueueSets
<1>3. send' = send \/ ToSet(send') = ToSet(send) \cup {f}
  BY <1>1, <1>2
<1>4. QED
  BY <1>3 DEF SameWords, Said, Answers, Says

\* The frames the reader leaves in the inbox.
LEMMA TakesFrames ==
  ASSUME TypeInv, TypeInv', Once, NEW type, Takes(type), NEW s \in Sub
  PROVE  /\ Head(inbox) \notin {Subscribe(s), Unsubscribe(s)} => SameFrames(s)
         /\ Head(inbox) = Subscribe(s) => s \in Waits /\ s \notin Waits' /\ (Withdrawn(s)' <=> Withdrawn(s))
         /\ Head(inbox) = Unsubscribe(s) => Withdrawn(s) /\ (s \in Waits' <=> s \in Waits)
<1>1. /\ inbox \in Seq(Requests) /\ inbox' \in Seq(Requests) /\ inbox # <<>>
      /\ inbox' = Tail(inbox) /\ Head(inbox).type = type /\ Head(inbox) \in Requests
  BY TakesType DEF TypeInv, TypeOK, Takes
<1>2. ToSet(inbox) = {Head(inbox)} \cup ToSet(inbox')
  BY <1>1, QueueSets
<1>3. (s \in Waits <=> Subscribe(s) \in ToSet(inbox)) /\ (s \in Waits' <=> Subscribe(s) \in ToSet(inbox'))
  BY <1>1, WaitsFrames DEF Waits
<1>4. Head(inbox) = Subscribe(s) => s \notin Waits'
  BY TakesOnce, <1>1, RequestFacts
<1>5. Subscribe(s) # Unsubscribe(s)
  BY RequestFacts
<1>6. QED
  BY <1>2, <1>3, <1>4, <1>5 DEF SameFrames, Withdrawn

LEMMA AnswerWords ==
  ASSUME FreshIds, reader.at # "reply", UNCHANGED send, NEW t \in Sub, NEW word \in {"error", "closed"},
         reader' = Answer(Frame(word, IdOf[t], 0)), NEW s \in Sub, NEW type
  PROVE  Said(type, s)' <=> Said(type, s) \/ (type = word /\ s = t)
<1> DEFINE f == Frame(word, IdOf[t], 0)
<1>1. f \in Frames /\ f.type = word /\ f.id = IdOf[t]
  BY IdOfType, FrameTypesOK DEF Frame, FrameTypes
<1>2. reader'.at = "reply" /\ reader'.out = f
  BY <1>1, PlaceTypesOK
<1>3. Answers' = Answers \cup {f}
  BY <1>2 DEF Answers
<1>4. Says(f, type, s) <=> type = word /\ s = t
  BY <1>1 DEF Says, FreshIds
<1>5. QED
  BY <1>3, <1>4 DEF Said, Says

LEMMA ReaderSeen ==
  ASSUME FreshIds, TypeInv, TypeInv', Channels, AskFirst, Reader, NEW s \in Sub
  PROVE  Seen(s)
<1>0. /\ table \in [Id -> Sub \cup {NoSub}] /\ NoSub \notin Sub
      /\ \A t \in Sub : IdOf[t] \in Id
      /\ \A t, u \in Sub : IdOf[t] = IdOf[u] => t = u
      /\ run \in [Sub -> {"none", "run", "close", "remove", "ended"}]
      /\ Once /\ AskedOnce /\ WaitsAsked /\ StartedOnce /\ TableOwn
  BY IdOfType, ConnectionAssumption
  DEF ConnectionAssumption, TypeInv, TypeOK, FreshIds, Channels
<1>1. \A place \in {"read", "ended"} : At(place).at = place
  BY PlaceTypesOK
<1>2. CASE ReadPong
  <2>1. Head(inbox) = Pong
    BY <1>2, TakesType, RequestFacts DEF ReadPong, Takes
  <2>2. SameFrames(s)
    BY <1>0, <1>2, <2>1, TakesFrames, RequestFacts DEF ReadPong
  <2>3. SameEntry(s) /\ SameWords(s) /\ UNCHANGED run
    BY <1>2 DEF ReadPong, chans, SameEntry, Has, SameWords, Said, Says, Answers
  <2>4. QED
    BY <2>2, <2>3 DEF Seen, Quiet
<1>3. CASE ReadSubscribe
  <2> DEFINE t == Head(inbox).sub
  <2>1. t \in Waits /\ t \in Sub /\ Head(inbox) = Subscribe(t) /\ reader.at = "read"
    BY <1>0, <1>3, TakesOnce, TakesType, RequestFacts DEF ReadSubscribe, Takes
  <2> HIDE DEF t
  <2>2. table[IdOf[t]] # t
    BY <1>0, <2>1 DEF AskedOnce, New
  <2>3. table[IdOf[t]] = NoSub
    BY <1>0, <2>1, <2>2 DEF TableOwn
  <2>4. table' = [table EXCEPT ![IdOf[t]] = t] /\ reader' = [At("start") EXCEPT !.sub = t]
    BY <1>3, <2>3 DEF ReadSubscribe, t
  <2>5. SameWords(s) /\ UNCHANGED run
    <3>1. UNCHANGED <<send, run>> /\ reader'.at = "start"
      BY <1>3, <2>1, <2>4, PlaceTypesOK DEF ReadSubscribe
    <3>2. QED
      BY <2>1, <3>1 DEF SameWords, Said, Says, Answers
  <2>6. CASE s = t
    <3>1. Has(s)'
      BY <1>0, <2>4, <2>6 DEF Has
    <3>2. s \in Waits /\ s \notin Waits' /\ (Withdrawn(s)' <=> Withdrawn(s))
      BY <1>0, <1>3, <2>1, <2>6, TakesFrames DEF ReadSubscribe
    <3>3. QED
      BY <2>5, <3>1, <3>2 DEF Seen, Registers
  <2>7. CASE s # t
    <3>1. SameEntry(s)
      BY <1>0, <2>1, <2>4, <2>7 DEF SameEntry, Has
    <3>2. SameFrames(s)
      BY <1>0, <1>3, <2>1, <2>7, TakesFrames, RequestFacts DEF ReadSubscribe
    <3>3. QED
      BY <2>5, <3>1, <3>2 DEF Seen, Quiet
  <2>8. QED
    BY <2>6, <2>7
<1>4. CASE ReadUnsubscribe
  <2> DEFINE t == Head(inbox).sub
  <2>1. t \in Sub /\ Head(inbox) = Unsubscribe(t) /\ reader.at = "read"
    BY <1>4, TakesType, RequestFacts DEF ReadUnsubscribe, Takes
  <2>2. UNCHANGED <<conn, send, run>>
    BY <1>4 DEF ReadUnsubscribe
  <2>3. PICK word \in {"error", "closed"} :
           /\ reader' = Answer(Frame(word, IdOf[t], 0))
           /\ \/ table[IdOf[t]] = NoSub /\ UNCHANGED table
              \/ table' = [table EXCEPT ![IdOf[t]] = NoSub]
    BY <1>4 DEF ReadUnsubscribe
  <2> HIDE DEF t
  <2>4. \A type : Said(type, s)' <=> Said(type, s) \/ (type = word /\ s = t)
    BY <2>1, <2>2, <2>3, AnswerWords
  <2>5. table'[IdOf[t]] = NoSub /\ \A u \in Sub : u # t => table'[IdOf[u]] = table[IdOf[u]]
    BY <1>0, <2>1, <2>3
  <2>6. CASE s = t
    <3>1. Withdrawn(s) /\ (s \in Waits' <=> s \in Waits)
      BY <1>0, <1>4, <2>1, <2>6, TakesFrames DEF ReadUnsubscribe
    <3>2. s \notin Waits
      <4>1. inbox \in Seq(Requests) /\ inbox # <<>>
        BY <1>4 DEF ReadUnsubscribe, Takes, TypeInv, TypeOK
      <4>2. inbox[1] = Unsubscribe(s) /\ 1 \in DOMAIN inbox /\ ~ \E k \in DOMAIN inbox : k < 1
        BY <2>1, <2>6, <4>1
      <4>3. Subscribe(s) \notin ToSet(inbox)
        BY <4>2 DEF AskFirst, ToSet
      <4>4. QED
        BY <4>1, <4>3, WaitsFrames DEF Waits
    <3>3. ~Has(s)'
      BY <1>0, <2>5, <2>6 DEF Has
    <3>4. Refuses(s, word)
      BY <2>2, <2>4, <2>6, <3>1, <3>2, <3>3 DEF Refuses, AskFirst
    <3>5. QED
      BY <3>4 DEF Seen
  <2>7. CASE s # t
    <3>1. SameEntry(s) /\ SameWords(s)
      BY <2>1, <2>4, <2>5, <2>7 DEF SameEntry, Has, SameWords
    <3>2. SameFrames(s)
      BY <1>0, <1>4, <2>1, <2>7, TakesFrames, RequestFacts DEF ReadUnsubscribe
    <3>3. QED
      BY <2>2, <3>1, <3>2 DEF Seen, Quiet
  <2>8. QED
    BY <2>6, <2>7
<1>5. CASE StartChannel
  <2> DEFINE f == Frame("subscribed", IdOf[reader.sub], 0)
  <2>1. f \in Frames /\ f.type = "subscribed" /\ reader.sub \in Sub
    BY <1>5, IdOfType, FrameTypesOK DEF StartChannel, TypeInv, Starting, Frame, FrameTypes
  <2>2. Enqueue(f) /\ "reply" \notin {reader.at, reader'.at}
    BY <1>1, <1>5 DEF StartChannel
  <2> HIDE DEF f
  <2>3. SameWords(s)
    BY <2>1, <2>2, EnqueueWords
  <2>4. SameFrames(s) /\ SameEntry(s)
    BY <1>5 DEF StartChannel, SameFrames, SameEntry, Waits, Withdrawn, Has
  <2>5. run[reader.sub] = "none" /\ run' = [run EXCEPT ![reader.sub] = "run"]
    BY <1>0, <1>5 DEF StartChannel, StartedOnce
  <2>6. run'[s] = run[s] \/ "remove" \notin {run[s], run'[s]}
    BY <1>0, <2>1, <2>5
  <2>7. QED
    BY <2>3, <2>4, <2>6 DEF Seen, Quiet
<1>6. CASE StartFails
  <2> DEFINE t == reader.sub
  <2>1. t \in Sub /\ StartsNow(t) /\ reader.at = "start"
    BY <1>6 DEF StartFails, TypeInv, Starting, StartsNow
  <2>2. UNCHANGED <<conn, inbox, send, run>> /\ table' = [table EXCEPT ![IdOf[t]] = NoSub]
    BY <1>6 DEF StartFails
  <2>3. reader' = Answer(Frame("error", IdOf[t], 0))
    BY <1>6 DEF StartFails
  <2> HIDE DEF t
  <2>4. \A type : Said(type, s)' <=> Said(type, s) \/ (type = "error" /\ s = t)
    BY <2>1, <2>2, <2>3, AnswerWords
  <2>5. SameFrames(s)
    BY <2>2 DEF SameFrames, Waits, Withdrawn
  <2>6. CASE s = t
    <3>1. s \in asked \ Waits /\ ~Has(s)'
      BY <1>0, <2>1, <2>2, <2>6 DEF AskedOnce, Has
    <3>2. QED
      BY <2>2, <2>4, <2>5, <2>6, <3>1 DEF Seen, Refuses, SameFrames
  <2>7. CASE s # t
    <3>1. SameEntry(s) /\ SameWords(s)
      BY <1>0, <2>1, <2>2, <2>4, <2>7 DEF SameEntry, Has, SameWords
    <3>2. QED
      BY <2>2, <2>5, <3>1 DEF Seen, Quiet
  <2>8. QED
    BY <2>6, <2>7
<1>7. CASE Reply
  <2>1. reader.out \in Frames /\ send \in Seq(Frames)
    BY DEF TypeInv, TypeOK, Places
  <2>2. ToSet(Append(send, reader.out)) = ToSet(send) \cup {reader.out}
    BY <2>1, QueueSets
  <2>3. reader'.at = "read" /\ reader.at = "reply"
    BY <1>1, <1>7 DEF Reply
  <2>4. send' = Append(send, reader.out) \/ (conn' = "done" /\ UNCHANGED send)
    BY <1>7 DEF Reply, Enqueue
  <2>5. SameWords(s)
    BY <2>2, <2>3, <2>4 DEF SameWords, Said, Says, Answers
  <2>6. SameFrames(s) /\ SameEntry(s) /\ UNCHANGED run
    BY <1>7 DEF Reply, chans, SameFrames, SameEntry, Waits, Withdrawn, Has
  <2>7. QED
    BY <2>5, <2>6 DEF Seen, Quiet
<1>8. CASE ReadEnds
  <2>1. Close /\ reader.at = "read" /\ reader'.at = "ended" /\ UNCHANGED <<table, run>>
    BY <1>1, <1>8 DEF ReadEnds, chans
  <2>2. ToSet(send') = {} /\ ToSet(inbox') = {} /\ Waits' = {} /\ conn' = "done"
    BY <2>1, CloseOnce DEF Close, ToSet
  <2>3. QED
    BY <2>1, <2>2 DEF Seen, Drops, SameEntry, SameWords, Said, Answers, Has, Withdrawn
<1>9. QED
  BY <1>2, <1>3, <1>4, <1>5, <1>6, <1>7, <1>8 DEF Reader

LEMMA ServeSeen ==
  ASSUME FreshIds, TypeInv, TypeInv', Channels, NEW t \in Sub, Serve(t), NEW s \in Sub
  PROVE  Seen(s)
<1>0. /\ table \in [Id -> Sub \cup {NoSub}] /\ NoSub \notin Sub
      /\ send \in Seq(Frames) /\ IdOf[t] \in Id /\ IdOf[s] \in Id /\ seq[t] + 1 \in Nat
      /\ IdOf[s] = IdOf[t] => s = t
      /\ run \in [Sub -> {"none", "run", "close", "remove", "ended"}]
      /\ AskedOnce
  BY IdOfType, ConnectionAssumption
  DEF ConnectionAssumption, TypeInv, TypeOK, FreshIds, Channels
<1>1. UNCHANGED <<conn, inbox, reader>> /\ SameFrames(s)
  BY DEF Serve, Emit, Leave, SourceEnds, CloseChannel, RemoveChannel, loops, SameFrames, Waits, Withdrawn
<1>2. CASE Emit(t)
  <2>1. Event(t) \in Frames /\ Event(t).type = "event"
    BY <1>0, FrameTypesOK DEF Event, Frame, FrameTypes
  <2>2. Enqueue(Event(t)) /\ UNCHANGED <<table, run>>
    BY <1>2 DEF Emit, Enqueue
  <2>3. SameWords(s)
    BY <1>1, <2>1, <2>2, EnqueueWords
  <2>4. QED
    BY <1>1, <2>2, <2>3 DEF Seen, Quiet, SameEntry, Has
<1>3. CASE Leave(t) \/ SourceEnds(t)
  <2>1. UNCHANGED <<send, table>> /\ run[t] = "run" /\ run' = [run EXCEPT ![t] = run'[t]] /\ run'[t] # "remove"
    BY <1>0, <1>3 DEF Leave, SourceEnds, GoRun
  <2>2. SameEntry(s) /\ SameWords(s)
    BY <1>1, <2>1 DEF SameEntry, Has, SameWords, Said, Says, Answers
  <2>3. run'[s] = run[s] \/ "remove" \notin {run[s], run'[s]}
    BY <1>0, <2>1
  <2>4. QED
    BY <1>1, <2>2, <2>3 DEF Seen, Quiet
<1>4. CASE CloseChannel(t)
  <2> DEFINE f == Frame("closed", IdOf[t], 0)
  <2>1. f \in Frames /\ f.type = "closed" /\ f.id = IdOf[t]
    BY <1>0, FrameTypesOK DEF Frame, FrameTypes
  <2>2. /\ run[t] = "close" /\ run' = [run EXCEPT ![t] = "remove"] /\ UNCHANGED table
        /\ (send' = Append(send, f) \/ (conn' = "done" /\ UNCHANGED send))
    BY <1>1, <1>4 DEF CloseChannel, GoRun, Enqueue
  <2> HIDE DEF f
  <2>3. ToSet(Append(send, f)) = ToSet(send) \cup {f}
    BY <1>0, <2>1, QueueSets
  <2>4. Answers' = Answers \cup {f} \/ (conn' = "done" /\ Answers' = Answers)
    BY <1>1, <2>2, <2>3 DEF Answers
  <2>5. \A type : Says(f, type, s) <=> type = "closed" /\ s = t
    BY <1>0, <2>1 DEF Says
  <2>6. SameEntry(s)
    BY <2>2 DEF SameEntry, Has
  <2>7. CASE s = t
    <3>1. s \in asked \ Waits
      BY <1>0, <2>2, <2>7 DEF AskedOnce, New
    <3>2. run'[s] = "remove"
      BY <1>0, <2>2, <2>7
    <3>3. SaysClosed(s)
      BY <1>1, <2>4, <2>5, <2>6, <2>7, <3>1, <3>2 DEF SaysClosed, Said, Says
    <3>4. QED
      BY <3>3 DEF Seen
  <2>8. CASE s # t
    <3>1. SameWords(s) /\ run'[s] = run[s]
      BY <1>0, <2>2, <2>4, <2>5, <2>8 DEF SameWords, Said, Says
    <3>2. QED
      BY <1>1, <2>6, <3>1 DEF Seen, Quiet
  <2>9. QED
    BY <2>7, <2>8
<1>5. CASE RemoveChannel(t)
  <2>1. /\ run[t] = "remove" /\ run' = [run EXCEPT ![t] = "ended"] /\ UNCHANGED send
        /\ table' = [table EXCEPT ![IdOf[t]] = NoSub]
    BY <1>5 DEF RemoveChannel, GoRun
  <2>2. SameWords(s)
    BY <1>1, <2>1 DEF SameWords, Said, Says, Answers
  <2>3. CASE s = t
    BY <1>0, <1>1, <2>1, <2>2, <2>3 DEF Seen, TakesOut, Has
  <2>4. CASE s # t
    BY <1>0, <1>1, <2>1, <2>2, <2>4 DEF Seen, Quiet, SameEntry, Has
  <2>5. QED
    BY <2>3, <2>4
<1>6. QED
  BY <1>2, <1>3, <1>4, <1>5 DEF Serve

LEMMA ServerSeen ==
  ASSUME FreshIds, TypeInv, TypeInv', Channels, AskFirst, Server, NEW s \in Sub
  PROVE  Seen(s)
<1>1. CASE Tick \/ WriteFails
  <2>1. UNCHANGED <<table, run, reader>> /\ (Close \/ UNCHANGED <<conn, send, inbox>>)
    BY <1>1 DEF Tick, WriteFails, chans, loops
  <2>2. CASE Close
    <3>1. ToSet(send') = {} /\ ToSet(inbox') = {} /\ Waits' = {} /\ conn' = "done"
      BY <2>2, CloseOnce DEF Close, ToSet
    <3>2. QED
      BY <2>1, <3>1 DEF Seen, Drops, SameEntry, SameWords, Said, Says, Answers, Has, Withdrawn
  <2>3. CASE UNCHANGED <<conn, send, inbox>>
    BY <2>1, <2>3
    DEF Seen, Quiet, SameFrames, SameEntry, SameWords, Said, Says, Answers, Has, Withdrawn, Waits
  <2>4. QED
    BY <2>1, <2>2, <2>3
<1>2. CASE SendPing
  <2>1. Ping \in Frames /\ Ping.type = "ping"
    BY FrameTypesOK DEF Ping, Frame
  <2>2. Enqueue(Ping) /\ UNCHANGED <<conn, inbox, reader, table, run>>
    BY <1>2 DEF SendPing, chans
  <2>3. SameWords(s)
    BY <2>1, <2>2, EnqueueWords
  <2>4. QED
    BY <2>2, <2>3 DEF Seen, Quiet, SameFrames, SameEntry, Has, Withdrawn, Waits
<1>3. CASE PingEnds
  BY <1>3
  DEF PingEnds, chans, Seen, Quiet, SameFrames, SameEntry, SameWords, Said, Says, Answers, Has, Withdrawn, Waits
<1>4. CASE Input
  BY <1>4, InputFacts
  DEF Seen, Quiet, SameFrames, SameEntry, SameWords, Said, Says, Answers, Has, Withdrawn, Waits
<1>5. QED
  BY <1>1, <1>2, <1>3, <1>4, ReaderSeen, ServeSeen DEF Server, Pinger

LEMMA InitSpoken == Init => Spoken
<1> SUFFICES ASSUME Init PROVE Spoken
  OBVIOUS
<1>1. reader.at = "ended"
  BY PlaceTypesOK DEF Init
<1>2. Answers = {} /\ ToSet(inbox) = {} /\ inbox = <<>>
  BY <1>1 DEF Init, Answers, ToSet
<1>3. \A s \in Sub : seq[s] = 0
  BY DEF Init
<1>4. QED
  BY <1>2, <1>3, ConnectionAssumption
  DEF ConnectionAssumption, Spoken, Sourced, Counted, AskFirst, Refusal, Ending, Said, Withdrawn

\* A closed connection has nothing more to say, and a frame at the end of the inbox
\* comes after all the others.
LEMMA InboxAskFirst ==
  ASSUME TypeInv, AskFirst, asked \subseteq asked',
         \/ inbox' = inbox \/ inbox' = <<>> \/ (inbox # <<>> /\ inbox' = Tail(inbox))
         \/ inbox' = Append(inbox, Pong)
         \/ \E s \in Sub : inbox' = Append(inbox, Subscribe(s)) /\ s \notin asked
         \/ \E s \in asked : inbox' = Append(inbox, Unsubscribe(s))
  PROVE  AskFirst'
<1>0. inbox \in Seq(Requests) /\ asked \subseteq Sub
  BY DEF TypeInv, TypeOK
<1>1. CASE inbox' = inbox
  BY <1>1 DEF AskFirst, Withdrawn
<1>2. CASE inbox' = <<>>
  BY <1>2, QueueSets DEF AskFirst, Withdrawn, ToSet
<1>3. CASE inbox # <<>> /\ inbox' = Tail(inbox)
  <2>1. ToSet(inbox') \subseteq ToSet(inbox)
    BY <1>0, <1>3, QueueSets
  <2>2. \A k \in DOMAIN inbox' : k \in Nat /\ k + 1 \in DOMAIN inbox /\ inbox'[k] = inbox[k + 1]
    BY <1>0, <1>3
  <2>3. QED
    BY <2>1, <2>2 DEF AskFirst, Withdrawn
<1>4. ASSUME NEW r \in Requests, inbox' = Append(inbox, r),
             \A s \in Sub : r = Subscribe(s) => s \notin asked,
             \A s \in Sub : r = Unsubscribe(s) => s \in asked
      PROVE  AskFirst'
  <2> DEFINE n == Len(inbox) + 1
  <2>1. /\ DOMAIN inbox' = DOMAIN inbox \cup {n} /\ inbox'[n] = r
        /\ \A k \in DOMAIN inbox : k \in Nat /\ k < n /\ inbox'[k] = inbox[k]
        /\ n \in Nat
    BY <1>0, <1>4
  <2> HIDE DEF n
  <2>2. ASSUME NEW s \in Sub
        PROVE  Withdrawn(s)' => s \in asked'
    BY <1>4, <2>1, <2>2 DEF AskFirst, Withdrawn, ToSet
  <2>3. ASSUME NEW s \in Sub, NEW j \in DOMAIN inbox', NEW k \in DOMAIN inbox',
               inbox'[j] = Unsubscribe(s), inbox'[k] = Subscribe(s)
        PROVE  k < j
    <3>1. Subscribe(s) # Unsubscribe(s)
      BY RequestFacts
    <3>2. CASE k = n
      <4>1. j \in DOMAIN inbox /\ inbox[j] = Unsubscribe(s)
        BY <2>1, <2>3, <3>1, <3>2
      <4>2. s \in asked
        BY <4>1 DEF AskFirst, Withdrawn, ToSet
      <4>3. QED
        BY <1>4, <2>1, <2>3, <3>2, <4>2
    <3>3. CASE k # n
      BY <2>1, <2>3, <3>3 DEF AskFirst
    <3>4. QED
      BY <3>2, <3>3
  <2>4. QED
    BY <2>2, <2>3 DEF AskFirst
<1>5. Pong \in Requests /\ \A s \in Sub : Subscribe(s) \in Requests /\ Unsubscribe(s) \in Requests
  BY RequestTypesOK
<1>6. CASE inbox' = Append(inbox, Pong)
  BY <1>4, <1>5, <1>6, RequestFacts
<1>7. ASSUME NEW s \in Sub, inbox' = Append(inbox, Subscribe(s)), s \notin asked
      PROVE  AskFirst'
  BY <1>4, <1>5, <1>7, RequestFacts
<1>8. ASSUME NEW s \in asked, inbox' = Append(inbox, Unsubscribe(s))
      PROVE  AskFirst'
  <2>1. s \in Sub
    BY <1>0
  <2>2. QED
    BY <1>4, <1>5, <1>8, <2>1, RequestFacts
<1>9. QED
  BY <1>1, <1>2, <1>3, <1>6, <1>7, <1>8

LEMMA KnownFrames ==
  /\ Known(Hello) /\ Known(Ping)
  /\ \A s \in Sub, n \in Nat, type \in FrameTypes : Known(Frame(type, IdOf[s], n))
BY DEF Known, Hello, Ping, Frame

\* A step that queues nothing, or a frame that is known, and leaves a known answer.
LEMMA StaysSourced ==
  ASSUME TypeInv, Sourced,
         \/ send' = send \/ send' = <<>> \/ (send # <<>> /\ send' = Tail(send))
         \/ \E f \in Frames : Enqueue(f) /\ Known(f),
         reader' = reader \/ reader'.at # "reply" \/ \E f \in Frames : reader' = Answer(f) /\ Known(f)
  PROVE  Sourced'
<1>0. send \in Seq(Frames)
  BY DEF TypeInv, TypeOK
<1>1. \A f \in ToSet(send') : Known(f)
  <2>1. \A f \in ToSet(send) : Known(f)
    BY DEF Sourced, Answers
  <2>2. CASE send' = send \/ send' = <<>> \/ (send # <<>> /\ send' = Tail(send))
    BY <1>0, <2>1, <2>2, QueueSets
  <2>3. ASSUME NEW f \in Frames, Enqueue(f), Known(f)
        PROVE  \A g \in ToSet(send') : Known(g)
    <3>1. ToSet(Append(send, f)) = ToSet(send) \cup {f}
      BY <1>0, QueueSets
    <3>2. QED
      BY <2>1, <2>3, <3>1 DEF Enqueue
  <2>4. QED
    BY <2>2, <2>3
<1>2. reader'.at = "reply" => Known(reader'.out)
  <2>1. CASE reader' = reader
    BY <2>1 DEF Sourced, Answers
  <2>2. ASSUME NEW f \in Frames, reader' = Answer(f), Known(f)
        PROVE  Known(reader'.out)
    BY <2>2, PlaceTypesOK
  <2>3. QED
    BY <2>1, <2>2
<1>3. QED
  BY <1>1, <1>2 DEF Sourced, Answers, Known

LEMMA ServerSourced ==
  ASSUME TypeInv, Sourced, Server
  PROVE  Sourced'
<1>1. /\ \A place \in {"read", "ended"} : At(place).at = place
      /\ \A s \in Sub : [At("start") EXCEPT !.sub = s].at = "start"
  BY PlaceTypesOK
<1>2. \A s \in Sub, type \in FrameTypes : Frame(type, IdOf[s], 0) \in Frames /\ Known(Frame(type, IdOf[s], 0))
  BY IdOfType, FrameTypesOK, KnownFrames
<1>3. {"error", "closed", "subscribed"} \subseteq FrameTypes
  BY DEF FrameTypes
<1>4. CASE ReadPong \/ ReadEnds \/ PingEnds \/ Tick \/ WriteFails
  <2>1. send' = send \/ send' = <<>>
    BY <1>4 DEF ReadPong, ReadEnds, PingEnds, Tick, WriteFails, Close
  <2>2. reader' = reader \/ reader'.at # "reply"
    BY <1>1, <1>4 DEF ReadPong, ReadEnds, PingEnds, Tick, WriteFails, loops
  <2>3. QED
    BY <2>1, <2>2, StaysSourced
<1>5. CASE ReadSubscribe
  <2>1. Head(inbox).sub \in Sub
    BY <1>5, TakesType DEF ReadSubscribe
  <2>2. reader'.at # "reply" \/ reader' = Answer(Frame("error", IdOf[Head(inbox).sub], 0))
    BY <1>1, <1>5, <2>1 DEF ReadSubscribe
  <2>3. UNCHANGED send
    BY <1>5 DEF ReadSubscribe
  <2>4. QED
    BY <1>2, <1>3, <2>1, <2>2, <2>3, StaysSourced
<1>6. CASE ReadUnsubscribe
  <2>1. Head(inbox).sub \in Sub
    BY <1>6, TakesType DEF ReadUnsubscribe
  <2>2. \E type \in {"error", "closed"} : reader' = Answer(Frame(type, IdOf[Head(inbox).sub], 0))
    BY <1>6 DEF ReadUnsubscribe
  <2>3. UNCHANGED send
    BY <1>6 DEF ReadUnsubscribe
  <2>4. QED
    BY <1>2, <1>3, <2>1, <2>2, <2>3, StaysSourced
<1>7. CASE StartChannel
  <2>1. reader.sub \in Sub /\ Enqueue(Frame("subscribed", IdOf[reader.sub], 0)) /\ reader'.at = "read"
    BY <1>1, <1>7 DEF StartChannel, TypeInv, Starting
  <2>2. QED
    BY <1>2, <1>3, <2>1, StaysSourced
<1>8. CASE StartFails
  <2>1. reader.sub \in Sub /\ reader' = Answer(Frame("error", IdOf[reader.sub], 0)) /\ UNCHANGED send
    BY <1>8 DEF StartFails, TypeInv, Starting
  <2>2. QED
    BY <1>2, <1>3, <2>1, StaysSourced
<1>9. CASE Reply
  <2>1. reader.out \in Frames /\ Known(reader.out)
    BY <1>9 DEF Reply, TypeInv, TypeOK, Places, Sourced, Answers
  <2>2. Enqueue(reader.out) /\ reader'.at = "read"
    BY <1>1, <1>9 DEF Reply
  <2>3. QED
    BY <2>1, <2>2, StaysSourced
<1>10. CASE SendPing
  <2>1. Ping \in Frames /\ Known(Ping) /\ Enqueue(Ping) /\ UNCHANGED reader
    BY <1>10, FrameTypesOK, KnownFrames DEF SendPing
  <2>2. QED
    BY <2>1, StaysSourced
<1>11. ASSUME NEW s \in Sub, Serve(s) PROVE Sourced'
  <2>1. UNCHANGED reader
    BY <1>11 DEF Serve, Emit, Leave, SourceEnds, CloseChannel, RemoveChannel, loops
  <2>2. CASE Emit(s)
    <3>1. Event(s) \in Frames /\ Known(Event(s))
      BY IdOfType, FrameTypesOK, KnownFrames DEF Event, FrameTypes, TypeInv, TypeOK
    <3>2. Enqueue(Event(s))
      BY <2>2 DEF Emit, Enqueue
    <3>3. QED
      BY <2>1, <3>1, <3>2, StaysSourced
  <2>3. CASE CloseChannel(s)
    <3>1. Enqueue(Frame("closed", IdOf[s], 0))
      BY <2>3 DEF CloseChannel
    <3>2. QED
      BY <1>2, <1>3, <2>1, <3>1, StaysSourced
  <2>4. CASE Leave(s) \/ SourceEnds(s) \/ RemoveChannel(s)
    <3>1. UNCHANGED send
      BY <2>4 DEF Leave, SourceEnds, RemoveChannel
    <3>2. QED
      BY <2>1, <3>1, StaysSourced
  <2>5. QED
    BY <1>11, <2>2, <2>3, <2>4 DEF Serve
<1>12. CASE Input
  BY <1>12, InputFacts, StaysSourced
<1>13. QED
  BY <1>4, <1>5, <1>6, <1>7, <1>8, <1>9, <1>10, <1>11, <1>12 DEF Server, Reader, Pinger

\* The number of a channel's last event moves with the events alone.
LEMMA ServerCounted ==
  ASSUME TypeInv, Counted, Server
  PROVE  Counted' /\ UNCHANGED asked
<1>0. /\ run \in [Sub -> {"none", "run", "close", "remove", "ended"}] /\ seq \in [Sub -> Nat]
      /\ MaxEvents \in Nat /\ (reader.at = "start" => reader.sub \in Sub)
  BY ConnectionAssumption DEF ConnectionAssumption, TypeInv, TypeOK, Starting
<1>1. CASE Reader \/ Pinger \/ WriteFails
  <2>1. UNCHANGED <<seq, asked>>
    BY <1>1
    DEF Reader, ReadPong, ReadSubscribe, ReadUnsubscribe, StartChannel, StartFails, Reply, ReadEnds,
        Pinger, Tick, SendPing, PingEnds, WriteFails, chans, loops
  <2>2. \A s \in Sub : run'[s] = "none" => run[s] = "none"
    BY <1>0, <1>1
    DEF Reader, ReadPong, ReadSubscribe, ReadUnsubscribe, StartChannel, StartFails, Reply, ReadEnds,
        Pinger, Tick, SendPing, PingEnds, WriteFails, chans, loops
  <2>3. QED
    BY <2>1, <2>2 DEF Counted
<1>2. ASSUME NEW s \in Sub, Serve(s) PROVE Counted' /\ UNCHANGED asked
  <2>1. CASE Emit(s)
    BY <1>0, <2>1 DEF Emit, loops, Counted
  <2>2. CASE ~Emit(s)
    <3>1. UNCHANGED <<seq, asked>>
      BY <1>2, <2>2 DEF Serve, Leave, SourceEnds, CloseChannel, RemoveChannel
    <3>2. \A t \in Sub : run'[t] = "none" => run[t] = "none"
      BY <1>0, <1>2, <2>2 DEF Serve, Leave, SourceEnds, CloseChannel, RemoveChannel, GoRun
    <3>3. QED
      BY <3>1, <3>2 DEF Counted
  <2>3. QED
    BY <2>1, <2>2
<1>3. CASE Input
  BY <1>3, InputFacts DEF Counted
<1>4. QED
  BY <1>1, <1>2, <1>3 DEF Server

LEMMA ServerSpoken ==
  ASSUME FreshIds, TypeInv, TypeInv', Channels, Spoken, Server
  PROVE  Spoken'
<1>1. Sourced' /\ Counted' /\ UNCHANGED asked
  BY ServerSourced, ServerCounted DEF Spoken
<1>2. AskFirst'
  <2>1. inbox' = inbox \/ inbox' = <<>> \/ (inbox # <<>> /\ inbox' = Tail(inbox))
    BY InputFacts
    DEF Server, Reader, ReadPong, ReadSubscribe, ReadUnsubscribe, StartChannel, StartFails, Reply, ReadEnds,
           Pinger, Tick, SendPing, PingEnds, WriteFails, Takes, Close,
           Serve, Emit, Leave, SourceEnds, CloseChannel, RemoveChannel
  <2>2. QED
    BY <1>1, <2>1, InboxAskFirst DEF Spoken
<1>3. ASSUME NEW s \in Sub
      PROVE  Refusal(s)' /\ Ending(s)'
  <2>1. Seen(s) /\ Refusal(s) /\ Ending(s)
    BY ServerSeen DEF Spoken
  <2>2. CASE Quiet(s)
    BY <1>1, <2>1, <2>2 DEF Quiet, SameFrames, SameEntry, SameWords, Refusal, Ending
  <2>3. CASE Drops(s)
    BY <1>1, <2>1, <2>3 DEF Drops, SameEntry, SameWords, Refusal, Ending
  <2>4. CASE Registers(s)
    BY <1>1, <2>1, <2>4 DEF Registers, SameWords, Refusal, Ending
  <2>5. CASE Refuses(s, "error") \/ Refuses(s, "closed")
    BY <1>1, <2>1, <2>5 DEF Refuses, Refusal, Ending
  <2>6. CASE SaysClosed(s)
    BY <1>1, <2>1, <2>6 DEF SaysClosed, SameFrames, SameEntry, Refusal, Ending
  <2>7. CASE TakesOut(s)
    BY <1>1, <2>1, <2>7 DEF TakesOut, SameFrames, SameWords, Refusal, Ending
  <2>8. QED
    BY <2>1, <2>2, <2>3, <2>4, <2>5, <2>6, <2>7 DEF Seen
<1>4. QED
  BY <1>1, <1>2, <1>3 DEF Spoken

LEMMA ConnectClean ==
  ASSUME TypeInv, Connect
  PROVE  /\ Answers' = {Hello} /\ \A s \in Sub : ~Has(s)' /\ ~Withdrawn(s)'
         /\ \A s \in Sub, type \in {"event", "error", "closed"} : ~Said(type, s)'
         /\ \A s \in Sub : run'[s] = "none" /\ seq'[s] = 0
<1>1. /\ send' = <<Hello>> /\ reader'.at = "read" /\ table' = [i \in Id |-> NoSub]
      /\ run' = [s \in Sub |-> "none"] /\ seq' = [s \in Sub |-> 0]
  BY PlaceTypesOK DEF Connect, Accept
<1>2. Answers' = {Hello}
  <2>1. ToSet(<<Hello>>) = {Hello}
    BY DEF ToSet
  <2>2. QED
    BY <1>1, <2>1 DEF Answers
<1>3. \A s \in Sub, type \in {"event", "error", "closed"} : ~Said(type, s)'
  BY <1>2 DEF Said, Says, Hello, Frame
<1>4. \A s \in Sub : ~Has(s)'
  BY <1>1, IdOfType, ConnectionAssumption DEF ConnectionAssumption, Has
<1>5. \A s \in Sub : ~Withdrawn(s)'
  <2>1. inbox' \in Seq({Subscribe(s) : s \in Sub})
    BY DEF Connect
  <2>2. \A k \in DOMAIN inbox' : inbox'[k] \in {Subscribe(s) : s \in Sub}
    BY <2>1
  <2>3. QED
    BY <2>2, RequestFacts DEF Withdrawn, ToSet
<1>6. QED
  BY <1>1, <1>2, <1>3, <1>4, <1>5

LEMMA ClientSpoken ==
  ASSUME TypeInv, TypeInv', Channels, Channels', Spoken, Client
  PROVE  Spoken'
<1>0. inbox \in Seq(Requests) /\ send \in Seq(Frames) /\ MaxEvents \in Nat
  BY ConnectionAssumption DEF ConnectionAssumption, TypeInv, TypeOK
<1>1. CASE Connect
  <2>1. Sourced' /\ Counted' /\ \A s \in Sub : Refusal(s)' /\ Ending(s)'
    BY <1>0, <1>1, ConnectClean, KnownFrames DEF Sourced, Known, Counted, Refusal, Ending
  <2>2. AskFirst'
    <3>1. \A s \in Sub : Unsubscribe(s) \notin ToSet(inbox')
      BY <1>1, ConnectClean DEF Withdrawn
    <3>2. QED
      BY <3>1 DEF AskFirst, Withdrawn, ToSet
  <2>3. QED
    BY <2>1, <2>2 DEF Spoken
<1>2. ASSUME Client, ~Connect
      PROVE  Spoken'
  <2>1. UNCHANGED <<table, run, seq, reader>> /\ asked \subseteq asked' /\ Counted'
    BY <1>2 DEF Client, HangUp, GoSilent, Receive, AskFor, GiveUp, chans, loops, Spoken, Counted
  <2>2. send' = send \/ (send # <<>> /\ send' = Tail(send))
    BY <1>2 DEF Client, HangUp, GoSilent, Receive, AskFor, GiveUp
  <2>3. Sourced'
    BY <2>1, <2>2, StaysSourced DEF Spoken
  <2>4. AskFirst'
    <3>1. \/ inbox' = inbox \/ inbox' = Append(inbox, Pong)
          \/ \E s \in Sub : inbox' = Append(inbox, Subscribe(s)) /\ s \notin asked
          \/ \E s \in asked : inbox' = Append(inbox, Unsubscribe(s))
      BY <1>2 DEF Client, HangUp, GoSilent, Receive, AskFor, GiveUp
    <3>2. QED
      BY <2>1, <3>1, InboxAskFirst DEF Spoken
  <2>5. ToSet(send') \subseteq ToSet(send)
    BY <1>0, <2>2, QueueSets
  <2>6. Answers' \subseteq Answers
    BY <2>1, <2>5 DEF Answers
  <2>7. ASSUME NEW s \in Sub
        PROVE  Refusal(s)' /\ Ending(s)'
    <3>1. /\ \A type \in {"error", "closed"} : Said(type, s)' => Said(type, s)
          /\ Has(s)' <=> Has(s)
      BY <2>1, <2>6 DEF Said, Says, Has
    <3>2. s \in asked /\ s \notin Waits => s \notin Waits'
      <4>1. CASE \E t \in Sub : AskFor(t)
        <5>1. PICK t \in Sub : AskFor(t)
          BY <4>1
        <5>2. t \notin Waits /\ Once
          BY <5>1 DEF Channels, WaitsAsked, AskFor
        <5>3. Waits' = Waits \cup {t}
          BY <5>1, <5>2, AppendOnce, RequestFacts, RequestTypesOK DEF AskFor
        <5>4. QED
          BY <5>1, <5>3 DEF AskFor
      <4>2. CASE ~ \E t \in Sub : AskFor(t)
        <5>1. inbox' = inbox \/ \E r \in Requests : r.type # "subscribe" /\ inbox' = Append(inbox, r)
          BY <1>2, <4>2, RequestTypesOK
          DEF Client, HangUp, GoSilent, Receive, GiveUp, Pong, Unsubscribe
        <5>2. CASE inbox' = inbox
          BY <5>2 DEF Waits
        <5>3. CASE \E r \in Requests : r.type # "subscribe" /\ inbox' = Append(inbox, r)
          BY <5>3, AppendOnce DEF Channels
        <5>4. QED
          BY <5>1, <5>2, <5>3
      <4>3. QED
        BY <4>1, <4>2
    <3>3. QED
      BY <2>1, <3>1, <3>2 DEF Spoken, Refusal, Ending
  <2>8. QED
    BY <2>1, <2>3, <2>4, <2>7 DEF Spoken
<1>3. QED
  BY <1>1, <1>2

LEMMA StepSpoken ==
  ASSUME FreshIds, TypeInv, TypeInv', Channels, Channels', Spoken, [Next]_vars
  PROVE  Spoken'
<1>1. CASE UNCHANGED vars
  BY <1>1
  DEF vars, chans, loops, Spoken, Sourced, Known, Counted, AskFirst, Refusal, Ending, Said, Says, Answers, Has,
      Withdrawn, Waits
<1>2. QED
  BY <1>1, ServerSpoken, ClientSpoken DEF Next

-----------------------------------------------------------------------------
(***************************************************************************)
(* The browser.                                                            *)
(***************************************************************************)
BrowserTypes ==
  /\ sock \in {"none", "connecting", "open"} /\ timer \in BOOLEAN /\ faults \in 0..MaxFaults
  /\ life \in [Sub -> {"new", "held", "left"}]
  /\ channels \subseteq {s \in Sub : life[s] = "held"} /\ IsFiniteSet(channels)
  /\ refused \subseteq Sub
  /\ lastSeq \in [Sub -> 0..MaxEvents]

\* What the browser keeps belongs to the connection it has: it has sent what it holds,
\* and it has counted the events of no other connection and of no channel it has left.
Held ==
  /\ NeverStranded
  /\ asked \subseteq {s \in Sub : life[s] # "new"}
  /\ sock = "open" => conn # "none"
  /\ Linked => channels \subseteq asked
  /\ \A s \in Sub : lastSeq[s] # 0 => s \in channels /\ sock = "open"

Following ==
  Linked => \A s \in channels : lastSeq[s] <= seq[s] /\ EventNumbers(s) = (lastSeq[s] + 1)..seq[s]

\* A channel the browser has is asked for, or there, or its end is on its way; one it
\* does not have is being withdrawn, or taken out by its goroutine.
Agrees(s) ==
  /\ s \in refused => s \in asked \ Waits /\ ~Has(s)
  /\ s \in channels \ refused => s \in Waits \/ Has(s) \/ Said("error", s) \/ Said("closed", s)
  /\ run[s] = "remove" => s \notin channels \/ Said("closed", s)
  /\ s \in Waits \/ Has(s) => s \in channels \/ Withdrawn(s) \/ run[s] = "remove"

Agreeing == Linked => \A s \in Sub : Agrees(s)

Connection == TypeInv /\ Channels /\ Queue /\ Spoken

Together == Connection /\ BrowserTypes /\ Held /\ Following /\ Agreeing

LEMMA ConcatFacts ==
  ASSUME NEW S, NEW q \in Seq(S)
  PROVE  q \o <<>> = q /\ \A e \in S : q \o <<e>> = Append(q, e)
OBVIOUS

\* onopen sends one subscribe for each channel.
LEMMA SetToSeqFacts ==
  ASSUME NEW S, IsFiniteSet(S)
  PROVE  /\ SetToSeq(S) \in Seq(S) /\ ToSet(SetToSeq(S)) = S
         /\ \A j, k \in DOMAIN SetToSeq(S) : SetToSeq(S)[j] = SetToSeq(S)[k] => j = k
<1> DEFINE n == Cardinality(S)
           q == SetToSeq(S)
<1>1. n \in Nat /\ ExistsBijection(1..n, S)
  BY FS_CardinalityType
<1>2. \E f \in [1..n -> S] : IsInjective(f)
  BY <1>1 DEF ExistsBijection, Bijection, Injection
<1>3. q \in [1..n -> S] /\ IsInjective(q)
  BY <1>2 DEF SetToSeq
<1>4. q \in Injection(1..n, S)
  BY <1>3 DEF Injection
<1>5. q \in Surjection(1..n, S)
  <2>1. IsFiniteSet(1..n) /\ Cardinality(1..n) = n
    BY <1>1, FS_Interval
  <2>2. QED
    BY <1>4, <2>1, FS_Injection
<1> HIDE DEF n, q
<1>6. ToSet(q) = S
  BY <1>3, <1>5 DEF ToSet, Surjection
<1>7. q \in Seq(S)
  BY <1>1, <1>3
<1>8. QED
  BY <1>3, <1>6, <1>7 DEF q, IsInjective

-----------------------------------------------------------------------------
(***************************************************************************)
(* The numbers of the events on their way.                                 *)
(***************************************************************************)
Numbers(q, s) == {q[k].seq : k \in {j \in DOMAIN q : IsEvent(q[j], s)}}
NumberOf(f, s) == IF IsEvent(f, s) THEN {f.seq} ELSE {}

LEMMA NumbersFacts ==
  ASSUME NEW q \in Seq(Frames), NEW s \in Sub
  PROVE  /\ \A f \in Frames : Numbers(Append(q, f), s) = Numbers(q, s) \cup NumberOf(f, s)
         /\ q # <<>> => Numbers(q, s) = Numbers(Tail(q), s) \cup NumberOf(Head(q), s)
         /\ \A n : n \in Numbers(q, s) <=> \E f \in ToSet(q) : IsEvent(f, s) /\ f.seq = n
<1> DEFINE Of(F) == {g.seq : g \in {h \in F : IsEvent(h, s)}}
<1>1. \A r : Numbers(r, s) = Of(ToSet(r))
  BY DEF Numbers, ToSet
<1>2. \A F, G : Of(F \cup G) = Of(F) \cup Of(G)
  OBVIOUS
<1>3. \A f : Of({f}) = NumberOf(f, s)
  BY DEF NumberOf
<1>4. ASSUME NEW f \in Frames
      PROVE  Numbers(Append(q, f), s) = Numbers(q, s) \cup NumberOf(f, s)
  <2>1. ToSet(Append(q, f)) = ToSet(q) \cup {f}
    BY QueueSets
  <2>2. Of(ToSet(Append(q, f))) = Of(ToSet(q)) \cup Of({f})
    BY <1>2, <2>1
  <2>3. QED
    BY <1>1, <1>3, <2>2
<1>5. ASSUME q # <<>>
      PROVE  Numbers(q, s) = Numbers(Tail(q), s) \cup NumberOf(Head(q), s)
  <2>1. ToSet(q) = {Head(q)} \cup ToSet(Tail(q))
    BY <1>5, QueueSets
  <2>2. Of(ToSet(q)) = Of({Head(q)}) \cup Of(ToSet(Tail(q)))
    BY <1>2, <2>1
  <2>3. QED
    BY <1>1, <1>3, <2>2
<1>6. \A n : n \in Numbers(q, s) <=> \E f \in ToSet(q) : IsEvent(f, s) /\ f.seq = n
  BY <1>1
<1>7. QED
  BY <1>4, <1>5, <1>6

\* The event that arrives is the next one.
LEMMA HeadNumber ==
  ASSUME NEW q \in Seq(Frames), q # <<>>, NEW s \in Sub, IsEvent(Head(q), s),
         NEW n \in Nat, NEW l \in Nat, l <= n, Ordered(q, s, n), Numbers(q, s) = (l + 1)..n
  PROVE  /\ Head(q).seq = l + 1 /\ l + 1 <= n
         /\ Numbers(Tail(q), s) = (l + 2)..n
<1> DEFINE h == Head(q).seq
<1>1. Head(q) = q[1] /\ 1 \in DOMAIN q /\ Head(q) \in Frames
  OBVIOUS
<1>2. h \in Nat
  BY <1>1 DEF Frames
<1>3. Numbers(q, s) = Numbers(Tail(q), s) \cup {h}
  <2>1. Numbers(q, s) = Numbers(Tail(q), s) \cup NumberOf(Head(q), s)
    BY NumbersFacts
  <2>2. NumberOf(Head(q), s) = {h}
    BY DEF NumberOf
  <2>3. QED
    BY <2>1, <2>2
<1>4. \A m \in Numbers(Tail(q), s) : m > h
  <2>1. ASSUME NEW k \in DOMAIN Tail(q), IsEvent(Tail(q)[k], s)
        PROVE  Tail(q)[k].seq > h
    <3>1. k + 1 \in DOMAIN q /\ k + 1 > 1 /\ Tail(q)[k] = q[k + 1]
      BY <2>1
    <3>2. IsEvent(q[k + 1], s) /\ IsEvent(q[1], s)
      BY <1>1, <2>1, <3>1
    <3>3. q[k + 1].seq > q[1].seq
      BY <1>1, <3>1, <3>2 DEF Ordered
    <3>4. QED
      BY <1>1, <3>1, <3>3
  <2>2. QED
    BY <2>1 DEF Numbers
<1> HIDE DEF h
<1>5. h \in (l + 1)..n
  BY <1>3
<1>6. l + 1 \in (l + 1)..n
  BY <1>2, <1>5
<1>7. h = l + 1
  BY <1>2, <1>3, <1>4, <1>5, <1>6
<1>8. Numbers(Tail(q), s) = ((l + 1)..n) \ {h}
  <2>1. h \notin Numbers(Tail(q), s)
    BY <1>2, <1>4
  <2>2. QED
    BY <1>3, <2>1
<1>9. Numbers(Tail(q), s) = (l + 2)..n
  <2>1. \A m : m \in ((l + 1)..n) \ {l + 1} <=> m \in (l + 2)..n
    OBVIOUS
  <2>2. ((l + 1)..n) \ {l + 1} = (l + 2)..n
    BY <2>1
  <2>3. QED
    BY <1>7, <1>8, <2>2
<1>10. QED
  BY <1>5, <1>7, <1>9 DEF h

\* What the agent adds is the next number, and it is taken by no other frame.
LEMMA ServerNumbers ==
  ASSUME FreshIds, TypeInv, Queue, Server, conn' = "open", NEW s \in Sub
  PROVE  \/ EventNumbers(s)' = EventNumbers(s) /\ seq'[s] = seq[s]
         \/ EventNumbers(s)' = EventNumbers(s) \cup {seq[s] + 1} /\ seq'[s] = seq[s] + 1
<1>0. /\ send \in Seq(Frames) /\ seq \in [Sub -> Nat] /\ \A t \in Sub : IdOf[t] \in Id /\ seq[t] + 1 \in Nat
      /\ \A t, u \in Sub : IdOf[t] = IdOf[u] => t = u
  BY IdOfType DEF TypeInv, TypeOK, FreshIds
<1>1. EventNumbers(s) = Numbers(send, s) /\ EventNumbers(s)' = Numbers(send', s)
  BY DEF EventNumbers, Numbers
<1>2. ASSUME NEW f \in Frames, f.type # "event", send' = Append(send, f)
      PROVE  Numbers(send', s) = Numbers(send, s)
  <2>1. Numbers(Append(send, f), s) = Numbers(send, s) \cup NumberOf(f, s)
    BY <1>0, NumbersFacts
  <2>2. ~IsEvent(f, s)
    BY <1>2 DEF IsEvent
  <2>3. QED
    BY <1>2, <2>1, <2>2 DEF NumberOf
<1>3. CASE \E t \in Sub : Emit(t)
  <2>1. PICK t \in Sub : Emit(t)
    BY <1>3
  <2>2. Event(t) \in Frames /\ Event(t).seq = seq[t] + 1 /\ (IsEvent(Event(t), s) <=> s = t)
    BY <1>0, FrameTypesOK DEF Event, Frame, FrameTypes, IsEvent
  <2>3. Numbers(Append(send, Event(t)), s)
          = Numbers(send, s) \cup NumberOf(Event(t), s)
    BY <1>0, <2>2, NumbersFacts
  <2>4. send' = Append(send, Event(t)) /\ seq' = [seq EXCEPT ![t] = @ + 1]
    BY <2>1 DEF Emit
  <2>5. CASE s = t
    BY <1>0, <1>1, <2>2, <2>3, <2>4, <2>5 DEF NumberOf
  <2>6. CASE s # t
    <3>1. ~IsEvent(Event(t), s) /\ seq'[s] = seq[s]
      BY <1>0, <2>2, <2>4, <2>6
    <3>2. Numbers(send', s) = Numbers(send, s)
      BY <2>3, <2>4, <3>1 DEF NumberOf
    <3>3. QED
      BY <1>1, <3>1, <3>2
  <2>7. QED
    BY <2>5, <2>6
<1>4. CASE ~ \E t \in Sub : Emit(t)
  <2>1. UNCHANGED seq
    BY <1>4, InputFacts DEF Server, Reader, ReadPong, ReadSubscribe, ReadUnsubscribe, StartChannel, StartFails, Reply,
        ReadEnds, Pinger, Tick, SendPing, PingEnds, WriteFails, chans, Serve, Leave, SourceEnds, CloseChannel,
        RemoveChannel
  <2>2. send' = send \/ \E f \in Frames : f.type # "event" /\ send' = Append(send, f)
    <3>1. \A t \in Sub, type \in {"subscribed", "closed"} :
            Frame(type, IdOf[t], 0) \in Frames /\ Frame(type, IdOf[t], 0).type # "event"
      BY <1>0, FrameTypesOK DEF Frame, FrameTypes
    <3>2. CASE StartChannel
      BY <3>1, <3>2 DEF StartChannel, Enqueue, TypeInv, Starting
    <3>3. CASE Reply
      BY <3>3 DEF Reply, Enqueue, Queue, TypeInv, TypeOK, Places
    <3>4. CASE SendPing
      <4>1. Ping \in Frames /\ Ping.type # "event"
        BY FrameTypesOK DEF Ping, Frame
      <4>2. QED
        BY <3>4, <4>1 DEF SendPing, Enqueue
    <3>5. ASSUME NEW t \in Sub, CloseChannel(t)
          PROVE  send' = send \/ \E f \in Frames : f.type # "event" /\ send' = Append(send, f)
      BY <3>1, <3>5 DEF CloseChannel, Enqueue
    <3>6. CASE ReadPong \/ ReadSubscribe \/ ReadUnsubscribe \/ StartFails \/ ReadEnds \/ Tick \/ PingEnds \/ WriteFails
      BY <3>6 DEF ReadPong, ReadSubscribe, ReadUnsubscribe, StartFails, ReadEnds, Tick, PingEnds, WriteFails, Close
    <3>7. ASSUME NEW t \in Sub, Leave(t) \/ SourceEnds(t) \/ RemoveChannel(t)
          PROVE  send' = send
      BY <3>7 DEF Leave, SourceEnds, RemoveChannel
    <3>8. CASE Input
      BY <3>8, InputFacts
    <3>9. QED
      BY <1>4, <3>2, <3>3, <3>4, <3>5, <3>6, <3>7, <3>8 DEF Server, Reader, Pinger, Serve
  <2>3. QED
    BY <1>1, <1>2, <2>1, <2>2
<1>5. QED
  BY <1>3, <1>4

-----------------------------------------------------------------------------
(***************************************************************************)
(* Every step of the browser is a step of the client of WsConnection.      *)
(***************************************************************************)
LEMMA SubOfFacts ==
  ASSUME FreshIds, Sourced, NEW type \in {"event", "error", "closed"}, Arrives(type)
  PROVE  /\ SubOf(Head(send)) \in Sub /\ IdOf[SubOf(Head(send))] = Head(send).id
         /\ \A s \in Sub : IdOf[s] = Head(send).id => s = SubOf(Head(send))
<1>1. send # <<>> /\ Head(send).type = type
  BY DEF Arrives
<1>2. \E s \in Sub : IdOf[s] = Head(send).id
  <2>1. Head(send) \in ToSet(send)
    BY <1>1 DEF Arrives, ToSet
  <2>2. QED
    BY <1>1, <2>1 DEF Sourced, Answers, Known
<1>3. QED
  BY <1>2 DEF SubOf, FreshIds

\* handleEvent finds no gap: the event is the one after the last it has counted.
LEMMA NextEvent ==
  ASSUME FreshIds, Together, DeliverEvent
  PROVE  LET s == SubOf(Head(send)) IN
           /\ s \in Sub /\ IsEvent(Head(send), s)
           /\ s \in channels => Head(send).seq = lastSeq[s] + 1 /\ lastSeq[s] + 1 <= seq[s]
                                /\ Numbers(Tail(send), s) = (lastSeq[s] + 2)..seq[s]
           /\ lastSeq' = [lastSeq EXCEPT ![s] = IF s \in channels THEN Head(send).seq ELSE @]
           /\ UNCHANGED inbox
<1> DEFINE s == SubOf(Head(send))
<1>1. /\ send \in Seq(Frames) /\ inbox \in Seq(Requests) /\ MaxEvents \in Nat
      /\ lastSeq \in [Sub -> 0..MaxEvents] /\ seq \in [Sub -> Nat]
  BY ConnectionAssumption DEF ConnectionAssumption, Together, Connection, TypeInv, TypeOK, BrowserTypes
<1>2. Arrives("event") /\ Linked /\ send # <<>> /\ Head(send).type = "event"
  BY DEF DeliverEvent, Arrives
<1>3. s \in Sub /\ IdOf[s] = Head(send).id /\ IsEvent(Head(send), s)
  BY <1>2, SubOfFacts DEF Together, Connection, Spoken, IsEvent
<1>4. /\ lastSeq' = [lastSeq EXCEPT ![s] = IF s \notin channels THEN @
                        ELSE IF lastSeq[s] # 0 /\ Head(send).seq > lastSeq[s] + 1 THEN 0 ELSE Head(send).seq]
      /\ SendFrames(IF s \in channels /\ lastSeq[s] # 0 /\ Head(send).seq > lastSeq[s] + 1
                      THEN <<Unsubscribe(s), Subscribe(s)>> ELSE <<>>)
  BY DEF DeliverEvent
<1> HIDE DEF s
<1>5. lastSeq[s] \in Nat /\ seq[s] \in Nat
  BY <1>1, <1>3
<1>6. ASSUME s \in channels
      PROVE  /\ Head(send).seq = lastSeq[s] + 1 /\ lastSeq[s] + 1 <= seq[s]
             /\ Numbers(Tail(send), s) = (lastSeq[s] + 2)..seq[s]
  <2>1. lastSeq[s] <= seq[s] /\ EventNumbers(s) = (lastSeq[s] + 1)..seq[s]
    BY <1>2, <1>6 DEF Together, Following
  <2>2. EventNumbers(s) = Numbers(send, s)
    BY DEF EventNumbers, Numbers
  <2>3. Ordered(send, s, seq[s])
    BY <1>3 DEF Together, Connection, Queue, Queued
  <2>4. QED
    BY <1>1, <1>2, <1>3, <1>5, <2>1, <2>2, <2>3, HeadNumber
<1>7. ~(s \in channels /\ lastSeq[s] # 0 /\ Head(send).seq > lastSeq[s] + 1)
  BY <1>5, <1>6
<1>8. UNCHANGED inbox
  <2>1. inbox \o <<>> = inbox
    BY <1>1, ConcatFacts
  <2>2. SendFrames(<<>>)
    BY <1>4, <1>7
  <2>3. QED
    BY <2>1, <2>2 DEF SendFrames
<1>9. lastSeq' = [lastSeq EXCEPT ![s] = IF s \in channels THEN Head(send).seq ELSE @]
  BY <1>1, <1>3, <1>4, <1>7
<1>10. QED
  BY <1>3, <1>6, <1>8, <1>9 DEF s

LEMMA HoldAsks ==
  ASSUME Together, NEW s \in Sub, Hold(s)
  PROVE  /\ s \notin asked
         /\ Linked => AskFor(s)
         /\ ~Linked => UNCHANGED vars
<1>1. inbox \in Seq(Requests) /\ Subscribe(s) \in Requests
  BY RequestTypesOK DEF Together, Connection, TypeInv, TypeOK
<1>2. s \notin asked
  BY DEF Together, Held, Hold
<1>3. Linked => inbox' = Append(inbox, Subscribe(s)) /\ asked' = asked \cup {s}
  BY <1>1, ConcatFacts DEF Hold, SendFrames
<1>4. ~Linked => UNCHANGED <<inbox, asked>>
  BY DEF Hold, SendFrames
<1>5. UNCHANGED <<conn, send, chans, loops, peer>>
  BY DEF Hold
<1>6. QED
  BY <1>2, <1>3, <1>4, <1>5 DEF AskFor, Linked, vars

LEMMA LetGoGives ==
  ASSUME Together, NEW s \in Sub, LetGo(s)
  PROVE  /\ GiveUp(s) \/ HangUp \/ UNCHANGED vars
         /\ Linked /\ s \in channels => inbox' = Append(inbox, Unsubscribe(s))
         /\ ~(Linked /\ s \in channels) => UNCHANGED inbox
<1>1. inbox \in Seq(Requests) /\ Unsubscribe(s) \in Requests
  BY RequestTypesOK DEF Together, Connection, TypeInv, TypeOK
<1>2. Linked /\ s \in channels => inbox' = Append(inbox, Unsubscribe(s)) /\ s \in asked
  BY <1>1, ConcatFacts DEF LetGo, SendFrames, Together, Held
<1>3. ~(Linked /\ s \in channels) => UNCHANGED inbox
  BY <1>1, ConcatFacts DEF LetGo, SendFrames
<1>4. UNCHANGED <<conn, send, chans, loops, asked>>
  BY DEF LetGo
<1>5. peer' = peer \/ (sock = "open" /\ peer' = "gone")
  BY DEF LetGo, CloseSocket
<1>6. sock = "open" => conn # "none"
  BY DEF Together, Held
<1>7. CASE Linked /\ s \in channels
  BY <1>2, <1>3, <1>4, <1>5, <1>7 DEF GiveUp, Linked
<1>8. CASE ~(Linked /\ s \in channels)
  <2>1. CASE peer' = peer
    BY <1>2, <1>3, <1>4, <1>8, <2>1 DEF vars
  <2>2. CASE peer' # peer
    BY <1>2, <1>3, <1>4, <1>5, <1>6, <1>8, <2>2 DEF HangUp
  <2>3. QED
    BY <2>1, <2>2
<1>9. QED
  BY <1>2, <1>3, <1>7, <1>8

LEMMA OpensConnects ==
  ASSUME Together, Opens
  PROVE  Connect /\ \A s \in Sub : s \in Waits' <=> s \in channels
<1> DEFINE F == {Subscribe(s) : s \in channels}
<1>1. channels \subseteq Sub /\ IsFiniteSet(channels)
  BY DEF Together, BrowserTypes
<1>2. IsFiniteSet(F)
  <2> DEFINE f == [s \in channels |-> Subscribe(s)]
  <2>1. f \in Surjection(channels, F)
    BY DEF Surjection
  <2>2. QED
    BY <1>1, <2>1, FS_Surjection
<1>3. Accept /\ inbox' = SetToSeq(F) /\ asked' = channels
  BY DEF Opens
<1> HIDE DEF F
<1>4. /\ inbox' \in Seq(F) /\ ToSet(inbox') = F
      /\ \A j, k \in DOMAIN inbox' : inbox'[j] = inbox'[k] => j = k
  BY <1>2, <1>3, SetToSeqFacts
<1>5. inbox' \in Seq({Subscribe(s) : s \in Sub})
  <2>1. F \subseteq {Subscribe(s) : s \in Sub}
    BY <1>1 DEF F
  <2>2. \A k \in DOMAIN inbox' : inbox'[k] \in {Subscribe(s) : s \in Sub}
    BY <1>4, <2>1
  <2>3. QED
    BY <1>4, <2>2
<1>6. asked' = {inbox'[k].sub : k \in DOMAIN inbox'}
  <2>1. {inbox'[k].sub : k \in DOMAIN inbox'} = {r.sub : r \in ToSet(inbox')}
    BY DEF ToSet
  <2>2. {r.sub : r \in F} = channels
    BY <1>1, RequestFacts DEF F
  <2>3. QED
    BY <1>3, <1>4, <2>1, <2>2
<1>7. Connect
  BY <1>3, <1>4, <1>5, <1>6 DEF Connect
<1>8. ASSUME NEW s \in Sub
      PROVE  s \in Waits' <=> s \in channels
  <2>1. \A k \in DOMAIN inbox' : \E t \in channels : inbox'[k] = Subscribe(t)
    BY <1>4 DEF F
  <2>2. s \in channels => \E k \in DOMAIN inbox' : inbox'[k] = Subscribe(s)
    BY <1>4 DEF F, ToSet
  <2>3. QED
    BY <1>1, <2>1, <2>2, RequestFacts DEF Waits
<1>9. QED
  BY <1>7, <1>8

\* A frame of the agent arrives, and the browser may hang up on it.
LEMMA MessageReceives ==
  ASSUME FreshIds, Together, Message
  PROVE  /\ Receive
         /\ inbox' = inbox \/ inbox' = Append(inbox, Pong)
         /\ Linked /\ send # <<>> /\ send' = Tail(send)
<1>1. inbox \in Seq(Requests) /\ Pong \in Requests
  BY RequestTypesOK DEF Together, Connection, TypeInv, TypeOK
<1>2. inbox \o <<>> = inbox /\ inbox \o <<Pong>> = Append(inbox, Pong)
  BY <1>1, ConcatFacts
<1>3. Ping.type = "ping"
  BY DEF Ping, Frame
<1>4. CASE Deliver
  <2>1. /\ Linked /\ send # <<>> /\ send' = Tail(send) /\ UNCHANGED <<conn, chans, loops, peer, asked>>
        /\ inbox' = IF Head(send) = Ping THEN Append(inbox, Pong) ELSE inbox
    BY <1>2, <1>4 DEF Deliver, Arrives, SendFrames
  <2>2. QED
    BY <2>1 DEF Receive, Linked
<1>5. CASE DeliverEvent
  <2>1. /\ Linked /\ send # <<>> /\ send' = Tail(send) /\ UNCHANGED <<conn, chans, loops, peer, asked>>
        /\ Head(send) # Ping
    BY <1>3, <1>5 DEF DeliverEvent, Arrives
  <2>2. UNCHANGED inbox
    BY <1>5, NextEvent
  <2>3. QED
    BY <2>1, <2>2 DEF Receive, Linked
<1>6. CASE DeliverError \/ DeliverClosed
  <2>1. /\ Linked /\ send # <<>> /\ send' = Tail(send) /\ UNCHANGED <<inbox, conn, chans, loops, asked>>
        /\ Head(send) # Ping /\ peer' \in {peer, "gone"}
    BY <1>3, <1>6 DEF DeliverError, DeliverClosed, Arrives, CloseSocket
  <2>2. QED
    BY <2>1 DEF Receive, Linked
<1>7. QED
  BY <1>4, <1>5, <1>6 DEF Message

LEMMA StepImplements ==
  ASSUME FreshIds, Together, [BrowserNext]_allVars
  PROVE  [Next]_vars
<1>1. CASE Page
  BY <1>1, HoldAsks, LetGoGives DEF Page, Next, Client
<1>2. CASE Socket
  BY <1>2, OpensConnects DEF Socket, ConnectFails, SeesClose, TimerFires, Next, Client
<1>3. CASE Message
  BY <1>3, MessageReceives DEF Next, Client
<1>4. CASE Agent \/ Breaks
  BY <1>4 DEF Agent, Breaks, Next, Client
<1>5. CASE UNCHANGED allVars
  BY <1>5 DEF allVars
<1>6. QED
  BY <1>1, <1>2, <1>3, <1>4, <1>5 DEF BrowserNext

-----------------------------------------------------------------------------
(***************************************************************************)
(* The browser's part of the invariant.                                    *)
(***************************************************************************)
LEMMA StepBrowserTypes ==
  ASSUME FreshIds, Together, [BrowserNext]_allVars
  PROVE  BrowserTypes'
<1>0. /\ MaxEvents \in Nat /\ MaxFaults \in Nat /\ channels \subseteq Sub /\ IsFiniteSet(channels)
      /\ \A s \in Sub : seq[s] \in Nat /\ seq[s] <= MaxEvents
      /\ BrowserTypes
  BY ConnectionAssumption, BrowserAssumption
  DEF ConnectionAssumption, BrowserAssumption, Together, Connection, TypeInv, TypeOK, Spoken, Counted, BrowserTypes
<1>1. ASSUME NEW s \in Sub, Hold(s) PROVE BrowserTypes'
  <2>1. IsFiniteSet(channels')
    BY <1>0, <1>1, FS_AddElement DEF Hold
  <2>2. QED
    BY <1>0, <1>1, <2>1 DEF Hold, BrowserTypes
<1>2. ASSUME NEW s \in Sub, LetGo(s) PROVE BrowserTypes'
  <2>1. IsFiniteSet(channels')
    BY <1>0, <1>2, FS_RemoveElement DEF LetGo
  <2>2. timer' \in {timer, FALSE} /\ sock' \in {sock, "none"} /\ UNCHANGED <<refused, faults>>
    BY <1>2 DEF LetGo, CloseSocket
  <2>3. timer' \in BOOLEAN
    BY <1>0, <2>2 DEF BrowserTypes
  <2>4. /\ life' = [life EXCEPT ![s] = "left"]
        /\ channels' = channels \ {s} /\ lastSeq' = [lastSeq EXCEPT ![s] = 0]
    BY <1>2 DEF LetGo
  <2>5. lastSeq' \in [Sub -> 0..MaxEvents]
    BY <1>0, <2>4 DEF BrowserTypes
  <2>6. life' \in [Sub -> {"new", "held", "left"}] /\ channels' \subseteq {t \in Sub : life'[t] = "held"}
    BY <1>0, <2>4 DEF BrowserTypes
  <2>7. QED
    BY <1>0, <2>1, <2>2, <2>3, <2>5, <2>6 DEF BrowserTypes
<1>3. CASE Opens
  BY <1>0, <1>3 DEF Opens, BrowserTypes
<1>4. CASE ConnectFails \/ SeesClose
  <2>1. timer' \in BOOLEAN
    BY <1>4 DEF ConnectFails, SeesClose, Closed
  <2>2. sock' = "none" /\ lastSeq' = [s \in Sub |-> 0] /\ faults' \in 0..MaxFaults
    BY <1>0, <1>4 DEF ConnectFails, SeesClose, Closed, BrowserTypes
  <2>3. UNCHANGED <<life, channels, refused>>
    BY <1>4 DEF ConnectFails, SeesClose
  <2>4. QED
    BY <1>0, <2>1, <2>2, <2>3 DEF BrowserTypes
<1>5. CASE TimerFires
  BY <1>0, <1>5 DEF TimerFires, BrowserTypes
<1>6. CASE Deliver
  BY <1>0, <1>6 DEF Deliver, browser, BrowserTypes
<1>7. CASE DeliverEvent
  <2> DEFINE s == SubOf(Head(send))
  <2>1. /\ s \in Sub /\ (s \in channels => Head(send).seq = lastSeq[s] + 1 /\ lastSeq[s] + 1 <= seq[s])
        /\ lastSeq' = [lastSeq EXCEPT ![s] = IF s \in channels THEN Head(send).seq ELSE @]
    BY <1>7, NextEvent
  <2>2. UNCHANGED <<sock, timer, life, channels, refused, faults>>
    BY <1>7 DEF DeliverEvent
  <2> HIDE DEF s
  <2>3. lastSeq' \in [Sub -> 0..MaxEvents]
    <3>1. lastSeq[s] \in 0..MaxEvents /\ seq[s] \in Nat /\ seq[s] <= MaxEvents
      BY <1>0, <2>1 DEF BrowserTypes
    <3>2. s \in channels => Head(send).seq \in 0..MaxEvents
      BY <1>0, <2>1, <3>1
    <3>3. QED
      BY <1>0, <2>1, <3>1, <3>2 DEF BrowserTypes
  <2>4. QED
    BY <1>0, <2>2, <2>3 DEF BrowserTypes
<1>8. CASE DeliverError
  <2>1. SubOf(Head(send)) \in Sub
    BY <1>8, SubOfFacts DEF DeliverError, Together, Connection, Spoken
  <2>2. QED
    BY <1>0, <1>8, <2>1 DEF DeliverError, BrowserTypes
<1>9. CASE DeliverClosed
  <2> DEFINE s == SubOf(Head(send))
  <2>1. s \in Sub
    BY <1>9, SubOfFacts DEF DeliverClosed, Together, Connection, Spoken
  <2>2. channels' = channels \ {s} /\ lastSeq' = [lastSeq EXCEPT ![s] = 0]
    BY <1>9 DEF DeliverClosed
  <2> HIDE DEF s
  <2>3. IsFiniteSet(channels')
    BY <1>0, <2>2, FS_RemoveElement
  <2>4. timer' \in {timer, FALSE} /\ sock' \in {sock, "none"} /\ UNCHANGED <<life, refused, faults>>
    BY <1>9 DEF DeliverClosed, CloseSocket
  <2>5. timer' \in BOOLEAN
    BY <1>0, <2>4 DEF BrowserTypes
  <2>6. lastSeq' \in [Sub -> 0..MaxEvents]
    BY <1>0, <2>1, <2>2 DEF BrowserTypes
  <2>7. QED
    BY <1>0, <2>2, <2>3, <2>4, <2>5, <2>6 DEF BrowserTypes
<1>10. CASE Agent \/ UNCHANGED allVars
  BY <1>0, <1>10 DEF Agent, allVars, browser, BrowserTypes
<1>11. CASE Breaks
  BY <1>0, <1>11 DEF Breaks, BrowserTypes
<1>12. QED
  BY <1>1, <1>2, <1>3, <1>4, <1>5, <1>6, <1>7, <1>8, <1>9, <1>10, <1>11 DEF BrowserNext, Page, Socket, Message

\* The agent neither opens the connection nor brings the peer back.
LEMMA ServerKeeps == Server => /\ conn' \in {conn, "done"} /\ UNCHANGED <<peer, asked>>
BY InputFacts
DEF Server, Reader, ReadPong, ReadSubscribe, ReadUnsubscribe, StartChannel, StartFails, Reply, ReadEnds,
       Pinger, Tick, SendPing, PingEnds, WriteFails, Close, chans, loops,
       Serve, Emit, Leave, SourceEnds, CloseChannel, RemoveChannel

LEMMA StepHeld ==
  ASSUME FreshIds, Together, [BrowserNext]_allVars
  PROVE  Held'
<1>0. /\ lastSeq \in [Sub -> 0..MaxEvents] /\ life \in [Sub -> {"new", "held", "left"}]
      /\ channels \subseteq {s \in Sub : life[s] = "held"} /\ sock \in {"none", "connecting", "open"}
      /\ channels # {} => sock # "none" \/ timer
      /\ asked \subseteq {s \in Sub : life[s] # "new"}
      /\ sock = "open" => conn # "none"
      /\ Linked => channels \subseteq asked
      /\ \A s \in Sub : lastSeq[s] # 0 => s \in channels /\ sock = "open"
  BY DEF Together, BrowserTypes, Held, NeverStranded
<1>1. ASSUME NEW s \in Sub, Hold(s) PROVE Held'
  <2>1. /\ life' = [life EXCEPT ![s] = "held"] /\ channels' = channels \cup {s}
        /\ sock' = (IF sock = "none" THEN "connecting" ELSE sock) /\ asked' = (IF Linked THEN asked \cup {s} ELSE asked)
        /\ UNCHANGED <<conn, peer, timer, lastSeq>>
    BY <1>1 DEF Hold
  <2>2. Linked' <=> Linked
    BY <2>1 DEF Linked
  <2>3. NeverStranded'
    BY <1>0, <2>1 DEF NeverStranded
  <2>4. QED
    BY <1>0, <2>1, <2>2, <2>3 DEF Held
<1>2. ASSUME NEW s \in Sub, channels' = channels \ {s}, lastSeq' = [lastSeq EXCEPT ![s] = 0],
             IF channels' = {} THEN CloseSocket ELSE UNCHANGED <<timer, sock, peer>>,
             UNCHANGED <<conn, asked>>, life' = life \/ life' = [life EXCEPT ![s] = "left"]
      PROVE  Held'
  <2>1. CASE channels' = {}
    BY <1>0, <1>2, <2>1 DEF CloseSocket, Held, NeverStranded, Linked
  <2>2. CASE channels' # {}
    BY <1>0, <1>2, <2>2 DEF Held, NeverStranded, Linked
  <2>3. QED
    BY <2>1, <2>2
<1>3. CASE Opens
  BY <1>0, <1>3 DEF Opens, Accept, Held, NeverStranded
<1>4. CASE ConnectFails \/ SeesClose \/ TimerFires
  <2>1. UNCHANGED <<conn, peer, asked, life, channels>>
    BY <1>4 DEF ConnectFails, SeesClose, TimerFires, vars
  <2>2. sock' = "open" => sock = "open"
    BY <1>4 DEF ConnectFails, SeesClose, TimerFires, Closed
  <2>3. NeverStranded'
    BY <1>0, <1>4 DEF ConnectFails, SeesClose, TimerFires, Closed, NeverStranded
  <2>4. \A s \in Sub : lastSeq'[s] # 0 => s \in channels /\ sock' = "open"
    BY <1>0, <1>4 DEF ConnectFails, SeesClose, TimerFires, Closed
  <2>5. QED
    BY <1>0, <2>1, <2>2, <2>3, <2>4 DEF Held, Linked
<1>5. CASE Deliver \/ DeliverError
  BY <1>0, <1>5 DEF Deliver, DeliverError, browser, Held, NeverStranded, Linked
<1>6. CASE DeliverEvent
  <2> DEFINE s == SubOf(Head(send))
  <2>1. s \in Sub /\ lastSeq' = [lastSeq EXCEPT ![s] = IF s \in channels THEN Head(send).seq ELSE @]
    BY <1>6, NextEvent
  <2>2. Linked /\ UNCHANGED <<conn, peer, asked, sock, timer, life, channels>>
    BY <1>6 DEF DeliverEvent, Arrives
  <2> HIDE DEF s
  <2>3. \A t \in Sub : lastSeq'[t] # 0 => t \in channels /\ sock' = "open"
    BY <1>0, <2>1, <2>2 DEF Linked
  <2>4. QED
    BY <1>0, <2>2, <2>3 DEF Held, NeverStranded, Linked
<1>7. CASE Agent
  <2>1. conn' \in {conn, "done"} /\ UNCHANGED <<peer, asked>> /\ UNCHANGED browser
    BY <1>7, ServerKeeps DEF Agent
  <2>2. QED
    BY <1>0, <2>1 DEF browser, Held, NeverStranded, Linked
<1>8. CASE Breaks
  BY <1>0, <1>8 DEF Breaks, HangUp, GoSilent, Held, NeverStranded, Linked
<1>9. CASE UNCHANGED allVars
  BY <1>0, <1>9 DEF allVars, vars, browser, Held, NeverStranded, Linked
<1>10. ASSUME NEW s \in Sub, LetGo(s) PROVE Held'
  BY <1>2, <1>10 DEF LetGo
<1>11. CASE DeliverClosed
  <2>1. SubOf(Head(send)) \in Sub
    BY <1>11, SubOfFacts DEF DeliverClosed, Together, Connection, Spoken
  <2>2. QED
    BY <1>2, <1>11, <2>1 DEF DeliverClosed
<1>12. QED
  BY <1>1, <1>3, <1>4, <1>5, <1>6, <1>7, <1>8, <1>9, <1>10, <1>11
  DEF BrowserNext, Page, Socket, Message

LEMMA StepFollowing ==
  ASSUME FreshIds, Together, [BrowserNext]_allVars
  PROVE  Following'
<1> SUFFICES ASSUME Linked', NEW t \in channels'
             PROVE  lastSeq'[t] <= seq'[t] /\ EventNumbers(t)' = (lastSeq'[t] + 1)..seq'[t]
  BY DEF Following
<1>0. /\ send \in Seq(Frames) /\ seq \in [Sub -> Nat] /\ lastSeq \in [Sub -> 0..MaxEvents] /\ MaxEvents \in Nat
      /\ channels \subseteq Sub
      /\ \A s \in Sub : lastSeq[s] \in Nat
  BY ConnectionAssumption
  DEF ConnectionAssumption, Together, Connection, TypeInv, TypeOK, BrowserTypes
<1>1. \A s \in channels : Linked => lastSeq[s] <= seq[s] /\ EventNumbers(s) = (lastSeq[s] + 1)..seq[s]
  BY DEF Together, Following
<1>2. /\ \A s : EventNumbers(s) = Numbers(send, s)
      /\ EventNumbers(t)' = Numbers(send', t)
  BY DEF EventNumbers, Numbers
\* Nothing that the relation is about changes.
<1>3. ASSUME Linked, t \in channels, UNCHANGED <<send, seq>>, lastSeq'[t] = lastSeq[t]
      PROVE  lastSeq'[t] <= seq'[t] /\ EventNumbers(t)' = (lastSeq'[t] + 1)..seq'[t]
  BY <1>1, <1>2, <1>3
<1>4. ASSUME NEW s \in Sub, Hold(s)
      PROVE  lastSeq'[t] <= seq'[t] /\ EventNumbers(t)' = (lastSeq'[t] + 1)..seq'[t]
  <2>1. /\ UNCHANGED <<send, seq, lastSeq, conn, peer, run>> /\ channels' = channels \cup {s}
        /\ sock' = IF sock = "none" THEN "connecting" ELSE sock
    BY <1>4 DEF Hold, chans
  <2>2. Linked
    BY <2>1 DEF Linked
  <2>3. CASE t = s
    <3>1. s \notin asked /\ s \notin channels
      BY <1>4, <2>2, HoldAsks DEF Together, Held
    <3>2. run[s] = "none" /\ lastSeq[s] = 0
      BY <3>1 DEF Together, Held, Connection, Channels, AskedOnce, New
    <3>3. seq[s] = 0 /\ NoEvents(send, s)
      BY <3>2 DEF Together, Connection, Spoken, Counted, Queue
    <3>4. Numbers(send, s) = {}
      BY <3>3 DEF Numbers, NoEvents
    <3>5. (lastSeq[s] + 1)..seq[s] = {}
      BY <3>2, <3>3
    <3>6. QED
      BY <1>2, <2>1, <2>3, <3>2, <3>3, <3>4, <3>5
  <2>4. CASE t # s
    BY <1>3, <2>1, <2>2, <2>4
  <2>5. QED
    BY <2>3, <2>4
<1>5. ASSUME NEW s \in Sub, LetGo(s)
      PROVE  lastSeq'[t] <= seq'[t] /\ EventNumbers(t)' = (lastSeq'[t] + 1)..seq'[t]
  <2>1. /\ UNCHANGED <<send, seq>> /\ channels' = channels \ {s} /\ lastSeq' = [lastSeq EXCEPT ![s] = 0]
        /\ UNCHANGED conn
        /\ IF channels' = {} THEN CloseSocket ELSE UNCHANGED <<timer, sock, peer>>
    BY <1>5 DEF LetGo, chans
  <2>2. Linked /\ t \in channels /\ t # s
    BY <2>1 DEF Linked
  <2>3. lastSeq'[t] = lastSeq[t]
    BY <1>0, <2>1, <2>2
  <2>4. QED
    BY <1>3, <2>1, <2>2, <2>3
<1>6. CASE Opens
  <2>1. UNCHANGED <<channels, lastSeq>> /\ sock = "connecting"
    BY <1>6 DEF Opens
  <2>2. Answers' = {Hello} /\ seq'[t] = 0
    BY <1>0, <1>6, <2>1, OpensConnects, ConnectClean DEF Together, Connection
  <2>3. Numbers(send', t) = {}
    <3>1. send' = <<Hello>>
      BY <1>6 DEF Opens, Accept
    <3>2. NoEvents(send', t)
      BY <1>0, <2>1, <3>1, EmptyQueue
    <3>3. QED
      BY <3>2 DEF NoEvents, Numbers
  <2>4. lastSeq'[t] = 0
    BY <1>0, <2>1 DEF Together, Held
  <2>5. (lastSeq'[t] + 1)..seq'[t] = {}
    BY <2>2, <2>4
  <2>6. QED
    BY <1>2, <2>2, <2>3, <2>4, <2>5
<1>7. CASE ConnectFails \/ SeesClose \/ Breaks
  BY <1>7 DEF ConnectFails, SeesClose, Closed, Breaks, HangUp, GoSilent, Linked
<1>8. CASE TimerFires \/ UNCHANGED allVars
  <2>1. UNCHANGED <<vars, channels, lastSeq>> /\ (sock' = "open" => sock = "open")
    BY <1>8 DEF TimerFires, allVars, browser
  <2>2. QED
    BY <1>3, <2>1 DEF vars, chans, Linked
<1>9. CASE Message /\ ~DeliverEvent
  <2>1. Linked /\ send # <<>> /\ send' = Tail(send) /\ UNCHANGED seq
    BY <1>9, MessageReceives DEF Receive, chans
  <2>2. t \in channels /\ lastSeq'[t] = lastSeq[t]
    <3>1. CASE Deliver \/ DeliverError
      BY <3>1 DEF Deliver, DeliverError, browser
    <3>2. CASE DeliverClosed
      BY <1>0, <3>2 DEF DeliverClosed
    <3>3. QED
      BY <1>9, <3>1, <3>2 DEF Message
  <2>3. Head(send).type # "event"
    BY <1>9 DEF Message, Deliver, DeliverError, DeliverClosed, Arrives
  <2>4. Numbers(send, t) = Numbers(Tail(send), t) \cup NumberOf(Head(send), t)
    BY <1>0, <2>1, <2>2, NumbersFacts
  <2>5. Numbers(send', t) = Numbers(send, t)
    BY <2>1, <2>3, <2>4 DEF IsEvent, NumberOf
  <2>6. QED
    BY <1>1, <1>2, <2>1, <2>2, <2>5
<1>10. CASE DeliverEvent
  <2> DEFINE s == SubOf(Head(send))
  <2>1. /\ s \in Sub /\ IsEvent(Head(send), s)
        /\ s \in channels => Head(send).seq = lastSeq[s] + 1 /\ lastSeq[s] + 1 <= seq[s]
                             /\ Numbers(Tail(send), s) = (lastSeq[s] + 2)..seq[s]
        /\ lastSeq' = [lastSeq EXCEPT ![s] = IF s \in channels THEN Head(send).seq ELSE @]
    BY <1>10, NextEvent
  <2>2. Linked /\ send # <<>> /\ send' = Tail(send) /\ UNCHANGED <<seq, channels>>
    BY <1>10 DEF DeliverEvent, Arrives, chans
  <2> HIDE DEF s
  <2>3. CASE t = s
    <3>1. lastSeq'[t] = lastSeq[t] + 1 /\ lastSeq[t] + 1 <= seq[t]
      BY <1>0, <2>1, <2>2, <2>3
    <3>2. (lastSeq[t] + 1) + 1 = lastSeq[t] + 2
      BY <1>0, <2>2
    <3>3. EventNumbers(t)' = (lastSeq'[t] + 1)..seq'[t]
      BY <1>2, <2>1, <2>2, <2>3, <3>1, <3>2
    <3>4. QED
      BY <2>2, <3>1, <3>3
  <2>4. CASE t # s
    <3>1. lastSeq'[t] = lastSeq[t]
      BY <1>0, <2>1, <2>2, <2>4
    <3>2. ~IsEvent(Head(send), t)
      BY <1>0, <2>1, <2>2, <2>4 DEF IsEvent, FreshIds
    <3>3. Numbers(send, t) = Numbers(Tail(send), t) \cup NumberOf(Head(send), t)
      BY <1>0, <2>2, NumbersFacts
    <3>4. Numbers(send', t) = Numbers(send, t)
      BY <2>2, <3>2, <3>3 DEF NumberOf
    <3>5. QED
      BY <1>1, <1>2, <2>2, <3>1, <3>4
  <2>5. QED
    BY <2>3, <2>4
<1>11. CASE Agent
  <2>1. Server /\ UNCHANGED browser /\ conn' \in {conn, "done"} /\ UNCHANGED peer
    BY <1>11, ServerKeeps DEF Agent
  <2>2. Linked /\ conn' = "open" /\ t \in channels /\ UNCHANGED lastSeq
    BY <2>1 DEF Linked, browser
  <2>3. /\ lastSeq[t] <= seq[t] /\ EventNumbers(t) = (lastSeq[t] + 1)..seq[t]
        /\ lastSeq[t] \in Nat /\ seq[t] \in Nat
    BY <1>0, <1>1, <2>2
  <2>4. \/ EventNumbers(t)' = EventNumbers(t) /\ seq'[t] = seq[t]
        \/ EventNumbers(t)' = EventNumbers(t) \cup {seq[t] + 1} /\ seq'[t] = seq[t] + 1
    BY <1>0, <2>1, <2>2, ServerNumbers DEF Together, Connection
  <2>5. ((lastSeq[t] + 1)..seq[t]) \cup {seq[t] + 1} = (lastSeq[t] + 1)..(seq[t] + 1)
    <3>1. \A m : m \in ((lastSeq[t] + 1)..seq[t]) \cup {seq[t] + 1} <=> m \in (lastSeq[t] + 1)..(seq[t] + 1)
      BY <2>3
    <3>2. QED
      BY <3>1
  <2>6. CASE EventNumbers(t)' = EventNumbers(t) /\ seq'[t] = seq[t]
    BY <2>2, <2>3, <2>6
  <2>7. CASE EventNumbers(t)' = EventNumbers(t) \cup {seq[t] + 1} /\ seq'[t] = seq[t] + 1
    <3>1. EventNumbers(t)' = (lastSeq[t] + 1)..(seq[t] + 1)
      BY <2>3, <2>5, <2>7
    <3>2. lastSeq'[t] = lastSeq[t] /\ lastSeq[t] <= seq[t] + 1
      BY <2>2, <2>3
    <3>3. QED
      BY <2>7, <3>1, <3>2
  <2>8. QED
    BY <2>4, <2>6, <2>7
<1>12. QED
  BY <1>4, <1>5, <1>6, <1>7, <1>8, <1>9, <1>10, <1>11 DEF BrowserNext, Page, Socket

\* What a frame at the end of the inbox asks for.
LEMMA AppendFrames ==
  ASSUME TypeInv, NEW r \in Requests, inbox' = Append(inbox, r), NEW s \in Sub
  PROVE  /\ s \in Waits' <=> s \in Waits \/ r = Subscribe(s)
         /\ Withdrawn(s)' <=> Withdrawn(s) \/ r = Unsubscribe(s)
<1>1. inbox \in Seq(Requests)
  BY DEF TypeInv, TypeOK
<1>2. inbox' \in Seq(Requests)
  BY <1>1, QueueTypes
<1>3. ToSet(Append(inbox, r)) = ToSet(inbox) \cup {r}
  BY <1>1, QueueSets
<1>4. ToSet(inbox') = ToSet(inbox) \cup {r}
  BY <1>3
<1>5. (s \in Waits <=> Subscribe(s) \in ToSet(inbox)) /\ (s \in Waits' <=> Subscribe(s) \in ToSet(inbox'))
  BY <1>1, <1>2, WaitsFrames DEF Waits
<1>6. QED
  BY <1>4, <1>5 DEF Withdrawn

\* Each of the agent's steps keeps the two ends in agreement on s.
LEMMA ServerAgrees ==
  ASSUME FreshIds, TypeInv, TypeInv', Channels, Spoken, Server, conn' = "open",
         NEW s \in Sub, Agrees(s), UNCHANGED <<channels, refused>>
  PROVE  Agrees(s)'
<1>0. Seen(s) /\ UNCHANGED asked
  BY ServerSeen, ServerKeeps DEF Spoken
<1>1. CASE Quiet(s)
  BY <1>0, <1>1 DEF Quiet, SameFrames, SameEntry, SameWords, Agrees
<1>2. CASE Drops(s)
  BY <1>2 DEF Drops
<1>3. CASE Registers(s)
  BY <1>0, <1>3 DEF Registers, SameWords, Agrees
<1>4. CASE Refuses(s, "error") \/ Refuses(s, "closed")
  BY <1>0, <1>4 DEF Refuses, Agrees
<1>5. CASE SaysClosed(s)
  BY <1>0, <1>5 DEF SaysClosed, SameFrames, SameEntry, Agrees
<1>6. CASE TakesOut(s)
  <2>1. s \notin Waits
    BY <1>6 DEF TakesOut, Channels, AskedOnce, New
  <2>2. QED
    BY <1>0, <1>6, <2>1 DEF TakesOut, SameFrames, SameWords, Agrees
<1>7. QED
  BY <1>0, <1>1, <1>2, <1>3, <1>4, <1>5, <1>6 DEF Seen

LEMMA StepAgreeing ==
  ASSUME FreshIds, Together, Connection', [BrowserNext]_allVars
  PROVE  Agreeing'
<1> SUFFICES ASSUME Linked', NEW t \in Sub
             PROVE  Agrees(t)'
  BY DEF Agreeing
<1>0. /\ TypeInv /\ TypeInv' /\ Channels /\ Spoken /\ channels \subseteq Sub /\ refused \subseteq Sub
      /\ Pong \in Requests /\ \A s \in Sub : Subscribe(s) \in Requests /\ Unsubscribe(s) \in Requests
  BY RequestTypesOK DEF Together, Connection, BrowserTypes
<1>1. Linked => Agrees(t)
  BY DEF Together, Agreeing
<1>2. ASSUME UNCHANGED <<table, run, send, reader>>
      PROVE  (Has(t)' <=> Has(t)) /\ \A type : Said(type, t)' <=> Said(type, t)
  BY <1>2 DEF Has, Said, Says, Answers
<1>3. ASSUME NEW s \in Sub, Hold(s) PROVE Agrees(t)'
  <2>1. /\ UNCHANGED <<table, run, send, reader, conn, peer, refused>> /\ channels' = channels \cup {s}
        /\ sock' = IF sock = "none" THEN "connecting" ELSE sock
    BY <1>3 DEF Hold, chans, loops
  <2>2. Linked
    BY <2>1 DEF Linked
  <2>3. s \notin asked /\ inbox' = Append(inbox, Subscribe(s)) /\ asked' = asked \cup {s}
    BY <1>3, <2>2, HoldAsks DEF AskFor
  <2>4. /\ t \in Waits' <=> t \in Waits \/ t = s
        /\ Withdrawn(t)' <=> Withdrawn(t)
    BY <1>0, <2>3, AppendFrames, RequestFacts
  <2>5. CASE t = s
    <3>1. t \notin refused /\ run[t] = "none"
      BY <1>0, <1>1, <2>2, <2>3, <2>5 DEF Agrees, Channels, AskedOnce, New
    <3>2. QED
      BY <1>2, <2>1, <2>3, <2>4, <2>5, <3>1 DEF Agrees
  <2>6. CASE t # s
    BY <1>1, <1>2, <2>1, <2>2, <2>3, <2>4, <2>6 DEF Agrees
  <2>7. QED
    BY <2>5, <2>6
<1>4. ASSUME NEW s \in Sub, LetGo(s) PROVE Agrees(t)'
  <2>1. /\ UNCHANGED <<table, run, send, reader, conn, refused, asked>> /\ channels' = channels \ {s}
        /\ IF channels' = {} THEN CloseSocket ELSE UNCHANGED <<timer, sock, peer>>
    BY <1>4 DEF LetGo, chans, loops
  <2>2. Linked
    BY <2>1 DEF Linked, CloseSocket
  <2>3. CASE s \in channels
    <3>1. inbox' = Append(inbox, Unsubscribe(s))
      BY <1>0, <1>4, <2>2, <2>3, LetGoGives
    <3>2. /\ t \in Waits' <=> t \in Waits
          /\ Withdrawn(t)' <=> Withdrawn(t) \/ t = s
      BY <1>0, <3>1, AppendFrames, RequestFacts
    <3>3. QED
      BY <1>1, <1>2, <2>1, <2>2, <3>2 DEF Agrees
  <2>4. CASE s \notin channels
    <3>1. UNCHANGED inbox /\ channels' = channels
      BY <1>4, <2>1, <2>4, LetGoGives
    <3>2. (t \in Waits' <=> t \in Waits) /\ (Withdrawn(t)' <=> Withdrawn(t))
      BY <3>1 DEF Waits, Withdrawn
    <3>3. QED
      BY <1>1, <1>2, <2>1, <2>2, <3>1, <3>2 DEF Agrees
  <2>5. QED
    BY <2>3, <2>4
<1>5. CASE Opens
  <2>1. refused' = {} /\ channels' = channels /\ asked' = channels
    BY <1>5 DEF Opens
  <2>2. Connect /\ (t \in Waits' <=> t \in channels)
    BY <1>5, OpensConnects
  <2>3. ~Has(t)' /\ run'[t] = "none"
    BY <1>0, <2>2, ConnectClean
  <2>4. QED
    BY <2>1, <2>2, <2>3 DEF Agrees
<1>6. CASE ConnectFails \/ SeesClose \/ Breaks
  BY <1>6 DEF ConnectFails, SeesClose, Closed, Breaks, HangUp, GoSilent, Linked
<1>7. CASE TimerFires \/ UNCHANGED allVars
  <2>1. UNCHANGED <<vars, channels, refused>> /\ (sock' = "open" => sock = "open")
    BY <1>7 DEF TimerFires, allVars, browser
  <2>2. Linked
    BY <2>1 DEF Linked, vars
  <2>3. QED
    BY <1>1, <2>1, <2>2 DEF vars, chans, loops, Agrees, Has, Said, Says, Answers, Withdrawn, Waits
<1>8. CASE Message
  <2> DEFINE h == Head(send)
  <2>1. /\ Linked /\ send # <<>> /\ send' = Tail(send) /\ UNCHANGED <<table, run, reader, asked>>
        /\ inbox' = inbox \/ inbox' = Append(inbox, Pong)
    BY <1>8, MessageReceives DEF Receive, chans, loops
  <2>2. (t \in Waits' <=> t \in Waits) /\ (Withdrawn(t)' <=> Withdrawn(t)) /\ (Has(t)' <=> Has(t))
    <3>1. CASE inbox' = inbox
      BY <2>1, <3>1 DEF Waits, Withdrawn, Has
    <3>2. CASE inbox' = Append(inbox, Pong)
      BY <1>0, <2>1, <3>2, AppendFrames, RequestFacts DEF Has
    <3>3. QED
      BY <2>1, <3>1, <3>2
  <2>3. ToSet(send) = {h} \cup ToSet(send')
    BY <1>0, <2>1, QueueSets DEF TypeInv, TypeOK
  <2>4. Answers = Answers' \cup {h}
    BY <2>1, <2>3 DEF Answers
  <2> HIDE DEF h
  <2>5. /\ Said("error", t)' => Said("error", t)
        /\ Said("error", t) => Said("error", t)' \/ (h.type = "error" /\ h.id = IdOf[t])
        /\ Said("closed", t)' => Said("closed", t)
        /\ Said("closed", t) => Said("closed", t)' \/ (h.type = "closed" /\ h.id = IdOf[t])
    BY <2>4 DEF Said, Says
  <2>6. CASE Deliver \/ DeliverEvent
    <3>1. UNCHANGED <<channels, refused>> /\ h.type \notin {"error", "closed"}
      BY <2>6 DEF Deliver, DeliverEvent, Arrives, browser, h
    <3>2. QED
      BY <1>1, <2>1, <2>2, <2>5, <3>1 DEF Agrees
  <2>7. CASE DeliverError
    <3>1. /\ h.type = "error" /\ channels' = channels /\ refused' = refused \cup {SubOf(h)}
          /\ (t = SubOf(h) <=> h.id = IdOf[t])
      BY <1>0, <2>7, SubOfFacts DEF DeliverError, Spoken, Arrives, h
    <3>2. CASE t = SubOf(h)
      <4>1. Said("error", t)
        BY <2>4, <3>1, <3>2 DEF Said, Says
      <4>2. t \in asked \ Waits /\ ~Has(t)
        BY <1>0, <4>1 DEF Spoken, Refusal
      <4>3. QED
        BY <1>1, <2>1, <2>2, <2>5, <3>1, <3>2, <4>2 DEF Agrees
    <3>3. CASE t # SubOf(h)
      BY <1>1, <2>1, <2>2, <2>5, <3>1, <3>3 DEF Agrees
    <3>4. QED
      BY <3>2, <3>3
  <2>8. CASE DeliverClosed
    <3>1. /\ h.type = "closed" /\ channels' = channels \ {SubOf(h)} /\ refused' = refused
          /\ (t = SubOf(h) <=> h.id = IdOf[t])
      BY <1>0, <2>8, SubOfFacts DEF DeliverClosed, Spoken, Arrives, h
    <3>2. CASE t = SubOf(h)
      <4>1. Said("closed", t)
        BY <2>4, <3>1, <3>2 DEF Said, Says
      <4>2. t \in asked \ Waits /\ (Has(t) => run[t] = "remove")
        BY <1>0, <4>1 DEF Spoken, Ending
      <4>3. QED
        BY <1>1, <2>1, <2>2, <2>5, <3>1, <3>2, <4>2 DEF Agrees
    <3>3. CASE t # SubOf(h)
      BY <1>1, <2>1, <2>2, <2>5, <3>1, <3>3 DEF Agrees
    <3>4. QED
      BY <3>2, <3>3
  <2>9. QED
    BY <1>8, <2>6, <2>7, <2>8 DEF Message
<1>9. CASE Agent
  <2>1. Server /\ UNCHANGED browser /\ conn' \in {conn, "done"} /\ UNCHANGED peer
    BY <1>9, ServerKeeps DEF Agent
  <2>2. Linked /\ conn' = "open" /\ UNCHANGED <<channels, refused>>
    BY <2>1 DEF Linked, browser
  <2>3. QED
    BY <1>0, <1>1, <2>1, <2>2, ServerAgrees
<1>10. QED
  BY <1>3, <1>4, <1>5, <1>6, <1>7, <1>8, <1>9 DEF BrowserNext, Page, Socket

LEMMA InitTogether == BrowserInit => Together
<1> SUFFICES ASSUME BrowserInit PROVE Together
  OBVIOUS
<1>1. Connection
  BY InitType, InitChannels, InitQueue, InitSpoken DEF BrowserInit, Connection
<1>2. channels = {} /\ IsFiniteSet({}) /\ MaxEvents \in Nat /\ MaxFaults \in Nat
  BY ConnectionAssumption, BrowserAssumption, FS_EmptySet
  DEF ConnectionAssumption, BrowserAssumption, BrowserInit
<1>3. BrowserTypes
  <2>1. timer \in BOOLEAN
    BY DEF BrowserInit
  <2>2. QED
    BY <1>2, <2>1 DEF BrowserInit, BrowserTypes
<1>4. ~Linked
  BY DEF BrowserInit, Linked
<1>5. Held
  BY <1>2, <1>4 DEF BrowserInit, Init, Held, NeverStranded
<1>6. QED
  BY <1>1, <1>3, <1>4, <1>5 DEF Together, Following, Agreeing

LEMMA StepTogether == Together /\ [BrowserNext]_allVars => Together'
<1> SUFFICES ASSUME Together, [BrowserNext]_allVars PROVE Together'
  OBVIOUS
<1>1. FreshIds
  BY BrowserAssumption DEF BrowserAssumption
<1>2. [Next]_vars
  BY <1>1, StepImplements
<1>3. Connection'
  <2>1. TypeInv /\ Channels /\ Queue /\ Spoken
    BY DEF Together, Connection
  <2>2. TypeInv'
    BY <1>2, <2>1, StepType
  <2>3. Channels'
    BY <1>1, <1>2, <2>1, StepChannels
  <2>4. Queue'
    BY <1>1, <1>2, <2>1, StepQueue
  <2>5. Spoken'
    BY <1>1, <1>2, <2>1, <2>2, <2>3, StepSpoken
  <2>6. QED
    BY <2>2, <2>3, <2>4, <2>5 DEF Connection
<1>4. BrowserTypes' /\ Held' /\ Following' /\ Agreeing'
  BY <1>1, <1>3, StepBrowserTypes, StepHeld, StepFollowing, StepAgreeing
<1>5. QED
  BY <1>3, <1>4 DEF Together

LEMMA TogetherInvariant == BrowserSpec => []Together
BY InitTogether, StepTogether, PTL DEF BrowserSpec

\* The browser's socket implements the client the agent is proved for: it reuses no
\* number on a connection, asks before it gives up, and sends its channels anew after a
\* break, whatever the page, the network and the timer do in between.
THEOREM SocketImplements == BrowserSpec => ImplementsConnection
<1>1. BrowserInit => Init
  BY DEF BrowserInit
<1>2. Together /\ [BrowserNext]_allVars => [Next]_vars
  BY StepImplements, BrowserAssumption DEF BrowserAssumption
<1>3. QED
  BY <1>1, <1>2, TogetherInvariant, PTL DEF BrowserSpec, ImplementsConnection, Spec

\* No order of subscribe, close, broken connection and timer leaves a subscription of
\* the page without a socket, an attempt to open one, or a timer that will make one.
THEOREM NeverLeftBehind == BrowserSpec => []SocketInv
<1>1. Together => SocketInv
  BY DEF Together, Connection, TypeInv, BrowserTypes, Held, SocketInv, SocketTypeOK
<1>2. QED
  BY <1>1, TogetherInvariant, PTL

\* The events on their way are those after the last one the browser has counted, so it
\* never takes its subscription anew for a gap: the agent drops samples, not numbers.
THEOREM NoEventIsMissed == BrowserSpec => []NothingMissed
<1>1. Together => NothingMissed
  BY DEF Together, Following, NothingMissed
<1>2. QED
  BY <1>1, TogetherInvariant, PTL

\* However subscribe and unsubscribe crossed with a channel's own end, once nothing is
\* on its way the agent has the channels of the browser, but those it refused.
THEOREM EndsAgree == BrowserSpec => []AgreeAtRest
<1>1. Together => AgreeAtRest
  <2> SUFFICES ASSUME Together, AtRest PROVE Registered = channels \ refused
    BY DEF AgreeAtRest
  <2>1. /\ Linked /\ channels \subseteq Sub /\ send = <<>> /\ inbox = <<>> /\ reader.at = "read"
        /\ \A s \in Sub : run[s] \notin {"close", "remove"}
    BY DEF Together, BrowserTypes, AtRest
  <2>2. Answers = {} /\ ToSet(inbox) = {} /\ Waits = {}
    BY <2>1, QueueSets DEF Answers, Waits, ToSet
  <2>3. \A s \in Sub : Agrees(s) /\ ~Said("error", s) /\ ~Said("closed", s) /\ ~Withdrawn(s) /\ s \notin Waits
    BY <2>1, <2>2 DEF Together, Agreeing, Said, Withdrawn
  <2>4. \A s \in Sub : Has(s) <=> s \in channels \ refused
    BY <2>1, <2>3 DEF Agrees
  <2>5. QED
    BY <2>1, <2>4 DEF Registered, Has
<1>2. QED
  BY <1>1, TogetherInvariant, PTL

\* What is proved of the agent's connection holds of it with this browser at the other end.
COROLLARY AgentKeepsItsPart == BrowserSpec => [](TypeOK /\ TableIsExact /\ Gapless /\ SubscribedFirst)
BY SocketImplements, TypeCorrect, TableIsRight, EventsAreGapless, AnswerComesFirst, PTL DEF ImplementsConnection
=============================================================================
