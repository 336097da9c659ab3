---------------------------- MODULE WsConnection ----------------------------
(***************************************************************************)
(* One WebSocket of an agent (internal/wsapi/conn.go, hub.go) and the      *)
(* channels multiplexed on it (channels.go): readLoop takes the client's   *)
(* frames one at a time, every channel has a goroutine that sends events,  *)
(* pingLoop watches the peer, writeLoop empties the send queue.  They meet *)
(* in the bounded queue, in the table of channel ids and in close().       *)
(*                                                                         *)
(* The client is any client that names a subscription once per connection; *)
(* LumioSocket is the one this program has.  A frame is on its way from    *)
(* the moment it is in inbox or send until it is taken out there.          *)
(*                                                                         *)
(* What a client types is not data of the model, only the time it takes to *)
(* write it to a shell is.  A malformed frame, an unknown capability or an *)
(* input that is refused is answered and changes nothing.                  *)
(***************************************************************************)
EXTENDS Naturals, Sequences

CONSTANTS
  Sub,        \* the client's subscriptions: at most one channel each per connection
  NoSub,      \* stands for "no channel"
  Id,         \* channel ids
  IdOf,       \* IdOf[s]: the id the client gives s
  Streaming,  \* the subscriptions whose source can end or fail; the rest are metrics
  SendBuffer, \* capacity of conn.send
  MaxMissed,  \* maxMissedPongs
  MaxEvents   \* bound: events per channel

ASSUME ConnectionAssumption ==
  /\ NoSub \notin Sub
  /\ IdOf \in [Sub -> Id] /\ Streaming \subseteq Sub
  /\ SendBuffer \in Nat \ {0} /\ MaxMissed \in Nat /\ MaxEvents \in Nat

\* The browser numbers its channels and never takes a number twice.
FreshIds == \A s, t \in Sub : IdOf[s] = IdOf[t] => s = t

VARIABLES
  conn,    \* "none", "open", or "done": close() has run
  inbox,   \* frames of the client, not yet read
  send,    \* conn.send, and what writeLoop has handed to the network
  table,   \* conn.channels: the channel registered under an id
  run,     \* run[s]: the goroutine of s
  stopped, \* the channels whose context has been cancelled
  seq,     \* channel.seq
  reader,  \* readLoop: where it is, the channel it starts, the answer it has to send
  pinger,  \* pingLoop
  missed,  \* conn.missed
  peer,    \* "there", "silent": neither reads nor answers nor closes, or "gone"
  asked    \* history: the subscriptions the client has sent on this connection

chans == <<table, run, stopped, seq>>
loops == <<reader, pinger, missed>>
vars == <<conn, inbox, send, chans, loops, peer, asked>>

Frame(type, id, n) == [type |-> type, id |-> id, seq |-> n]
Subscribe(s) == [type |-> "subscribe", sub |-> s]
Unsubscribe(s) == [type |-> "unsubscribe", sub |-> s]
Pong == [type |-> "pong", sub |-> NoSub]
Hello == Frame("hello", NoSub, 0)
Ping == Frame("ping", NoSub, 0)

At(place) == [at |-> place, sub |-> NoSub, out |-> Hello]
Answer(f) == [At("reply") EXCEPT !.out = f]

-----------------------------------------------------------------------------
(***************************************************************************)
(* Queueing a frame, and close().                                          *)
(***************************************************************************)
Room == conn = "open" /\ Len(send) < SendBuffer

\* conn.enqueue: waits for room, gives up when the connection is closed.
Enqueue(f) == \/ Room /\ send' = Append(send, f)
              \/ conn = "done" /\ UNCHANGED send

\* conn.close, by whoever gets there first: every context is done, what is still
\* queued in either direction is lost.
Close == conn' = "done" /\ send' = <<>> /\ inbox' = <<>>

\* Hub.ServeHTTP for a new socket.  The goroutines of an earlier connection, if it
\* is not over yet, share nothing with this one and are not followed further.
Accept ==
  /\ conn # "open" \/ peer = "gone"
  /\ conn' = "open" /\ send' = <<Hello>>
  /\ table' = [i \in Id |-> NoSub]
  /\ run' = [s \in Sub |-> "none"] /\ stopped' = {} /\ seq' = [s \in Sub |-> 0]
  /\ reader' = At("read") /\ pinger' = "wait" /\ missed' = 0
  /\ peer' = "there"

-----------------------------------------------------------------------------
(***************************************************************************)
(* readLoop.                                                               *)
(***************************************************************************)
Takes(type) ==
  /\ conn = "open" /\ reader.at = "read" /\ inbox # <<>>
  /\ Head(inbox).type = type
  /\ inbox' = Tail(inbox)

ReadPong ==
  /\ Takes("pong")
  /\ missed' = 0
  /\ UNCHANGED <<conn, send, chans, reader, pinger, peer, asked>>

\* handleSubscribe, registerChannel.
ReadSubscribe ==
  /\ Takes("subscribe")
  /\ LET s == Head(inbox).sub IN
       IF table[IdOf[s]] = NoSub
         THEN /\ table' = [table EXCEPT ![IdOf[s]] = s]
              /\ reader' = [At("start") EXCEPT !.sub = s]
         ELSE /\ reader' = Answer(Frame("error", IdOf[s], 0))
              /\ UNCHANGED table
  /\ UNCHANGED <<conn, send, run, stopped, seq, pinger, missed, peer, asked>>

\* startChannel: the client is told first, then the goroutine starts.
StartChannel ==
  /\ reader.at = "start"
  /\ Enqueue(Frame("subscribed", IdOf[reader.sub], 0))
  /\ run' = [run EXCEPT ![reader.sub] = "run"]
  /\ reader' = At("read")
  /\ UNCHANGED <<conn, inbox, table, stopped, seq, pinger, missed, peer, asked>>

\* startChannel returns an error: bad parameters, or the source is unavailable.
StartFails ==
  /\ reader.at = "start" /\ reader.sub \in Streaming
  /\ table' = [table EXCEPT ![IdOf[reader.sub]] = NoSub]
  /\ stopped' = stopped \cup {reader.sub}
  /\ reader' = Answer(Frame("error", IdOf[reader.sub], 0))
  /\ UNCHANGED <<conn, inbox, send, run, seq, pinger, missed, peer, asked>>

\* handleUnsubscribe.
ReadUnsubscribe ==
  /\ Takes("unsubscribe")
  /\ LET i == IdOf[Head(inbox).sub] IN
       IF table[i] = NoSub
         THEN /\ reader' = Answer(Frame("error", i, 0))
              /\ UNCHANGED <<table, stopped>>
         ELSE /\ table' = [table EXCEPT ![i] = NoSub]
              /\ stopped' = stopped \cup {table[i]}
              /\ reader' = Answer(Frame("closed", i, 0))
  /\ UNCHANGED <<conn, send, run, seq, pinger, missed, peer, asked>>

Reply ==
  /\ reader.at = "reply"
  /\ Enqueue(reader.out)
  /\ reader' = At("read")
  /\ UNCHANGED <<conn, inbox, chans, pinger, missed, peer, asked>>

\* handleInput, handleTerminalInput: readLoop itself writes to the shell's
\* pseudo-terminal, and waits there as long as nobody on the other side reads.  The
\* frame is not kept in inbox: it is read when it is the next one, and what the client
\* sends after it waits.
ReadInput ==
  /\ conn = "open" /\ reader.at = "read" /\ inbox = <<>> /\ peer = "there"
  /\ \E s \in Streaming : table[IdOf[s]] = s
  /\ reader' = At("input")
  /\ UNCHANGED <<conn, inbox, send, chans, pinger, missed, peer, asked>>

InputDone ==
  /\ reader.at = "input"
  /\ reader' = At("read")
  /\ UNCHANGED <<conn, inbox, send, chans, pinger, missed, peer, asked>>

\* ReadMessage fails: the peer is gone, or close() has been called elsewhere.
ReadEnds ==
  /\ reader.at = "read" /\ (conn = "done" \/ peer = "gone")
  /\ Close
  /\ reader' = At("ended")
  /\ UNCHANGED <<chans, pinger, missed, peer, asked>>

-----------------------------------------------------------------------------
(***************************************************************************)
(* The goroutine of a channel: runMetrics, runServices, runJournal,        *)
(* runTerminal, runUpdateProgress.                                         *)
(***************************************************************************)
Event(s) == Frame("event", IdOf[s], seq[s] + 1)

\* sendEvent, trySendEvent.  Without room the one waits and the other drops its
\* sample, and the number is not used.  Neither looks at the context first, so a
\* cancelled channel may still send.
Emit(s) ==
  /\ run[s] = "run" /\ seq[s] < MaxEvents
  /\ Room
  /\ send' = Append(send, Event(s))
  /\ seq' = [seq EXCEPT ![s] = @ + 1]
  /\ UNCHANGED <<conn, inbox, table, run, stopped, loops, peer, asked>>

GoRun(s, place) == run' = [run EXCEPT ![s] = place]

\* The context is done: the channel's own, or the connection's.
Leave(s) ==
  /\ run[s] = "run" /\ (s \in stopped \/ conn = "done")
  /\ GoRun(s, "ended")
  /\ UNCHANGED <<conn, inbox, send, table, stopped, seq, loops, peer, asked>>

\* The source fails or has nothing more: failChannel, closeChannel.  A shell that
\* exits, or an update that is done, does not ask whether the channel was cancelled.
SourceEnds(s) ==
  /\ s \in Streaming /\ run[s] = "run"
  /\ GoRun(s, "close")
  /\ UNCHANGED <<conn, inbox, send, table, stopped, seq, loops, peer, asked>>

CloseChannel(s) ==
  /\ run[s] = "close"
  /\ Enqueue(Frame("closed", IdOf[s], 0))
  /\ GoRun(s, "remove")
  /\ UNCHANGED <<conn, inbox, table, stopped, seq, loops, peer, asked>>

\* removeChannel takes the id out, whoever has it by now.
RemoveChannel(s) ==
  /\ run[s] = "remove"
  /\ table' = [table EXCEPT ![IdOf[s]] = NoSub]
  /\ stopped' = stopped \cup {s}
  /\ GoRun(s, "ended")
  /\ UNCHANGED <<conn, inbox, send, seq, loops, peer, asked>>

-----------------------------------------------------------------------------
(***************************************************************************)
(* pingLoop and writeLoop.                                                 *)
(***************************************************************************)
InFlight(q, type) == \E k \in DOMAIN q : q[k].type = type

\* Every 30 seconds.  A peer that is there has answered the ping before, which helps
\* nothing while readLoop is in a write.
Tick ==
  /\ conn = "open" /\ pinger = "wait"
  /\ peer # "there" \/ reader.at = "input" \/ ~(InFlight(send, "ping") \/ InFlight(inbox, "pong"))
  /\ IF missed + 1 > MaxMissed
       THEN Close /\ UNCHANGED <<pinger, missed>>
       ELSE missed' = missed + 1 /\ pinger' = "send" /\ UNCHANGED <<conn, send, inbox>>
  /\ UNCHANGED <<chans, reader, peer, asked>>

SendPing ==
  /\ pinger = "send"
  /\ Enqueue(Ping)
  /\ pinger' = "wait"
  /\ UNCHANGED <<conn, inbox, chans, reader, missed, peer, asked>>

PingEnds ==
  /\ conn = "done" /\ pinger = "wait"
  /\ pinger' = "ended"
  /\ UNCHANGED <<conn, inbox, send, chans, reader, missed, peer, asked>>

\* Mutant of WriteFails: no deadline, so only a socket that is closed fails.
WriteHangs ==
  /\ conn = "open" /\ peer = "gone" /\ send # <<>>
  /\ Close
  /\ UNCHANGED <<chans, loops, peer, asked>>

\* The socket is closed, or the write deadline of ten seconds passes.
WriteFails ==
  /\ conn = "open" /\ peer # "there" /\ send # <<>>
  /\ Close
  /\ UNCHANGED <<chans, loops, peer, asked>>

-----------------------------------------------------------------------------
(***************************************************************************)
(* The client and the network.                                             *)
(***************************************************************************)
\* The client hangs up, or the connection breaks.
HangUp ==
  /\ conn # "none" /\ peer # "gone"
  /\ peer' = "gone"
  /\ UNCHANGED <<conn, inbox, send, chans, loops, asked>>

GoSilent ==
  /\ conn = "open" /\ peer = "there"
  /\ peer' = "silent"
  /\ UNCHANGED <<conn, inbox, send, chans, loops, asked>>

\* The next frame reaches the client, which answers a ping, and may hang up.
Receive ==
  /\ conn = "open" /\ peer = "there" /\ send # <<>>
  /\ send' = Tail(send)
  /\ inbox' = IF Head(send) = Ping THEN Append(inbox, Pong) ELSE inbox
  /\ peer' \in {"there", "gone"}
  /\ UNCHANGED <<conn, chans, loops, asked>>

AskFor(s) ==
  /\ conn = "open" /\ peer = "there" /\ s \notin asked
  /\ inbox' = Append(inbox, Subscribe(s))
  /\ asked' = asked \cup {s}
  /\ UNCHANGED <<conn, send, chans, loops, peer>>

GiveUp(s) ==
  /\ conn = "open" /\ peer = "there" /\ s \in asked
  /\ inbox' = Append(inbox, Unsubscribe(s))
  /\ peer' \in {"there", "gone"}
  /\ UNCHANGED <<conn, send, chans, loops, asked>>

\* A client that may begin by asking for subscriptions, each once.
Connect ==
  /\ Accept
  /\ inbox' \in Seq({Subscribe(s) : s \in Sub})
  /\ \A j, k \in DOMAIN inbox' : inbox'[j] = inbox'[k] => j = k
  /\ asked' = {inbox'[k].sub : k \in DOMAIN inbox'}

-----------------------------------------------------------------------------
Init ==
  /\ conn = "none" /\ inbox = <<>> /\ send = <<>>
  /\ table = [i \in Id |-> NoSub]
  /\ run = [s \in Sub |-> "none"] /\ stopped = {} /\ seq = [s \in Sub |-> 0]
  /\ reader = At("ended") /\ pinger = "ended" /\ missed = 0
  /\ peer = "gone" /\ asked = {}

Reader ==
  \/ ReadPong \/ ReadSubscribe \/ ReadUnsubscribe
  \/ StartChannel \/ StartFails \/ Reply \/ ReadEnds

Input == ReadInput \/ InputDone

Serve(s) == Emit(s) \/ Leave(s) \/ SourceEnds(s) \/ CloseChannel(s) \/ RemoveChannel(s)

Pinger == Tick \/ SendPing \/ PingEnds

Server == Reader \/ Input \/ Pinger \/ WriteFails \/ \E s \in Sub : Serve(s)

Client ==
  \/ Connect \/ HangUp \/ GoSilent \/ Receive
  \/ \E s \in Sub : AskFor(s) \/ GiveUp(s)

Next == Server \/ Client

Spec == Init /\ [][Next]_vars

-----------------------------------------------------------------------------
(***************************************************************************)
(* Properties.                                                             *)
(***************************************************************************)
FrameTypes == {"hello", "ping", "subscribed", "event", "closed", "error"}
Frames == [type : FrameTypes, id : Id \cup {NoSub}, seq : Nat]
Places == [at : {"read", "start", "reply", "input", "ended"}, sub : Sub \cup {NoSub}, out : Frames]
Requests == [type : {"subscribe", "unsubscribe"}, sub : Sub] \cup {Pong}

\* Every variable stays within its range.
TypeOK ==
  /\ conn \in {"none", "open", "done"} /\ peer \in {"there", "silent", "gone"}
  /\ inbox \in Seq(Requests) /\ send \in Seq(Frames)
  /\ table \in [Id -> Sub \cup {NoSub}]
  /\ run \in [Sub -> {"none", "run", "close", "remove", "ended"}]
  /\ stopped \subseteq Sub /\ seq \in [Sub -> Nat]
  /\ reader \in Places
  /\ pinger \in {"wait", "send", "ended"} /\ missed \in Nat
  /\ asked \subseteq Sub

\* A channel that runs can be stopped: it is in the table under its id until it
\* is cancelled, and what is in the table is not cancelled.  removeChannel takes
\* an id out without asking whose it is, so this rests on ids that are not reused.
TableIsExact ==
  FreshIds => \A s \in Sub :
    /\ run[s] \in {"run", "close", "remove"} /\ s \notin stopped => table[IdOf[s]] = s
    /\ table[IdOf[s]] = s => s \notin stopped
    /\ table[IdOf[s]] = s /\ run[s] = "ended" => conn = "done"

IsEvent(f, s) == f.type = "event" /\ f.id = IdOf[s]

\* The numbers of a channel's events have no gap and do not turn back, although
\* two kinds of senders number them and one of the two drops frames: in the
\* queue, each event comes before the next one, and the last has the last number.
Gapless ==
  FreshIds => \A s \in Sub : \A k \in DOMAIN send : IsEvent(send[k], s) =>
    /\ send[k].seq <= seq[s]
    /\ send[k].seq < seq[s] =>
         \E m \in DOMAIN send : m > k /\ IsEvent(send[m], s) /\ send[m].seq = send[k].seq + 1
    /\ \A m \in DOMAIN send : m > k /\ IsEvent(send[m], s) => send[m].seq > send[k].seq

\* No event overtakes the frame that says its channel is there.
SubscribedFirst ==
  FreshIds => \A s \in Sub : \A j, k \in DOMAIN send :
    IsEvent(send[j], s) /\ send[k].type = "subscribed" /\ send[k].id = IdOf[s] => k < j
=============================================================================
