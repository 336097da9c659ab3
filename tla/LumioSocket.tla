----------------------------- MODULE LumioSocket -----------------------------
(***************************************************************************)
(* The browser's end of the WebSocket (src/api/ws.ts, LumioSocket) against *)
(* the agent's (WsConnection): parts of the page hold subscriptions, one   *)
(* socket carries them all, it is opened with the first, closed with the   *)
(* last, and opened again with all of them when it breaks.                 *)
(*                                                                         *)
(* sock is this.ws and this.open.  A frame sent on a socket whose other    *)
(* end is gone is lost.  attempts only sets the length of a delay, and     *)
(* confirmed only what onSubscribed is told; both are left out.            *)
(***************************************************************************)
EXTENDS WsConnection, SequencesExt

CONSTANT MaxFaults \* bound: broken connections and failed attempts to connect

ASSUME BrowserAssumption == MaxFaults \in Nat /\ FreshIds

VARIABLES
  sock,     \* "none", "connecting" or "open"
  timer,    \* is a reconnect scheduled?
  life,     \* life[s]: "new", "held" by a part of the page, or "left"
  channels, \* this.channels
  lastSeq,  \* this.lastSeq, 0 for a channel it does not have
  refused,  \* history: the subscriptions answered with an error on this connection
  faults

browser == <<sock, timer, life, channels, lastSeq, refused, faults>>
allVars == <<vars, browser>>

\* The browser holds the current connection, and frames pass.
Linked == sock = "open" /\ conn = "open" /\ peer = "there"

SendFrames(frames) == inbox' = IF Linked THEN inbox \o frames ELSE inbox

\* closeSocket; the agent finds out by itself.
CloseSocket ==
  /\ timer' = FALSE /\ sock' = "none"
  /\ peer' = IF sock = "open" THEN "gone" ELSE peer

-----------------------------------------------------------------------------
(***************************************************************************)
(* The page: subscribe and the handle's close.                             *)
(***************************************************************************)
Hold(s) ==
  /\ life[s] = "new"
  /\ life' = [life EXCEPT ![s] = "held"]
  /\ channels' = channels \cup {s}
  /\ sock' = IF sock = "none" THEN "connecting" ELSE sock
  /\ SendFrames(<<Subscribe(s)>>)
  /\ asked' = IF Linked THEN asked \cup {s} ELSE asked
  /\ UNCHANGED <<conn, send, chans, loops, peer, timer, lastSeq, refused, faults>>

\* The handle's close.
LetGo(s) ==
  /\ life[s] = "held"
  /\ life' = [life EXCEPT ![s] = "left"]
  /\ channels' = channels \ {s} /\ lastSeq' = [lastSeq EXCEPT ![s] = 0]
  /\ SendFrames(IF s \in channels THEN <<Unsubscribe(s)>> ELSE <<>>)
  /\ IF channels' = {} THEN CloseSocket ELSE UNCHANGED <<timer, sock, peer>>
  /\ UNCHANGED <<conn, send, chans, loops, asked, refused, faults>>

-----------------------------------------------------------------------------
(***************************************************************************)
(* The socket: onopen, onclose, the reconnect timer.                       *)
(***************************************************************************)
\* onopen: every channel is subscribed, on a connection that knows of none.
Opens ==
  /\ sock = "connecting"
  /\ Accept
  /\ inbox' = SetToSeq({Subscribe(s) : s \in channels}) /\ asked' = channels
  /\ sock' = "open" /\ refused' = {}
  /\ UNCHANGED <<timer, life, channels, lastSeq, faults>>

\* Mutant of Closed: with a channel left, the reconnect is left to the next subscribe.
ClosedForGood ==
  /\ sock' = "none" /\ lastSeq' = [s \in Sub |-> 0]
  /\ UNCHANGED timer

\* Mutant of Closed: what was received before the break is still counted.
ClosedKeepingSeq ==
  /\ sock' = "none" /\ timer' = (timer \/ channels # {})
  /\ UNCHANGED lastSeq

\* onclose, scheduleReconnect.
Closed ==
  /\ sock' = "none" /\ lastSeq' = [s \in Sub |-> 0]
  /\ timer' = (timer \/ channels # {})

ConnectFails ==
  /\ sock = "connecting" /\ faults < MaxFaults
  /\ faults' = faults + 1
  /\ Closed
  /\ UNCHANGED <<vars, life, channels, refused>>

\* The browser notices that the connection is over.
SeesClose ==
  /\ sock = "open" /\ (conn = "done" \/ peer = "gone")
  /\ Closed
  /\ UNCHANGED <<vars, life, channels, refused, faults>>

\* Mutant of TimerFires: it does not connect.
TimerFiresIdle ==
  /\ timer /\ timer' = FALSE
  /\ UNCHANGED <<vars, sock, life, channels, lastSeq, refused, faults>>

\* ensureConnected does nothing when a subscribe has connected meanwhile.
TimerFires ==
  /\ timer /\ timer' = FALSE
  /\ sock' = IF sock = "none" /\ channels # {} THEN "connecting" ELSE sock
  /\ UNCHANGED <<vars, life, channels, lastSeq, refused, faults>>

-----------------------------------------------------------------------------
(***************************************************************************)
(* handleMessage.                                                          *)
(***************************************************************************)
Arrives(type) ==
  /\ Linked /\ send # <<>> /\ Head(send).type = type
  /\ send' = Tail(send)

SubOf(f) == CHOOSE s \in Sub : IdOf[s] = f.id

\* hello, ping and subscribed change nothing the model has but the answer to a ping.
Deliver ==
  /\ \E type \in {"hello", "ping", "subscribed"} : Arrives(type)
  /\ SendFrames(IF Head(send) = Ping THEN <<Pong>> ELSE <<>>)
  /\ UNCHANGED <<conn, chans, loops, peer, asked, browser>>

\* Mutant of DeliverEvent: the next number is already taken for a gap.
DeliverEventNext ==
  /\ Arrives("event")
  /\ LET s == SubOf(Head(send)) n == Head(send).seq
         gap == lastSeq[s] # 0 /\ n > lastSeq[s] IN
       /\ lastSeq' = [lastSeq EXCEPT ![s] = IF s \notin channels THEN @ ELSE IF gap THEN 0 ELSE n]
       /\ SendFrames(IF s \in channels /\ gap THEN <<Unsubscribe(s), Subscribe(s)>> ELSE <<>>)
  /\ UNCHANGED <<conn, chans, loops, peer, asked, sock, timer, life, channels, refused, faults>>

\* handleEvent.  After a gap the browser takes its subscription anew.
DeliverEvent ==
  /\ Arrives("event")
  /\ LET s == SubOf(Head(send)) n == Head(send).seq
         gap == lastSeq[s] # 0 /\ n > lastSeq[s] + 1 IN
       /\ lastSeq' = [lastSeq EXCEPT ![s] = IF s \notin channels THEN @ ELSE IF gap THEN 0 ELSE n]
       /\ SendFrames(IF s \in channels /\ gap THEN <<Unsubscribe(s), Subscribe(s)>> ELSE <<>>)
  /\ UNCHANGED <<conn, chans, loops, peer, asked, sock, timer, life, channels, refused, faults>>

\* onError; the subscription stays, and is sent again on the next connection.
DeliverError ==
  /\ Arrives("error")
  /\ refused' = refused \cup {SubOf(Head(send))}
  /\ UNCHANGED <<conn, inbox, chans, loops, peer, asked, sock, timer, life, channels, lastSeq, faults>>

\* Mutant of DeliverClosed: a channel the agent has closed stays subscribed.
DeliverClosedIgnored ==
  /\ Arrives("closed")
  /\ UNCHANGED <<conn, inbox, chans, loops, peer, asked, browser>>

DeliverClosed ==
  /\ Arrives("closed")
  /\ LET s == SubOf(Head(send)) IN
       /\ channels' = channels \ {s}
       /\ lastSeq' = [lastSeq EXCEPT ![s] = 0]
  /\ IF channels' = {} THEN CloseSocket ELSE UNCHANGED <<timer, sock, peer>>
  /\ UNCHANGED <<conn, inbox, chans, loops, asked, life, refused, faults>>

-----------------------------------------------------------------------------
(***************************************************************************)
(* The network.                                                            *)
(***************************************************************************)
Breaks ==
  /\ sock = "open" /\ faults < MaxFaults
  /\ HangUp \/ GoSilent
  /\ faults' = faults + 1
  /\ UNCHANGED <<sock, timer, life, channels, lastSeq, refused>>

-----------------------------------------------------------------------------
BrowserInit ==
  /\ Init
  /\ sock = "none" /\ timer = FALSE /\ faults = 0
  /\ life = [s \in Sub |-> "new"] /\ channels = {}
  /\ lastSeq = [s \in Sub |-> 0] /\ refused = {}

Page == \E s \in Sub : Hold(s) \/ LetGo(s)

Socket == Opens \/ ConnectFails \/ SeesClose \/ TimerFires

Message == Deliver \/ DeliverEvent \/ DeliverError \/ DeliverClosed

Agent == Server /\ UNCHANGED browser

BrowserNext == Page \/ Socket \/ Message \/ Agent \/ Breaks

BrowserSpec == BrowserInit /\ [][BrowserNext]_allVars

\* The browser's event loop and timers run, and an attempt to connect ends; so do
\* the agent's goroutines, each on its own.  A program need not read its input, but
\* once the connection is done its shell is detached and killed when the grace is over
\* (Terminal), which ends a write to it.  Nobody has to subscribe or to leave, and
\* nothing has to break.
FairSpec ==
  /\ BrowserSpec
  /\ WF_allVars(Opens) /\ WF_allVars(SeesClose) /\ WF_allVars(TimerFires) /\ WF_allVars(Message)
  /\ WF_allVars(Reader /\ UNCHANGED browser)
  /\ WF_allVars(InputDone /\ conn = "done" /\ UNCHANGED browser)
  /\ WF_allVars(Pinger /\ UNCHANGED browser)
  /\ WF_allVars(WriteFails /\ UNCHANGED browser)
  /\ \A s \in Sub :
       /\ WF_allVars(Leave(s) /\ UNCHANGED browser)
       /\ WF_allVars((CloseChannel(s) \/ RemoveChannel(s)) /\ UNCHANGED browser)

-----------------------------------------------------------------------------
(***************************************************************************)
(* Properties.                                                             *)
(***************************************************************************)
\* Every variable stays within its range.
SocketTypeOK ==
  /\ TypeOK
  /\ sock \in {"none", "connecting", "open"} /\ timer \in BOOLEAN /\ faults \in 0..MaxFaults
  /\ life \in [Sub -> {"new", "held", "left"}]
  /\ channels \subseteq {s \in Sub : life[s] = "held"} /\ refused \subseteq Sub
  /\ lastSeq \in [Sub -> 0..MaxEvents]

\* While a part of the page waits for events, the browser has a socket, is getting
\* one, or has a timer that will: no order of subscribe, close, broken connection
\* and timer leaves a subscription with none of them.
NeverStranded == channels # {} => sock # "none" \/ timer

\* What the browser keeps of its socket fits together.
SocketInv == SocketTypeOK /\ NeverStranded

EventNumbers(s) == {send[k].seq : k \in {j \in DOMAIN send : IsEvent(send[j], s)}}

\* The events on their way to a subscription are exactly those after the last one
\* it has seen, also after reconnecting: no gap, so none is taken for a lost event.
NothingMissed ==
  \A s \in channels : Linked => EventNumbers(s) = (lastSeq[s] + 1)..seq[s]

Registered == {s \in Sub : table[IdOf[s]] = s}

\* Nothing is on its way, and no goroutine is about to send.
AtRest ==
  /\ Linked /\ send = <<>> /\ inbox = <<>> /\ reader.at = "read"
  /\ \A s \in Sub : run[s] \notin {"close", "remove"}

\* When nothing is on its way, the agent has the channels the browser believes to
\* have, but for those it has refused: whatever the two did to them at once.
AgreeAtRest == AtRest => Registered = channels \ refused

\* The connection the agent sees is the lawful one WsConnection's theorems assume:
\* ids in use once, and frames the browser may send.
ImplementsConnection == Spec

Over(s) == run[s] \in {"none", "ended"}

\* A connection the browser has lost interest in, or that fell silent, comes to an
\* end with all its goroutines, although they may be waiting for room in a queue
\* that nobody empties.  (Or the browser is back, with a connection of its own.)
DeadConnectionEnds ==
  (conn = "open" /\ peer # "there") ~>
    (peer = "there" \/ (conn = "done" /\ reader.at = "ended" /\ pinger = "ended" /\ \A s \in Sub : Over(s)))

\* A subscription is served in the end, after any of the faults: registered on the
\* connection the browser has, unless it is refused, or ends, or is given up.
Resubscribed ==
  \A s \in Sub : s \in channels ~> (s \notin channels \/ (sock = "open" /\ s \in Registered \cup refused))
=============================================================================
