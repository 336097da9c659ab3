------------------------------ MODULE Terminal ------------------------------
(***************************************************************************)
(* One PTY session of the agent (internal/terminal) and the clients that   *)
(* open it, lose it, find it again and leave it (terminal.open channels of *)
(* internal/wsapi).  Sessions share nothing but the manager's map.         *)
(*                                                                         *)
(* The goroutines: readLoop copies what the shell prints to the scrollback *)
(* and to the attached client's channel; waitLoop reaps the shell; one     *)
(* runTerminal per client; the grace timers.  Every critical section of    *)
(* Session.mu is one step.  Output is counted in chunks, one per read.     *)
(***************************************************************************)
EXTENDS Integers, Sequences

CONSTANTS
  Client,       \* terminal.open subscriptions; each is one channel's life
  NoClient,     \* stands for "no client"
  MaxOut,       \* bound: the chunks the shell may print
  Scrollback,   \* the chunks the scrollback keeps (MaxScrollback)
  Buffer,       \* capacity of an attachment's Events channel
  MayExit,      \* may the shell exit by itself?
  MayUnsubscribe \* may a client unsubscribe (or only lose its socket)?

ASSUME TerminalAssumption ==
  /\ NoClient \notin Client
  /\ MaxOut \in Nat /\ Scrollback \in Nat \ {0} /\ Buffer \in Nat \ {0}
  /\ MayExit \in BOOLEAN /\ MayUnsubscribe \in BOOLEAN

VARIABLES
  shell,     \* the process: "none", "running", "dead"
  printed,   \* chunks written to the PTY
  out,       \* chunks read from it and appended to Session.scrollback
  open,      \* is ptmx open?
  reader,    \* readLoop: where it is, and the attachment it publishes to
  waiter,    \* waitLoop: where it is, and whether it saw a client attached
  listed,    \* is the session in Manager.sessions?
  attached,  \* Session.attached
  gen,       \* whose Session.gen and dataCh are
  queue,     \* queue[c]: the buffer of c's Events channel
  grace,     \* whose timer Session.graceTimer points to
  timer,     \* timer[c]: the time.AfterFunc c's detach armed
  pc,        \* pc[c]: how far c's subscription has come
  replay,    \* replay[c]: what is left of Attachment.Replay
  cancelled, \* cancelled[c]: is the channel's context done?
  kill,      \* kill[c]: channel.kill, and the value Detach was given
  got        \* got[c]: the chunks c was sent, and the first it should get (history)

session == <<listed, attached, gen, grace, timer>>
pty == <<shell, printed, out, open>>
client == <<pc, replay, cancelled, kill, got>>
vars == <<pty, reader, waiter, session, queue, client>>

Nothing == [from |-> 0, seq |-> <<>>]
Exited == waiter.at # "waiting"          \* Session.exited
Done == waiter.at \in {"closed", "ended"} \* Session.done is closed

\* The scrollback: the last chunks read.
Kept == IF out < Scrollback THEN out ELSE Scrollback
Snapshot == [i \in 1..Kept |-> out - Kept + i]

Serving == {"attached", "replay", "stream", "drain", "detach"}

StopTimer(c) == IF c = NoClient THEN timer ELSE [timer EXCEPT ![c] = IF @ = "armed" THEN "none" ELSE @]

\* Stops the timer graceTimer points to; kills the process and closes the PTY.
Kill ==
  /\ timer' = StopTimer(grace)
  /\ grace' = NoClient
  /\ shell' = IF Exited THEN shell ELSE "dead"
  /\ open' = FALSE
  /\ UNCHANGED <<printed, out>>

-----------------------------------------------------------------------------
(***************************************************************************)
(* The shell and the two goroutines of the session.                        *)
(***************************************************************************)
ShellWrites ==
  /\ shell = "running" /\ open /\ printed < MaxOut
  /\ printed' = printed + 1
  /\ UNCHANGED <<shell, out, open, reader, waiter, session, queue, client>>

Exit ==
  /\ MayExit /\ shell = "running"
  /\ shell' = "dead"
  /\ UNCHANGED <<printed, out, open, reader, waiter, session, queue, client>>

\* A chunk goes to the scrollback, and to whoever is attached at that moment.
Read ==
  /\ reader.at = "read" /\ open /\ out < printed
  /\ out' = out + 1
  /\ reader' = IF attached THEN [at |-> "publish", to |-> gen] ELSE reader
  /\ UNCHANGED <<shell, printed, open, waiter, session, queue, client>>

\* Mutant of Publish: a chunk the client has no room for is dropped.
PublishOrDrop ==
  /\ reader.at = "publish"
  /\ reader' = [at |-> "read", to |-> NoClient]
  /\ \/ /\ Len(queue[reader.to]) < Buffer
        /\ queue' = [queue EXCEPT ![reader.to] = Append(@, out)]
     \/ UNCHANGED queue
  /\ UNCHANGED <<pty, waiter, session, client>>

\* Mutant of Publish: detach does not close gen.
PublishWithoutGen ==
  /\ reader.at = "publish"
  /\ reader' = [at |-> "read", to |-> NoClient]
  /\ \/ /\ Len(queue[reader.to]) < Buffer
        /\ queue' = [queue EXCEPT ![reader.to] = Append(@, out)]
     \/ Done /\ UNCHANGED queue
  /\ UNCHANGED <<pty, waiter, session, client>>

\* select: the chunk fits into Events, or gen or done is closed.
Publish ==
  /\ reader.at = "publish"
  /\ reader' = [at |-> "read", to |-> NoClient]
  /\ \/ /\ Len(queue[reader.to]) < Buffer
        /\ queue' = [queue EXCEPT ![reader.to] = Append(@, out)]
     \/ /\ ~(attached /\ gen = reader.to) \/ Done
        /\ UNCHANGED queue
  /\ UNCHANGED <<pty, waiter, session, client>>

\* EIO: the PTY is closed, or the shell is gone and everything is read.
ReadFails ==
  /\ reader.at = "read"
  /\ ~open \/ (shell = "dead" /\ out = printed)
  /\ reader' = [at |-> "ended", to |-> NoClient]
  /\ UNCHANGED <<pty, waiter, session, queue, client>>

Wait ==
  /\ waiter.at = "waiting" /\ shell = "dead"
  /\ waiter' = [at |-> "reaped", attached |-> attached]
  /\ UNCHANGED <<pty, reader, session, queue, client>>

\* Mutant of CloseDone: waitLoop leaves the map to detach.
CloseDoneOnly ==
  /\ waiter.at = "reaped"
  /\ waiter' = [waiter EXCEPT !.at = "ended"]
  /\ UNCHANGED <<pty, reader, session, queue, client>>

\* close(done); the session is left to a client that was attached when it exited.
CloseDone ==
  /\ waiter.at = "reaped"
  /\ waiter' = [waiter EXCEPT !.at = IF waiter.attached THEN "ended" ELSE "closed"]
  /\ UNCHANGED <<pty, reader, session, queue, client>>

WaitGone ==
  /\ waiter.at = "closed"
  /\ waiter' = [waiter EXCEPT !.at = "ended"]
  /\ listed' = FALSE
  /\ UNCHANGED <<pty, reader, attached, gen, grace, timer, queue, client>>

\* The callback of a grace timer; the timer it stops may be another.
Fire(c) ==
  /\ timer[c] = "armed"
  /\ timer' = [timer EXCEPT ![c] = "fired"]
  /\ UNCHANGED <<pty, reader, waiter, listed, attached, gen, grace, queue, client>>

GraceKill(c) ==
  /\ timer[c] = "fired"
  /\ shell' = IF Exited THEN shell ELSE "dead"
  /\ open' = FALSE
  /\ timer' = [StopTimer(grace) EXCEPT ![c] = "none"]
  /\ grace' = NoClient
  /\ UNCHANGED <<printed, out, reader, waiter, listed, attached, gen, queue, client>>

-----------------------------------------------------------------------------
(***************************************************************************)
(* A client.                                                               *)
(***************************************************************************)
Go(c, place) == pc' = [pc EXCEPT ![c] = place]

\* Manager.Open: the shell runs and the session is listed before anyone attaches.
Open(c) ==
  /\ pc[c] = "idle" /\ shell = "none"
  /\ shell' = "running" /\ open' = TRUE
  /\ listed' = TRUE
  /\ Go(c, "opened")
  /\ UNCHANGED <<printed, out, reader, waiter, attached, gen, grace, timer, queue,
                 replay, cancelled, kill, got>>

MayAttach(c) == pc[c] = "opened" \/ (pc[c] = "idle" /\ \E d \in Client : pc[d] \notin {"idle", "opened"})

\* Manager.Attach: the replay and the new channel are taken under one lock.
Attach(c) ==
  /\ MayAttach(c)
  /\ listed /\ ~Exited /\ ~attached
  /\ attached' = TRUE /\ gen' = c
  /\ timer' = StopTimer(grace) /\ grace' = NoClient
  /\ replay' = [replay EXCEPT ![c] = Snapshot]
  /\ got' = [got EXCEPT ![c].from = out - Kept + 1]
  /\ Go(c, "attached")
  /\ UNCHANGED <<pty, reader, waiter, listed, queue, cancelled, kill>>

\* ErrNotFound or ErrConflict; whoever just opened the session kills it.
AttachFails(c) ==
  /\ MayAttach(c)
  /\ ~listed \/ Exited \/ attached
  /\ cancelled' = [cancelled EXCEPT ![c] = TRUE]
  /\ Go(c, "left")
  /\ IF pc[c] = "opened" THEN Kill /\ UNCHANGED <<listed, attached, gen>>
                         ELSE UNCHANGED <<pty, session>>
  /\ UNCHANGED <<reader, waiter, queue, replay, kill, got>>

\* runTerminal begins: the argument of the deferred Detach is evaluated now.
Start(c) ==
  /\ pc[c] = "attached"
  /\ kill' = [kill EXCEPT ![c].arg = kill[c].flag]
  /\ Go(c, "replay")
  /\ UNCHANGED <<pty, reader, waiter, session, queue, replay, cancelled, got>>

SendTo(c, chunk) == got' = [got EXCEPT ![c].seq = Append(@, chunk)]

SendReplay(c) ==
  /\ pc[c] = "replay"
  /\ IF replay[c] = <<>>
       THEN Go(c, "stream") /\ UNCHANGED <<replay, got>>
       ELSE /\ SendTo(c, Head(replay[c]))
            /\ replay' = [replay EXCEPT ![c] = Tail(@)]
            /\ UNCHANGED pc
  /\ UNCHANGED <<pty, reader, waiter, session, queue, cancelled, kill>>

\* The next chunk of Events goes out, or is dropped because the channel is
\* cancelled; select may choose it before it notices either end.
Receive(c, place) ==
  /\ pc[c] = place /\ queue[c] # <<>>
  /\ queue' = [queue EXCEPT ![c] = Tail(@)]
  /\ \/ SendTo(c, Head(queue[c])) /\ UNCHANGED pc
     \/ cancelled[c] /\ Go(c, "detach") /\ UNCHANGED got
  /\ UNCHANGED <<pty, reader, waiter, session, replay, cancelled, kill>>

Stream(c) == Receive(c, "stream")
Drain(c) == Receive(c, "drain")

SeesDone(c) ==
  /\ pc[c] = "stream" /\ Done
  /\ Go(c, "drain")
  /\ UNCHANGED <<pty, reader, waiter, session, queue, replay, cancelled, kill, got>>

\* Nothing more in Events: the exit event, then closeChannel.
SendExit(c) ==
  /\ pc[c] = "drain" /\ queue[c] = <<>>
  /\ cancelled' = [cancelled EXCEPT ![c] = TRUE]
  /\ Go(c, "detach")
  /\ UNCHANGED <<pty, reader, waiter, session, queue, replay, kill, got>>

SeesCancel(c) ==
  /\ pc[c] \in {"replay", "stream", "drain"} /\ cancelled[c]
  /\ Go(c, "detach")
  /\ UNCHANGED <<pty, reader, waiter, session, queue, replay, cancelled, kill, got>>

AfterDetach(c) == IF kill[c].arg THEN "kill" ELSE "left"

\* Mutant of Detach: the session leaves the map with its client.
DetachAndForget(c) ==
  /\ pc[c] = "detach"
  /\ attached' = IF gen = c THEN FALSE ELSE attached
  /\ Go(c, "gone")
  /\ replay' = [replay EXCEPT ![c] = <<>>]
  /\ got' = [got EXCEPT ![c] = Nothing]
  /\ UNCHANGED <<pty, reader, waiter, listed, gen, grace, timer, queue, cancelled, kill>>

\* Session.detach, first critical section; the loop's own data are garbage now.
Detach(c) ==
  /\ pc[c] = "detach"
  /\ attached' = IF gen = c THEN FALSE ELSE attached
  /\ Go(c, IF Exited THEN "gone" ELSE "arm")
  /\ replay' = [replay EXCEPT ![c] = <<>>]
  /\ got' = [got EXCEPT ![c] = Nothing]
  /\ UNCHANGED <<pty, reader, waiter, listed, gen, grace, timer, queue, cancelled, kill>>

DetachGone(c) ==
  /\ pc[c] = "gone"
  /\ listed' = FALSE
  /\ Go(c, AfterDetach(c))
  /\ UNCHANGED <<pty, reader, waiter, attached, gen, grace, timer, queue, replay, cancelled, kill, got>>

\* Mutant of ArmGrace: no timer is armed.
ArmNothing(c) ==
  /\ pc[c] = "arm"
  /\ Go(c, AfterDetach(c))
  /\ UNCHANGED <<pty, reader, waiter, session, queue, replay, cancelled, kill, got>>

\* Session.detach, second critical section; others may have come in between.
ArmGrace(c) ==
  /\ pc[c] = "arm"
  /\ timer' = [timer EXCEPT ![c] = "armed"]
  /\ grace' = c
  /\ Go(c, AfterDetach(c))
  /\ UNCHANGED <<pty, reader, waiter, listed, attached, gen, queue, replay, cancelled, kill, got>>

KillNow(c) ==
  /\ pc[c] = "kill"
  /\ Kill
  /\ Go(c, "left")
  /\ UNCHANGED <<reader, waiter, listed, attached, gen, queue, replay, cancelled, kill, got>>

InChannel(c) == pc[c] \in {"attached", "replay", "stream", "drain"} /\ ~cancelled[c]

\* The socket drops: every channel's context is done.
Drop(c) ==
  /\ InChannel(c)
  /\ cancelled' = [cancelled EXCEPT ![c] = TRUE]
  /\ UNCHANGED <<pty, reader, waiter, session, queue, pc, replay, kill, got>>

Unsubscribe(c) ==
  /\ MayUnsubscribe /\ InChannel(c)
  /\ kill' = [kill EXCEPT ![c].flag = TRUE]
  /\ cancelled' = [cancelled EXCEPT ![c] = TRUE]
  /\ UNCHANGED <<pty, reader, waiter, session, queue, pc, replay, got>>

-----------------------------------------------------------------------------
Init ==
  /\ shell = "none" /\ printed = 0 /\ out = 0 /\ open = FALSE
  /\ reader = [at |-> "read", to |-> NoClient]
  /\ waiter = [at |-> "waiting", attached |-> FALSE]
  /\ listed = FALSE /\ attached = FALSE /\ gen = NoClient
  /\ grace = NoClient /\ timer = [c \in Client |-> "none"]
  /\ queue = [c \in Client |-> <<>>]
  /\ pc = [c \in Client |-> "idle"]
  /\ replay = [c \in Client |-> <<>>]
  /\ cancelled = [c \in Client |-> FALSE]
  /\ kill = [c \in Client |-> [flag |-> FALSE, arg |-> FALSE]]
  /\ got = [c \in Client |-> Nothing]

\* runTerminal: what c's goroutine does next.
Serve(c) ==
  \/ Start(c) \/ SendReplay(c) \/ Stream(c) \/ Drain(c)
  \/ SeesDone(c) \/ SendExit(c) \/ SeesCancel(c)
  \/ Detach(c) \/ DetachGone(c) \/ ArmGrace(c) \/ KillNow(c)

Subscribe(c) == Open(c) \/ Attach(c) \/ AttachFails(c)

Reader == Read \/ Publish \/ ReadFails

Waiter == Wait \/ CloseDone \/ WaitGone

Idle ==
  /\ \A c \in Client : pc[c] = "left" /\ timer[c] = "none"
  /\ reader.at = "ended" /\ waiter.at = "ended"
  /\ UNCHANGED vars

Next ==
  \/ ShellWrites \/ Exit
  \/ Reader \/ Waiter
  \/ \E c \in Client : Subscribe(c) \/ Serve(c) \/ Drop(c) \/ Unsubscribe(c) \/ Fire(c) \/ GraceKill(c)
  \/ Idle

Spec == Init /\ [][Next]_vars

\* Goroutines run and timers fire; what the shell and the clients do is their own
\* business.  A client that stops reading is cut off by the write deadline, so a
\* send to it does not block for ever.
FairSpec ==
  /\ Spec
  /\ WF_vars(Reader) /\ WF_vars(Waiter)
  /\ \A c \in Client :
       WF_vars(Serve(c)) /\ WF_vars(Fire(c)) /\ WF_vars(GraceKill(c))
       /\ WF_vars(pc[c] = "opened" /\ Subscribe(c))

-----------------------------------------------------------------------------
(***************************************************************************)
(* Properties.                                                             *)
(***************************************************************************)
Place == {"idle", "opened", "gone", "arm", "kill", "left"} \cup Serving

\* Every variable stays within its range.
TypeOK ==
  /\ shell \in {"none", "running", "dead"} /\ open \in BOOLEAN
  /\ printed \in 0..MaxOut /\ out \in 0..printed
  /\ reader \in [at : {"read", "publish", "ended"}, to : Client \cup {NoClient}]
  /\ waiter \in [at : {"waiting", "reaped", "closed", "ended"}, attached : BOOLEAN]
  /\ listed \in BOOLEAN /\ attached \in BOOLEAN
  /\ gen \in Client \cup {NoClient} /\ grace \in Client \cup {NoClient}
  /\ timer \in [Client -> {"none", "armed", "fired"}]
  /\ queue \in [Client -> Seq(1..MaxOut)] /\ replay \in [Client -> Seq(1..MaxOut)]
  /\ pc \in [Client -> Place]
  /\ cancelled \in [Client -> BOOLEAN]
  /\ kill \in [Client -> [flag : BOOLEAN, arg : BOOLEAN]]
  /\ got \in [Client -> [from : 0..(MaxOut + 1), seq : Seq(1..MaxOut)]]

Continuous(c) == \A i \in DOMAIN got[c].seq : got[c].seq[i] = got[c].from + i - 1

\* What a client is sent is the scrollback and then every later chunk, once and in
\* order: nothing falls between the replay and the stream, and the chunk that
\* readLoop held for the client before does not show up twice (attach, readLoop,
\* detach).  While the shell lives.
NoGapWhileRunning == ~Done => \A c \in Client : Continuous(c)

\* Two clients never stream one PTY, however attach and the two halves of detach
\* interleave.
OneClientAtATime ==
  \A c, d \in Client : pc[c] \in Serving /\ pc[d] \in Serving => c = d

\* A live session can be found by its token: nobody takes it from the map early.
ListedWhileAlive == shell # "none" /\ ~Exited => listed

\* A session that exits while clients come and go is taken from the map by waitLoop
\* or by detach: neither relies on the other when the exit falls between them.
GoneOnceLeft ==
  /\ Exited /\ ~attached /\ waiter.at = "ended"
  /\ \A c \in Client : pc[c] # "gone"
  => ~listed

\* A session that has exited does not stay in the map: it would keep the agent
\* from ever being idle.
ExitedIsRemoved == Exited ~> ~listed

\* A session nobody is attached to, and nobody attaches to again, is killed.
UnattendedIsKilled == (shell = "running" /\ ~attached) ~> (attached \/ shell = "dead")

\* readLoop does not stay blocked on a client that is gone, or slow.
ReaderIsFreed == (reader.at = "publish") ~> (reader.at # "publish")

\* The grace period does not run out while a client is attached.  It may, when the client
\* comes back between the two halves of detach: no run checks this, see the README, section 4.
GraceOnlyUnattended ==
  [][\A c \in Client : timer[c] = "armed" /\ timer'[c] = "fired" => ~attached]_vars

=============================================================================
