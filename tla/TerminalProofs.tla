--------------------------- MODULE TerminalProofs ---------------------------
(***************************************************************************)
(* Theorems about Terminal, for every set of clients and every bound.      *)
(***************************************************************************)
EXTENDS Terminal, SequenceTheorems, TLAPS

-----------------------------------------------------------------------------
(***************************************************************************)
(* Control: who is where.                                                  *)
(***************************************************************************)
ControlType ==
  /\ shell \in {"none", "running", "dead"} /\ open \in BOOLEAN
  /\ reader \in [at : {"read", "publish", "ended"}, to : Client \cup {NoClient}]
  /\ waiter \in [at : {"waiting", "reaped", "closed", "ended"}, attached : BOOLEAN]
  /\ listed \in BOOLEAN /\ attached \in BOOLEAN
  /\ gen \in Client \cup {NoClient} /\ grace \in Client \cup {NoClient}
  /\ timer \in [Client -> {"none", "armed", "fired"}]
  /\ pc \in [Client -> Place]

\* A chunk is published to a client that has come; whoever is in runTerminal holds
\* the attachment, and nobody else does.
Roles ==
  /\ reader.at = "publish" => reader.to \in Client /\ pc[reader.to] \notin {"idle", "opened"}
  /\ attached => gen \in Client /\ pc[gen] \in Serving
  /\ \A c \in Client : pc[c] \in Serving => attached /\ gen = c

ControlInv == ControlType /\ Roles

LEMMA InitControl == Init => ControlInv
<1> SUFFICES ASSUME Init PROVE ControlInv
  OBVIOUS
<1>1. reader = [at |-> "read", to |-> NoClient] /\ waiter = [at |-> "waiting", attached |-> FALSE]
  BY DEF Init
<1>2. /\ reader \in [at : {"read", "publish", "ended"}, to : Client \cup {NoClient}]
      /\ waiter \in [at : {"waiting", "reaped", "closed", "ended"}, attached : BOOLEAN]
  BY <1>1
<1>3. Roles
  BY <1>1 DEF Init, Roles, Serving
<1>4. ControlType
  BY <1>2 DEF Init, ControlType, Place
<1>5. QED
  BY <1>3, <1>4 DEF ControlInv

\* The shell, the session's two goroutines and the timers.
LEMMA SessionControl ==
  ASSUME ControlInv,
         ShellWrites \/ Exit \/ Reader \/ Waiter \/ \E c \in Client : Fire(c) \/ GraceKill(c)
  PROVE  ControlInv'
<1> USE DEF ControlInv, ControlType, Roles, client, session, pty
<1>1. CASE ShellWrites
  BY <1>1 DEF ShellWrites
<1>2. CASE Exit
  BY <1>2 DEF Exit
<1>3. CASE Read
  <2>1. reader' \in [at : {"read", "publish", "ended"}, to : Client \cup {NoClient}]
    BY <1>3 DEF Read
  <2>2. reader'.at = "publish" => reader'.to \in Client /\ pc[reader'.to] \notin {"idle", "opened"}
    BY <1>3 DEF Read, Serving
  <2>3. QED
    BY <1>3, <2>1, <2>2 DEF Read
<1>4. CASE Publish
  BY <1>4 DEF Publish
<1>5. CASE ReadFails
  BY <1>5 DEF ReadFails
<1>6. CASE Wait
  BY <1>6 DEF Wait
<1>7. CASE CloseDone
  BY <1>7 DEF CloseDone
<1>8. CASE WaitGone
  BY <1>8 DEF WaitGone
<1>9. ASSUME NEW c \in Client, Fire(c) PROVE ControlInv'
  BY <1>9 DEF Fire
<1>10. ASSUME NEW c \in Client, GraceKill(c) PROVE ControlInv'
  BY <1>10 DEF GraceKill, StopTimer
<1>11. QED
  BY <1>1, <1>2, <1>3, <1>4, <1>5, <1>6, <1>7, <1>8, <1>9, <1>10 DEF Reader, Waiter

\* A client that does nothing but go on, from one place in runTerminal to another.
LEMMA StaysServing ==
  ASSUME ControlInv, NEW c \in Client, NEW place \in Serving, pc[c] \in Serving,
         pc' = [pc EXCEPT ![c] = place],
         UNCHANGED <<shell, open, reader, waiter, session>>
  PROVE  ControlInv'
BY DEF ControlInv, ControlType, Roles, session, Place, Serving

\* A client that goes on after it has left the session's attachment.
LEMMA StaysAway ==
  ASSUME ControlInv, NEW c \in Client, pc[c] \in {"gone", "arm", "kill"},
         NEW place \in {"kill", "left"},
         pc' = [pc EXCEPT ![c] = place],
         UNCHANGED <<reader, waiter, attached, gen>>,
         shell' \in {"none", "running", "dead"}, open' \in BOOLEAN, listed' \in BOOLEAN,
         grace' \in Client \cup {NoClient},
         timer' \in [Client -> {"none", "armed", "fired"}]
  PROVE  ControlInv'
BY DEF ControlInv, ControlType, Roles, Place, Serving

LEMMA ServeControl ==
  ASSUME ControlInv, NEW c \in Client, Serve(c)
  PROVE  ControlInv'
<1> USE DEF Go, session, pty, client
<1>1. CASE Start(c)
  BY <1>1, StaysServing DEF Start, Serving
<1>2. CASE SendReplay(c)
  <2>1. CASE replay[c] = <<>>
    BY <1>2, <2>1, StaysServing DEF SendReplay, Serving
  <2>2. CASE replay[c] # <<>>
    BY <1>2, <2>2 DEF SendReplay, ControlInv, ControlType, Roles
  <2>3. QED
    BY <2>1, <2>2
<1>3. CASE Stream(c) \/ Drain(c)
  <2>1. /\ pc[c] \in {"stream", "drain"}
        /\ UNCHANGED <<pty, reader, waiter, session>>
        /\ pc' = pc \/ pc' = [pc EXCEPT ![c] = "detach"]
    BY <1>3 DEF Stream, Drain, Receive
  <2>2. CASE pc' = pc
    BY <2>1, <2>2 DEF ControlInv, ControlType, Roles
  <2>3. CASE pc' = [pc EXCEPT ![c] = "detach"]
    BY <2>1, <2>3, StaysServing DEF Serving
  <2>4. QED
    BY <2>1, <2>2, <2>3
<1>4. CASE SeesDone(c)
  BY <1>4, StaysServing DEF SeesDone, Serving
<1>5. CASE SendExit(c)
  BY <1>5, StaysServing DEF SendExit, Serving
<1>6. CASE SeesCancel(c)
  <2>1. /\ pc[c] \in {"replay", "stream", "drain"}
        /\ pc' = [pc EXCEPT ![c] = "detach"]
        /\ UNCHANGED <<pty, reader, waiter, session>>
    BY <1>6 DEF SeesCancel
  <2>2. QED
    BY <2>1, StaysServing DEF Serving
<1>7. CASE Detach(c)
  <2>1. gen = c /\ attached' = FALSE
    BY <1>7 DEF Detach, ControlInv, Roles, Serving
  <2>2. QED
    BY <1>7, <2>1 DEF Detach, ControlInv, ControlType, Roles, Place, Serving
<1>8. CASE DetachGone(c)
  BY <1>8, StaysAway DEF DetachGone, AfterDetach, ControlInv, ControlType
<1>9. CASE ArmGrace(c)
  BY <1>9, StaysAway DEF ArmGrace, AfterDetach, ControlInv, ControlType
<1>10. CASE KillNow(c)
  BY <1>10, StaysAway DEF KillNow, Kill, StopTimer, ControlInv, ControlType
<1>11. QED
  BY <1>1, <1>2, <1>3, <1>4, <1>5, <1>6, <1>7, <1>8, <1>9, <1>10 DEF Serve

LEMMA SubscribeControl ==
  ASSUME ControlInv, NEW c \in Client, Subscribe(c) \/ Drop(c) \/ Unsubscribe(c)
  PROVE  ControlInv'
<1> USE DEF ControlInv, ControlType, Roles, Go, session, pty, client, Place, Serving
<1>1. CASE Open(c)
  BY <1>1 DEF Open
<1>2. CASE Attach(c)
  <2>1. pc[c] \in {"idle", "opened"} /\ ~attached
    BY <1>2 DEF Attach, MayAttach
  <2>2. timer' \in [Client -> {"none", "armed", "fired"}]
    BY <1>2 DEF Attach, StopTimer
  <2>3. QED
    <3>1. ControlType'
      BY <1>2, <2>2 DEF Attach
    <3>2. Roles'
      BY <1>2, <2>1 DEF Attach
    <3>3. QED
      BY <3>1, <3>2
<1>3. CASE AttachFails(c)
  <2>1. pc[c] \in {"idle", "opened"}
    BY <1>3 DEF AttachFails, MayAttach
  <2>2. CASE pc[c] = "opened"
    <3>1. timer' \in [Client -> {"none", "armed", "fired"}] /\ grace' = NoClient
      BY <1>3, <2>2 DEF AttachFails, Kill, StopTimer
    <3>2. ControlType'
      BY <1>3, <2>2, <3>1 DEF AttachFails, Kill
    <3>3. Roles'
      BY <1>3, <2>2 DEF AttachFails
    <3>4. QED
      BY <3>2, <3>3
  <2>3. CASE pc[c] # "opened"
    <3>1. UNCHANGED <<shell, open, listed, attached, gen, grace, timer, reader, waiter>>
      BY <1>3, <2>3 DEF AttachFails
    <3>2. pc' = [pc EXCEPT ![c] = "left"]
      BY <1>3 DEF AttachFails
    <3>3. QED
      BY <2>1, <3>1, <3>2
  <2>4. QED
    BY <2>2, <2>3
<1>4. CASE Drop(c) \/ Unsubscribe(c)
  <2>1. UNCHANGED <<pty, reader, waiter, session, pc>>
    BY <1>4 DEF Drop, Unsubscribe
  <2>2. QED
    BY <2>1
<1>5. QED
  BY <1>1, <1>2, <1>3, <1>4 DEF Subscribe

LEMMA StepControl == ControlInv /\ [Next]_vars => ControlInv'
<1> SUFFICES ASSUME ControlInv, [Next]_vars PROVE ControlInv'
  OBVIOUS
<1>1. CASE UNCHANGED vars
  BY <1>1 DEF vars, session, pty, client, ControlInv, ControlType, Roles
<1>2. CASE Idle
  BY <1>1, <1>2 DEF Idle
<1>3. QED
  BY <1>1, <1>2, SessionControl, ServeControl, SubscribeControl DEF Next

LEMMA ControlInvariant == Spec => []ControlInv
<1>1. QED
  BY InitControl, StepControl, PTL DEF Spec

\* Two clients never stream one PTY (attach, detach): whoever serves holds the
\* session's attachment.
THEOREM OneClient == Spec => []OneClientAtATime
<1>1. ControlInv => OneClientAtATime
  BY DEF ControlInv, Roles, OneClientAtATime
<1>2. QED
  BY <1>1, ControlInvariant, PTL

-----------------------------------------------------------------------------
(***************************************************************************)
(* The session in the manager's map.                                       *)
(***************************************************************************)
\* Before the shell starts there is nothing.
Unborn == shell = "none" => \A c \in Client : pc[c] = "idle" /\ timer[c] = "none"

\* Only an exited session is taken from the map.
Mourned ==
  /\ Exited => shell = "dead"
  /\ \A c \in Client : pc[c] = "gone" => Exited

\* An exited session that is still in the map has somebody who will remove it: the
\* client that was attached when the shell exited, or waitLoop.
Remover ==
  \/ attached
  \/ \E c \in Client : pc[c] = "gone"
  \/ waiter.at = "closed"
  \/ waiter.at = "reaped" /\ ~waiter.attached

Life == Unborn /\ Mourned /\ ListedWhileAlive /\ (Exited /\ listed => Remover)

LEMMA InitLife == Init => Life
BY DEF Init, Life, Unborn, Mourned, ListedWhileAlive, Exited

\* Steps that leave the process, the map and the places of the clients alone.
LEMMA LifeUntouched ==
  ASSUME Life, UNCHANGED <<shell, listed, attached, waiter, pc>>,
         \A c \in Client : timer[c] = "none" => timer'[c] = "none"
  PROVE  Life'
BY DEF Life, Unborn, Mourned, ListedWhileAlive, Remover, Exited

\* A client that moves on without leaving the attachment or the map.
LEMMA LifePlace ==
  ASSUME ControlInv, Life, NEW c \in Client, NEW place \in Place \ {"gone"},
         pc[c] \notin {"idle", "gone"}, pc' = [pc EXCEPT ![c] = place],
         UNCHANGED <<listed, attached, waiter>>,
         shell' = shell \/ (shell' = "dead" /\ ~Exited)
  PROVE  Life'
BY DEF ControlInv, ControlType, Life, Unborn, Mourned, ListedWhileAlive, Remover, Exited

LEMMA SessionLife ==
  ASSUME ControlInv, Life,
         ShellWrites \/ Exit \/ Reader \/ Waiter \/ \E c \in Client : Fire(c) \/ GraceKill(c)
  PROVE  Life'
<1> USE DEF client, session, pty
<1>1. CASE ShellWrites
  BY <1>1, LifeUntouched DEF ShellWrites
<1>2. CASE Exit
  BY <1>2 DEF Exit, Life, Unborn, Mourned, ListedWhileAlive, Remover, Exited
<1>3. CASE Reader
  BY <1>3, LifeUntouched DEF Reader, Read, Publish, ReadFails
<1>4. CASE Wait
  BY <1>4 DEF Wait, ControlInv, ControlType, Life, Unborn, Mourned, ListedWhileAlive, Remover, Exited
<1>5. CASE CloseDone
  BY <1>5 DEF CloseDone, ControlInv, ControlType, Life, Unborn, Mourned, ListedWhileAlive, Remover, Exited
<1>6. CASE WaitGone
  BY <1>6 DEF WaitGone, ControlInv, ControlType, Life, Unborn, Mourned, ListedWhileAlive, Remover, Exited
<1>7. ASSUME NEW c \in Client, Fire(c) PROVE Life'
  BY <1>7, LifeUntouched DEF Fire, ControlInv, ControlType
<1>8. ASSUME NEW c \in Client, GraceKill(c) PROVE Life'
  <2>1. shell # "none"
    BY <1>8 DEF GraceKill, Life, Unborn
  <2>2. QED
    BY <1>8, <2>1 DEF GraceKill, Life, Unborn, Mourned, ListedWhileAlive, Remover, Exited
<1>9. QED
  BY <1>1, <1>2, <1>3, <1>4, <1>5, <1>6, <1>7, <1>8 DEF Waiter

LEMMA ServeLife ==
  ASSUME ControlInv, Life, NEW c \in Client, Serve(c)
  PROVE  Life'
<1> USE DEF Go, session, pty, client
<1>1. CASE Start(c)
  BY <1>1, LifePlace DEF Start, Place, Serving
<1>2. CASE SendReplay(c)
  <2>1. CASE replay[c] = <<>>
    BY <1>2, <2>1, LifePlace DEF SendReplay, Place, Serving
  <2>2. CASE replay[c] # <<>>
    BY <1>2, <2>2, LifeUntouched DEF SendReplay
  <2>3. QED
    BY <2>1, <2>2
<1>3. CASE Stream(c) \/ Drain(c)
  <2>1. /\ pc[c] \in {"stream", "drain"}
        /\ UNCHANGED <<pty, reader, waiter, session>>
        /\ pc' = pc \/ pc' = [pc EXCEPT ![c] = "detach"]
    BY <1>3 DEF Stream, Drain, Receive
  <2>2. CASE pc' = pc
    BY <2>1, <2>2, LifeUntouched
  <2>3. CASE pc' = [pc EXCEPT ![c] = "detach"]
    BY <2>1, <2>3, LifePlace DEF Place, Serving
  <2>4. QED
    BY <2>1, <2>2, <2>3
<1>4. CASE SeesDone(c)
  BY <1>4, LifePlace DEF SeesDone, Place, Serving
<1>5. CASE SendExit(c)
  BY <1>5, LifePlace DEF SendExit, Place, Serving
<1>6. CASE SeesCancel(c)
  <2>1. /\ pc[c] \in {"replay", "stream", "drain"}
        /\ pc' = [pc EXCEPT ![c] = "detach"]
        /\ UNCHANGED <<pty, reader, waiter, session>>
    BY <1>6 DEF SeesCancel
  <2>2. QED
    BY <2>1, LifePlace DEF Place, Serving
<1>7. CASE Detach(c)
  BY <1>7 DEF Detach, ControlInv, ControlType, Life, Unborn, Mourned, ListedWhileAlive, Remover, Exited
<1>8. CASE DetachGone(c)
  <2>1. Exited /\ shell = "dead"
    BY <1>8 DEF DetachGone, Life, Mourned
  <2>2. QED
    BY <1>8, <2>1 DEF DetachGone, AfterDetach, ControlInv, ControlType, Life, Unborn, Mourned,
                      ListedWhileAlive, Exited
<1>9. CASE ArmGrace(c)
  BY <1>9, LifePlace DEF ArmGrace, AfterDetach, Place
<1>10. CASE KillNow(c)
  BY <1>10, LifePlace DEF KillNow, Kill, Place
<1>11. QED
  BY <1>1, <1>2, <1>3, <1>4, <1>5, <1>6, <1>7, <1>8, <1>9, <1>10 DEF Serve

LEMMA SubscribeLife ==
  ASSUME ControlInv, Life, NEW c \in Client, Subscribe(c) \/ Drop(c) \/ Unsubscribe(c)
  PROVE  Life'
<1> USE DEF Go, session, pty, client
<1>1. CASE Open(c)
  BY <1>1 DEF Open, ControlInv, ControlType, Life, Unborn, Mourned, ListedWhileAlive, Remover, Exited
<1>2. CASE Attach(c)
  <2>1. shell # "none"
    BY <1>2 DEF Attach, MayAttach, Life, Unborn
  <2>2. QED
    BY <1>2, <2>1 DEF Attach, ControlInv, ControlType, Life, Unborn, Mourned, ListedWhileAlive, Remover, Exited
<1>3. CASE AttachFails(c)
  <2>1. shell # "none" /\ pc[c] \in {"idle", "opened"}
    BY <1>3 DEF AttachFails, MayAttach, Life, Unborn
  <2>2. /\ pc' = [pc EXCEPT ![c] = "left"]
        /\ UNCHANGED <<waiter, listed, attached>>
        /\ shell' = shell \/ (shell' = "dead" /\ ~Exited)
    BY <1>3 DEF AttachFails, Kill
  <2>3. QED
    BY <2>1, <2>2 DEF ControlInv, ControlType, Life, Unborn, Mourned, ListedWhileAlive, Remover, Exited
<1>4. CASE Drop(c) \/ Unsubscribe(c)
  <2>1. UNCHANGED <<pty, reader, waiter, session, pc>>
    BY <1>4 DEF Drop, Unsubscribe
  <2>2. QED
    BY <2>1, LifeUntouched
<1>5. QED
  BY <1>1, <1>2, <1>3, <1>4 DEF Subscribe

LEMMA StepLife == ControlInv /\ Life /\ [Next]_vars => Life'
<1> SUFFICES ASSUME ControlInv, Life, [Next]_vars PROVE Life'
  OBVIOUS
<1>1. CASE UNCHANGED vars
  BY <1>1, LifeUntouched DEF vars, session, pty, client
<1>2. CASE Idle
  BY <1>1, <1>2 DEF Idle
<1>3. QED
  BY <1>1, <1>2, SessionLife, ServeLife, SubscribeLife DEF Next

LEMMA LifeInvariant == Spec => [](ControlInv /\ Life)
<1>1. QED
  BY InitControl, StepControl, InitLife, StepLife, PTL DEF Spec

\* A live session can be found by its token: neither waitLoop nor a detach takes it
\* from the map before the shell has exited.
THEOREM ListedWhenAlive == Spec => []ListedWhileAlive
<1>1. Life => ListedWhileAlive
  BY DEF Life
<1>2. QED
  BY <1>1, LifeInvariant, PTL

\* An exited session is taken from the map by waitLoop or by detach, wherever the
\* exit falls between the two halves of a detach.
THEOREM GoneWhenLeft == Spec => []GoneOnceLeft
<1>1. Life => GoneOnceLeft
  BY DEF Life, Remover, GoneOnceLeft
<1>2. QED
  BY <1>1, LifeInvariant, PTL

-----------------------------------------------------------------------------
(***************************************************************************)
(* The data: types of what is printed, buffered and sent.                  *)
(***************************************************************************)
Chunks == Seq(1..MaxOut)
Sent == [from : 0..(MaxOut + 1), seq : Chunks]

DataType ==
  /\ printed \in 0..MaxOut /\ out \in 0..printed
  /\ queue \in [Client -> Chunks] /\ replay \in [Client -> Chunks]
  /\ cancelled \in [Client -> BOOLEAN]
  /\ kill \in [Client -> [flag : BOOLEAN, arg : BOOLEAN]]
  /\ got \in [Client -> Sent]
  /\ reader.at = "publish" => out >= 1

LEMMA InitData == Init => DataType
<1> SUFFICES ASSUME Init PROVE DataType
  OBVIOUS
<1>0. MaxOut \in Nat
  BY TerminalAssumption DEF TerminalAssumption
<1>1. <<>> \in Chunks
  BY EmptySeq DEF Chunks
<1>2. Nothing \in Sent
  BY <1>0, <1>1 DEF Nothing, Sent
<1>3. queue \in [Client -> Chunks] /\ replay \in [Client -> Chunks] /\ got \in [Client -> Sent]
  BY <1>1, <1>2 DEF Init
<1>4. cancelled \in [Client -> BOOLEAN] /\ kill \in [Client -> [flag : BOOLEAN, arg : BOOLEAN]]
  BY DEF Init
<1>5. QED
  BY <1>0, <1>3, <1>4 DEF Init, DataType

\* The replay is a sequence of the last Kept chunks.
LEMMA SnapshotChunks ==
  ASSUME DataType
  PROVE  /\ Kept \in Nat /\ Kept <= out
         /\ Snapshot \in Chunks
         /\ Len(Snapshot) = Kept
         /\ \A i \in 1..Kept : Snapshot[i] = out - Kept + i
<1>0. out \in Nat /\ out <= MaxOut /\ MaxOut \in Nat /\ Scrollback \in Nat
  BY TerminalAssumption DEF TerminalAssumption, DataType
<1>1. Kept \in Nat /\ Kept <= out
  BY <1>0 DEF Kept
<1>2. \A i \in 1..Kept : out - Kept + i \in 1..MaxOut
  BY <1>0, <1>1
<1>3. Snapshot \in [1..Kept -> 1..MaxOut]
  BY <1>1, <1>2 DEF Snapshot
<1>4. Snapshot \in Chunks
  BY <1>1, <1>3, SeqDef DEF Chunks
<1>5. Len(Snapshot) = Kept
  BY <1>1, <1>3, <1>4, LenProperties DEF Chunks
<1>6. QED
  BY <1>1, <1>4, <1>5 DEF Snapshot

\* A record of two fields, updated in one.
LEMMA Updated ==
  ASSUME NEW S, NEW T, NEW r \in [from : S, seq : T], NEW x
  PROVE  /\ [r EXCEPT !.seq = x] = [from |-> r.from, seq |-> x]
         /\ [r EXCEPT !.from = x] = [from |-> x, seq |-> r.seq]
  OBVIOUS

\* Sending a chunk appends it.
LEMMA SendToType ==
  ASSUME DataType, NEW c \in Client, NEW chunk \in 1..MaxOut, SendTo(c, chunk)
  PROVE  /\ got' \in [Client -> Sent]
         /\ got' = [got EXCEPT ![c] = [from |-> got[c].from, seq |-> Append(got[c].seq, chunk)]]
<1>1. got[c] \in Sent
  BY DEF DataType
<1>2. Append(got[c].seq, chunk) \in Chunks
  BY <1>1, AppendProperties DEF Sent, Chunks
<1>3. [from |-> got[c].from, seq |-> Append(got[c].seq, chunk)] \in Sent
  BY <1>1, <1>2 DEF Sent
<1>4. got' = [got EXCEPT ![c] = [from |-> got[c].from, seq |-> Append(got[c].seq, chunk)]]
  <2>1. got' = [got EXCEPT ![c] = [got[c] EXCEPT !.seq = Append(got[c].seq, chunk)]]
    BY Zenon DEF SendTo
  <2>2. \A x : [got[c] EXCEPT !.seq = x] = [from |-> got[c].from, seq |-> x]
    BY <1>1, Updated DEF Sent
  <2>3. QED
    BY <2>1, <2>2, Zenon
<1>5. QED
  BY <1>3, <1>4 DEF DataType

\* Attaching is the start of what a client is sent.
LEMMA AttachType ==
  ASSUME DataType, NEW c \in Client, Attach(c)
  PROVE  /\ got' \in [Client -> Sent] /\ replay' \in [Client -> Chunks]
         /\ got' = [got EXCEPT ![c] = [from |-> out - Kept + 1, seq |-> got[c].seq]]
<1>0. MaxOut \in Nat /\ out \in 0..MaxOut /\ got[c] \in Sent
  BY TerminalAssumption DEF TerminalAssumption, DataType
<1>1. out - Kept + 1 \in 0..(MaxOut + 1)
  BY <1>0, SnapshotChunks
<1>2. got' = [got EXCEPT ![c] = [from |-> out - Kept + 1, seq |-> got[c].seq]]
  <2>1. got' = [got EXCEPT ![c] = [got[c] EXCEPT !.from = out - Kept + 1]]
    BY Zenon DEF Attach
  <2>2. [got[c] EXCEPT !.from = out - Kept + 1] = [from |-> out - Kept + 1, seq |-> got[c].seq]
    BY <1>0, Updated DEF Sent
  <2>3. QED
    BY <2>1, <2>2
<1>3. [from |-> out - Kept + 1, seq |-> got[c].seq] \in Sent
  BY <1>0, <1>1 DEF Sent
<1>4. QED
  BY <1>2, <1>3, SnapshotChunks DEF Attach, DataType

LEMMA StepData == ControlInv /\ DataType /\ [Next]_vars => DataType'
<1> SUFFICES ASSUME ControlInv, DataType, [Next]_vars PROVE DataType'
  OBVIOUS
<1>0. MaxOut \in Nat
  BY TerminalAssumption DEF TerminalAssumption
<1> USE DEF pty, session, client
<1>1. CASE ShellWrites
  BY <1>0, <1>1 DEF ShellWrites, DataType
<1>2. CASE Exit
  BY <1>2 DEF Exit, DataType
<1>3. CASE Read
  BY <1>0, <1>3 DEF Read, DataType
<1>4. CASE Publish
  <2>1. out \in 1..MaxOut /\ reader.to \in Client
    BY <1>0, <1>4 DEF Publish, ControlInv, Roles, DataType
  <2>2. Append(queue[reader.to], out) \in Chunks
    BY <2>1, AppendProperties DEF DataType, Chunks
  <2>3. queue' \in [Client -> Chunks]
    BY <1>4, <2>1, <2>2 DEF Publish, DataType
  <2>4. QED
    BY <1>4, <2>3 DEF Publish, DataType
<1>5. CASE ReadFails
  BY <1>5 DEF ReadFails, DataType
<1>6. CASE Waiter
  BY <1>6 DEF Waiter, Wait, CloseDone, WaitGone, DataType
<1>7. ASSUME NEW c \in Client, Subscribe(c) PROVE DataType'
  <2>1. CASE Open(c)
    BY <2>1 DEF Open, DataType
  <2>2. CASE Attach(c)
    <3>1. got' \in [Client -> Sent] /\ replay' \in [Client -> Chunks]
      BY <2>2, AttachType
    <3>2. QED
      BY <2>2, <3>1 DEF Attach, DataType
  <2>3. CASE AttachFails(c)
    <3>1. cancelled' \in [Client -> BOOLEAN] /\ UNCHANGED <<printed, out, reader, queue, replay, kill, got>>
      BY <2>3 DEF AttachFails, Kill, DataType
    <3>2. QED
      BY <3>1 DEF DataType
  <2>4. QED
    BY <1>7, <2>1, <2>2, <2>3 DEF Subscribe
<1>8. ASSUME NEW c \in Client, Serve(c) PROVE DataType'
  <2>1. CASE Start(c)
    <3>1. kill' \in [Client -> [flag : BOOLEAN, arg : BOOLEAN]]
      BY <2>1 DEF Start, DataType
    <3>2. QED
      BY <2>1, <3>1 DEF Start, DataType
  <2>2. CASE SendReplay(c)
    <3>1. CASE replay[c] = <<>>
      BY <2>2, <3>1 DEF SendReplay, DataType
    <3>2. CASE replay[c] # <<>>
      <4>1. Head(replay[c]) \in 1..MaxOut /\ Tail(replay[c]) \in Chunks
        BY <3>2, HeadTailProperties DEF DataType, Chunks
      <4>2. got' \in [Client -> Sent] /\ replay' \in [Client -> Chunks]
        BY <2>2, <3>2, <4>1, SendToType DEF SendReplay, DataType
      <4>3. QED
        BY <2>2, <3>2, <4>2 DEF SendReplay, DataType
    <3>3. QED
      BY <3>1, <3>2
  <2>3. CASE Stream(c) \/ Drain(c)
    <3>1. PICK place \in {"stream", "drain"} : Receive(c, place)
      BY <2>3 DEF Stream, Drain
    <3>2. Head(queue[c]) \in 1..MaxOut /\ Tail(queue[c]) \in Chunks
      BY <3>1, HeadTailProperties DEF Receive, DataType, Chunks
    <3>3. queue' \in [Client -> Chunks]
      BY <3>1, <3>2 DEF Receive, DataType
    <3>4. got' \in [Client -> Sent]
      BY <3>1, <3>2, SendToType DEF Receive, DataType
    <3>5. QED
      BY <3>1, <3>3, <3>4 DEF Receive, DataType
  <2>4. CASE SeesDone(c) \/ SeesCancel(c) \/ DetachGone(c) \/ ArmGrace(c) \/ KillNow(c)
    <3>1. UNCHANGED <<printed, out, reader, queue, replay, cancelled, kill, got>>
      BY <2>4 DEF SeesDone, SeesCancel, DetachGone, ArmGrace, KillNow, Kill
    <3>2. QED
      BY <3>1 DEF DataType
  <2>5. CASE SendExit(c)
    <3>1. cancelled' \in [Client -> BOOLEAN]
      BY <2>5 DEF SendExit, DataType
    <3>2. QED
      BY <2>5, <3>1 DEF SendExit, DataType
  <2>6. CASE Detach(c)
    <3>1. Nothing \in Sent /\ <<>> \in Chunks
      BY <1>0, EmptySeq DEF Nothing, Sent, Chunks
    <3>2. got' \in [Client -> Sent] /\ replay' \in [Client -> Chunks]
      BY <2>6, <3>1 DEF Detach, DataType
    <3>3. QED
      BY <2>6, <3>2 DEF Detach, DataType
  <2>7. QED
    BY <1>8, <2>1, <2>2, <2>3, <2>4, <2>5, <2>6 DEF Serve
<1>9. ASSUME NEW c \in Client, Drop(c) PROVE DataType'
  <2>1. cancelled' \in [Client -> BOOLEAN]
    BY <1>9 DEF Drop, DataType
  <2>2. QED
    BY <1>9, <2>1 DEF Drop, DataType
<1>10. ASSUME NEW c \in Client, Unsubscribe(c) PROVE DataType'
  <2>1. cancelled' \in [Client -> BOOLEAN]
    BY <1>10 DEF Unsubscribe, DataType
  <2>2. kill' \in [Client -> [flag : BOOLEAN, arg : BOOLEAN]]
    BY <1>10 DEF Unsubscribe, DataType
  <2>3. QED
    BY <1>10, <2>1, <2>2 DEF Unsubscribe, DataType
<1>11. ASSUME NEW c \in Client, Fire(c) \/ GraceKill(c) PROVE DataType'
  BY <1>11 DEF Fire, GraceKill, DataType
<1>12. CASE Idle \/ UNCHANGED vars
  BY <1>12 DEF Idle, vars, DataType
<1>13. QED
  BY <1>1, <1>2, <1>3, <1>4, <1>5, <1>6, <1>7, <1>8, <1>9, <1>10, <1>11, <1>12 DEF Next, Reader

LEMMA DataInvariant == Spec => [](ControlInv /\ DataType)
<1>1. QED
  BY InitControl, StepControl, InitData, StepData, PTL DEF Spec

\* Every reachable state is well-typed, whatever the shell, the clients and the
\* timers do.
THEOREM TypeCorrect == Spec => []TypeOK
<1>1. ControlInv /\ DataType => TypeOK
  BY DEF ControlInv, ControlType, DataType, Chunks, Sent, TypeOK
<1>2. QED
  BY <1>1, DataInvariant, PTL

-----------------------------------------------------------------------------
(***************************************************************************)
(* The order of the chunks.  What a client has got, what is left of its    *)
(* replay, what lies in its channel and what readLoop holds for it are, in *)
(* this order, consecutive and end with the last chunk read.  It is not an *)
(* invariant once done is closed: readLoop may drop a chunk then.          *)
(***************************************************************************)
Run(s, first) == \A i \in 1..Len(s) : s[i] = first + i - 1

Upcoming(c) == got[c].from + Len(got[c].seq)
Held(c) == IF reader.at = "publish" /\ reader.to = c THEN 1 ELSE 0
Streaming == {"attached", "replay", "stream"}

Fresh(c) == queue[c] = <<>> /\ replay[c] = <<>> /\ got[c] = Nothing

InLine(c) ==
  /\ Run(replay[c], Upcoming(c))
  /\ Run(queue[c], Upcoming(c) + Len(replay[c]))
  /\ Upcoming(c) + Len(replay[c]) + Len(queue[c]) + Held(c) = out + 1

Ordered(c) ==
  /\ Run(got[c].seq, got[c].from)
  /\ pc[c] \in {"idle", "opened"} => Fresh(c)
  /\ pc[c] \in Streaming => InLine(c)
  /\ pc[c] = "stream" => replay[c] = <<>>
  /\ pc[c] # "drain"

Order == ~Done => \A c \in Client : Ordered(c)

LEMMA RunEmpty == ASSUME NEW first PROVE Run(<<>>, first)
  BY EmptySeq DEF Run

LEMMA RunAppend ==
  ASSUME NEW s \in Chunks, NEW chunk \in 1..MaxOut, NEW first \in Int,
         Run(s, first), chunk = first + Len(s)
  PROVE  /\ Run(Append(s, chunk), first)
         /\ Len(Append(s, chunk)) = Len(s) + 1
<1>0. Len(s) \in Nat
  BY LenProperties DEF Chunks
<1>1. /\ Len(Append(s, chunk)) = Len(s) + 1
      /\ \A i \in 1..Len(s) : Append(s, chunk)[i] = s[i]
      /\ Append(s, chunk)[Len(s) + 1] = chunk
  BY <1>0, AppendProperties DEF Chunks
<1>2. QED
  BY <1>0, <1>1 DEF Run

LEMMA RunTail ==
  ASSUME NEW s \in Chunks, s # <<>>, NEW first \in Int, Run(s, first)
  PROVE  /\ Head(s) = first /\ Head(s) \in 1..MaxOut
         /\ Tail(s) \in Chunks /\ Run(Tail(s), first + 1)
         /\ Len(Tail(s)) = Len(s) - 1
<1>0. Len(s) \in Nat \ {0}
  BY EmptySeq DEF Chunks
<1>1. Head(s) = s[1]
  BY DEF Chunks
<1>2. /\ Head(s) \in 1..MaxOut
      /\ Tail(s) \in Chunks /\ Len(Tail(s)) = Len(s) - 1
      /\ \A i \in 1..Len(Tail(s)) : Tail(s)[i] = s[i + 1]
  BY <1>0, HeadTailProperties DEF Chunks
<1>3. QED
  BY <1>0, <1>1, <1>2 DEF Run

\* The numbers in the invariant are numbers.
LEMMA Numbers ==
  ASSUME DataType, NEW c \in Client
  PROVE  /\ got[c].from \in Nat /\ got[c].seq \in Chunks /\ Len(got[c].seq) \in Nat
         /\ Upcoming(c) \in Nat
         /\ queue[c] \in Chunks /\ Len(queue[c]) \in Nat
         /\ replay[c] \in Chunks /\ Len(replay[c]) \in Nat
         /\ out \in Nat /\ out <= MaxOut /\ MaxOut \in Nat
<1>1. MaxOut \in Nat /\ out \in Nat /\ out <= MaxOut
  BY TerminalAssumption DEF TerminalAssumption, DataType
<1>2. got[c] \in Sent
  BY DEF DataType
<1>3. got[c].from \in Nat /\ got[c].seq \in Chunks
  BY <1>1, <1>2 DEF Sent
<1>4. queue[c] \in Chunks /\ replay[c] \in Chunks
  BY DEF DataType
<1>5. QED
  BY <1>1, <1>3, <1>4, LenProperties DEF Upcoming, Chunks

\* Nothing of c's changes, or only its place in a way that asks for nothing new.
LEMMA OrderedUntouched ==
  ASSUME NEW c \in Client, Ordered(c),
         got'[c] = got[c], queue'[c] = queue[c], replay'[c] = replay[c],
         out' = out, Held(c)' = Held(c),
         \/ pc'[c] = pc[c]
         \/ pc[c] = "idle" /\ pc'[c] = "opened"
         \/ pc[c] = "attached" /\ pc'[c] = "replay"
         \/ pc'[c] \notin Streaming \cup {"idle", "opened", "drain"}
  PROVE  Ordered(c)'
<1>1. Upcoming(c)' = Upcoming(c)
  BY DEF Upcoming
<1>2. Run(got[c].seq, got[c].from)' /\ (Fresh(c) => Fresh(c)') /\ (InLine(c) => InLine(c)')
  BY <1>1 DEF Ordered, Run, Fresh, InLine
<1>3. QED
  BY <1>2 DEF Ordered, Streaming

LEMMA InitOrder == Init => Order
<1> SUFFICES ASSUME Init, NEW c \in Client PROVE Ordered(c)
  BY DEF Order
<1>1. got[c] = Nothing /\ queue[c] = <<>> /\ replay[c] = <<>> /\ pc[c] = "idle"
  BY DEF Init
<1>2. Run(got[c].seq, got[c].from)
  BY <1>1, RunEmpty DEF Nothing
<1>3. QED
  BY <1>1, <1>2 DEF Ordered, Fresh, Streaming

\* readLoop, while done is open.
LEMMA ReaderOrder ==
  ASSUME ControlInv, DataType, ~Done, Reader, NEW c \in Client, Ordered(c)
  PROVE  Ordered(c)'
<1>0. pc'[c] = pc[c] /\ got'[c] = got[c] /\ replay'[c] = replay[c] /\ Upcoming(c)' = Upcoming(c)
  BY DEF Reader, Read, Publish, ReadFails, client, Upcoming
<1>1. CASE Read
  <2>1. Held(c) = 0 /\ out' = out + 1 /\ queue'[c] = queue[c]
    BY <1>1 DEF Read, Held
  <2>2. pc[c] \in Streaming => Held(c)' = 1
    BY <1>1 DEF Read, Held, ControlInv, Roles, Streaming, Serving
  <2>3. InLine(c) /\ pc[c] \in Streaming => InLine(c)'
    BY <1>0, <2>1, <2>2, Numbers DEF InLine, Run
  <2>4. Run(got[c].seq, got[c].from)' /\ (Fresh(c) => Fresh(c)')
    BY <1>0, <2>1 DEF Ordered, Run, Fresh
  <2>5. QED
    BY <1>0, <2>3, <2>4 DEF Ordered
<1>2. CASE Publish
  <2>1. Held(c)' = 0 /\ out' = out
    BY <1>2 DEF Publish, Held, pty
  <2>2. CASE reader.to # c
    <3>1. Held(c) = 0 /\ queue'[c] = queue[c]
      BY <1>2, <2>2 DEF Publish, Held, DataType
    <3>2. QED
      BY <1>0, <2>1, <3>1, OrderedUntouched
  <2>3. CASE reader.to = c /\ ~(attached /\ gen = c) /\ queue' = queue
    <3>1. pc[c] \notin Serving \cup {"idle", "opened"}
      BY <1>2, <2>3 DEF Publish, ControlInv, Roles
    <3>2. QED
      BY <1>0, <3>1 DEF Ordered, Run, Serving, Streaming
  <2>4. CASE reader.to = c /\ queue' = [queue EXCEPT ![c] = Append(@, out)]
    <3>0. queue'[c] = Append(queue[c], out)
      BY <2>4 DEF DataType
    <3>1. Held(c) = 1 /\ pc[c] \notin {"idle", "opened"}
      BY <1>2, <2>4 DEF Publish, Held, ControlInv, Roles
    <3>2. out \in 1..MaxOut
      BY <1>2, Numbers DEF Publish, DataType
    <3>3. ASSUME InLine(c) PROVE InLine(c)'
      <4>1. out = Upcoming(c) + Len(replay[c]) + Len(queue[c])
        <5>1. Upcoming(c) + Len(replay[c]) + Len(queue[c]) + Held(c) = out + 1
          BY <3>3 DEF InLine
        <5>2. Upcoming(c) \in Nat /\ Len(replay[c]) \in Nat /\ Len(queue[c]) \in Nat /\ out \in Nat
          BY Numbers
        <5>3. Upcoming(c) + Len(replay[c]) + Len(queue[c]) + 1 = out + 1
          BY <3>1, <5>1, Zenon
        <5>4. QED
          BY <5>2, <5>3
      <4>2. Run(queue[c], Upcoming(c) + Len(replay[c]))
        BY <3>3 DEF InLine
      <4>3. Upcoming(c) + Len(replay[c]) \in Int /\ queue[c] \in Chunks
        BY Numbers
      <4>4. Run(queue[c], Upcoming(c) + Len(replay[c]))' /\ Len(queue[c])' = Len(queue[c]) + 1
        <5>1. QED
          BY <1>0, <3>0, <3>2, <4>1, <4>2, <4>3, RunAppend
      <4>5. Run(replay[c], Upcoming(c))'
        BY <1>0, <3>3 DEF InLine, Run
      <4>6. (Upcoming(c) + Len(replay[c]) + Len(queue[c]) + Held(c))' = (out + 1)'
        <5>1. /\ Upcoming(c) \in Nat /\ Len(replay[c]) \in Nat /\ Len(queue[c]) \in Nat /\ out \in Nat
              /\ Len(replay[c])' = Len(replay[c]) /\ Upcoming(c)' = Upcoming(c)
          BY <1>0, Numbers
        <5>2. Upcoming(c) + Len(replay[c]) + (Len(queue[c]) + 1) + 0 = out + 1
          BY <4>1, <5>1
        <5>3. QED
          BY <2>1, <4>4, <5>1, <5>2, Zenon
      <4>7. QED
        BY <4>4, <4>5, <4>6 DEF InLine
    <3>4. QED
      BY <1>0, <3>1, <3>3 DEF Ordered, Run
  <2>5. QED
    BY <1>2, <2>2, <2>3, <2>4 DEF Publish
<1>3. CASE ReadFails
  BY <1>0, <1>3, OrderedUntouched DEF ReadFails, Held, pty
<1>4. QED
  BY <1>1, <1>2, <1>3 DEF Reader

\* The chunk that is sent is the one that was due.
LEMMA Sending ==
  ASSUME DataType, NEW c \in Client, Run(got[c].seq, got[c].from),
         Upcoming(c) \in 1..MaxOut, SendTo(c, Upcoming(c))
  PROVE  Run(got[c].seq, got[c].from)' /\ Upcoming(c)' = Upcoming(c) + 1
<1>1. got' = [got EXCEPT ![c] = [from |-> got[c].from, seq |-> Append(got[c].seq, Upcoming(c))]]
  BY SendToType
<1>2. got'[c] = [from |-> got[c].from, seq |-> Append(got[c].seq, Upcoming(c))]
  BY <1>1 DEF DataType
<1>3. got'[c].from = got[c].from /\ got'[c].seq = Append(got[c].seq, Upcoming(c))
  BY <1>2
<1>4. Upcoming(c) = got[c].from + Len(got[c].seq)
  BY DEF Upcoming
<1>5. /\ Run(Append(got[c].seq, Upcoming(c)), got[c].from)
      /\ Len(Append(got[c].seq, Upcoming(c))) = Len(got[c].seq) + 1
  BY <1>4, Numbers, RunAppend
<1>6. Upcoming(c)' = got[c].from + (Len(got[c].seq) + 1)
  BY <1>3, <1>5 DEF Upcoming
<1>7. Upcoming(c)' = Upcoming(c) + 1
  BY <1>4, <1>6, Numbers
<1>8. Run(got[c].seq, got[c].from)'
  BY <1>3, <1>5 DEF Run
<1>9. QED
  BY <1>7, <1>8

\* What touches no chunk.
LEMMA OtherOrder ==
  ASSUME ControlInv, DataType, ~Done, Order, NEW c \in Client,
         \/ ShellWrites \/ Exit \/ Waiter \/ Idle \/ UNCHANGED vars
         \/ \E d \in Client :
              \/ Open(d) \/ AttachFails(d) \/ Drop(d) \/ Unsubscribe(d) \/ Fire(d) \/ GraceKill(d)
              \/ Start(d) \/ SeesDone(d) \/ SendExit(d) \/ SeesCancel(d)
              \/ DetachGone(d) \/ ArmGrace(d) \/ KillNow(d)
  PROVE  Ordered(c)'
<1> USE DEF pty, client, session
<1>1. Ordered(c) /\ \A d \in Client : pc[d] # "drain"
  BY DEF Order, Ordered
<1>2. UNCHANGED <<out, reader, queue, replay, got>>
  <2>1. CASE ShellWrites \/ Exit \/ Waiter \/ Idle \/ UNCHANGED vars
    BY <2>1 DEF ShellWrites, Exit, Waiter, Wait, CloseDone, WaitGone, Idle, vars
  <2>2. ASSUME NEW d \in Client,
               Open(d) \/ AttachFails(d) \/ Drop(d) \/ Unsubscribe(d) \/ Fire(d) \/ GraceKill(d)
        PROVE  UNCHANGED <<out, reader, queue, replay, got>>
    BY <2>2 DEF Open, AttachFails, Drop, Unsubscribe, Fire, GraceKill, Kill
  <2>3. ASSUME NEW d \in Client,
               \/ Start(d) \/ SeesDone(d) \/ SendExit(d) \/ SeesCancel(d)
               \/ DetachGone(d) \/ ArmGrace(d) \/ KillNow(d)
        PROVE  UNCHANGED <<out, reader, queue, replay, got>>
    BY <2>3 DEF Start, SeesDone, SendExit, SeesCancel, DetachGone, ArmGrace, KillNow, Kill
  <2>4. QED
    BY <2>1, <2>2, <2>3
<1>3. \/ pc'[c] = pc[c]
      \/ pc[c] = "idle" /\ pc'[c] = "opened"
      \/ pc[c] = "attached" /\ pc'[c] = "replay"
      \/ pc'[c] \notin Streaming \cup {"idle", "opened", "drain"}
  <2> USE DEF Go, ControlInv, ControlType, Streaming
  <2>1. CASE ShellWrites \/ Exit \/ Waiter \/ Idle \/ UNCHANGED vars
    BY <2>1 DEF ShellWrites, Exit, Waiter, Wait, CloseDone, WaitGone, Idle, vars
  <2>2. ASSUME NEW d \in Client,
               Open(d) \/ AttachFails(d) \/ Drop(d) \/ Unsubscribe(d) \/ Fire(d) \/ GraceKill(d)
        PROVE  <1>3!1 \/ <1>3!2 \/ <1>3!4
    BY <2>2 DEF Open, AttachFails, Drop, Unsubscribe, Fire, GraceKill
  <2>3. ASSUME NEW d \in Client,
               \/ Start(d) \/ SeesDone(d) \/ SendExit(d) \/ SeesCancel(d)
               \/ DetachGone(d) \/ ArmGrace(d) \/ KillNow(d)
        PROVE  <1>3!1 \/ <1>3!3 \/ <1>3!4
    BY <1>1, <2>3 DEF Start, SeesDone, SendExit, SeesCancel, DetachGone, ArmGrace, KillNow, AfterDetach
  <2>4. QED
    BY <2>1, <2>2, <2>3
<1>4. Held(c)' = Held(c)
  BY <1>2 DEF Held
<1>5. QED
  BY <1>1, <1>2, <1>3, <1>4, OrderedUntouched

\* A client attaches: the replay ends with the last chunk read.
LEMMA AttachOrder ==
  ASSUME ControlInv, DataType, ~Done, Order, NEW d \in Client, Attach(d), NEW c \in Client
  PROVE  Ordered(c)'
<1>0. Ordered(c) /\ Fresh(d) /\ pc[d] \in {"idle", "opened"}
  BY DEF Order, Ordered, Attach, MayAttach
<1>1. out' = out /\ UNCHANGED <<reader, queue>> /\ Held(c)' = Held(c)
  BY DEF Attach, pty, Held
<1>2. CASE c # d
  <2>1. got'[c] = got[c] /\ replay'[c] = replay[c] /\ pc'[c] = pc[c]
    BY <1>2 DEF Attach, Go, DataType, ControlInv, ControlType
  <2>2. QED
    BY <1>0, <1>1, <2>1, OrderedUntouched
<1>3. CASE c = d
  <2>1. pc'[c] = "attached" /\ replay'[c] = Snapshot /\ queue'[c] = <<>>
    BY <1>0, <1>1, <1>3 DEF Attach, Go, DataType, ControlInv, ControlType, Fresh
  <2>2. got'[c] = [from |-> out - Kept + 1, seq |-> <<>>]
    BY <1>0, <1>3, AttachType DEF Fresh, Nothing, DataType
  <2>3. Held(c)' = 0
    BY <1>0, <1>1, <1>3 DEF Held, ControlInv, Roles
  <2>4. /\ out \in Nat /\ Kept \in Nat /\ Kept <= out /\ Len(Snapshot) = Kept
        /\ \A i \in 1..Kept : Snapshot[i] = out - Kept + i
    BY SnapshotChunks, Numbers
  <2>5. Upcoming(c)' = out - Kept + 1
    BY <2>2, <2>4, EmptySeq DEF Upcoming
  <2>6. Run(replay[c], Upcoming(c))'
    BY <2>1, <2>4, <2>5 DEF Run
  <2>7. Run(queue[c], Upcoming(c) + Len(replay[c]))' /\ Run(got[c].seq, got[c].from)'
    BY <2>1, <2>2, RunEmpty DEF Run
  <2>8. InLine(c)'
    BY <1>1, <2>1, <2>3, <2>4, <2>5, <2>6, <2>7, EmptySeq DEF InLine
  <2>9. QED
    BY <2>1, <2>7, <2>8 DEF Ordered
<1>4. QED
  BY <1>2, <1>3

\* A client that is sent the next chunk of its line.
LEMMA SentOrder ==
  ASSUME ControlInv, DataType, ~Done, Order, NEW c \in Client, NEW d \in Client,
         SendReplay(d) \/ Stream(d) \/ Drain(d) \/ Detach(d)
  PROVE  Ordered(c)'
<1>0. Ordered(c) /\ Ordered(d)
  BY DEF Order
<1>1. out' = out /\ reader' = reader /\ Held(c)' = Held(c)
  BY DEF SendReplay, Stream, Drain, Receive, Detach, pty, Held
<1>2. CASE c # d
  <2>1. queue'[c] = queue[c] /\ replay'[c] = replay[c] /\ pc'[c] = pc[c] /\ got'[c] = got[c]
    BY <1>2 DEF SendReplay, Stream, Drain, Receive, Detach, Go, SendTo, DataType, ControlInv, ControlType
  <2>2. QED
    BY <1>0, <1>1, <2>1, OrderedUntouched
<1>3. CASE c = d /\ SendReplay(c) /\ replay[c] = <<>>
  <2>1. pc[c] = "replay" /\ pc'[c] = "stream" /\ UNCHANGED <<queue, replay, got>>
    BY <1>3 DEF SendReplay, Go, ControlInv, ControlType
  <2>2. Upcoming(c)' = Upcoming(c)
    BY <2>1 DEF Upcoming
  <2>3. InLine(c) /\ Run(got[c].seq, got[c].from)
    BY <1>0, <2>1 DEF Ordered, Streaming
  <2>4. InLine(c)' /\ Run(got[c].seq, got[c].from)'
    BY <1>1, <2>1, <2>2, <2>3 DEF InLine, Run
  <2>5. QED
    BY <1>3, <2>1, <2>4 DEF Ordered
<1>4. CASE c = d /\ SendReplay(c) /\ replay[c] # <<>>
  <2>1. pc[c] = "replay" /\ pc'[c] = pc[c] /\ queue' = queue
    BY <1>4 DEF SendReplay
  <2>2. InLine(c) /\ Run(got[c].seq, got[c].from)
    BY <1>0, <2>1 DEF Ordered, Streaming
  <2>3. /\ Head(replay[c]) = Upcoming(c) /\ Head(replay[c]) \in 1..MaxOut
        /\ Run(Tail(replay[c]), Upcoming(c) + 1) /\ Len(Tail(replay[c])) = Len(replay[c]) - 1
    BY <1>4, <2>2, Numbers, RunTail DEF InLine
  <2>4. replay'[c] = Tail(replay[c])
    BY <1>4 DEF SendReplay, DataType
  <2>5. SendTo(c, Head(replay[c]))
    BY <1>4 DEF SendReplay
  <2>6. /\ Run(got[c].seq, got[c].from)' /\ Upcoming(c)' = Upcoming(c) + 1
    BY <2>2, <2>3, <2>5, Sending, Zenon
  <2>7. Upcoming(c)' + Len(replay[c])' = Upcoming(c) + Len(replay[c])
    BY <2>3, <2>4, <2>6, Numbers
  <2>8. Run(queue[c], Upcoming(c) + Len(replay[c]))'
    BY <2>1, <2>2, <2>7 DEF InLine, Run
  <2>9. InLine(c)'
    BY <1>1, <2>1, <2>2, <2>3, <2>4, <2>6, <2>7, <2>8 DEF InLine
  <2>10. QED
    BY <2>1, <2>6, <2>9 DEF Ordered
<1>5. CASE c = d /\ Receive(c, "stream") /\ UNCHANGED pc
  <2>1. pc[c] = "stream" /\ replay[c] = <<>> /\ replay' = replay /\ queue[c] # <<>>
    BY <1>0, <1>5 DEF Receive, Ordered
  <2>2. InLine(c) /\ Run(got[c].seq, got[c].from) /\ Len(replay[c]) = 0
    BY <1>0, <2>1, EmptySeq DEF Ordered, Streaming
  <2>3. Run(queue[c], Upcoming(c))
    BY <2>2, Numbers DEF InLine, Run
  <2>4. /\ Head(queue[c]) = Upcoming(c) /\ Head(queue[c]) \in 1..MaxOut
        /\ Run(Tail(queue[c]), Upcoming(c) + 1) /\ Len(Tail(queue[c])) = Len(queue[c]) - 1
    BY <2>1, <2>3, Numbers, RunTail
  <2>5. queue'[c] = Tail(queue[c])
    BY <1>5 DEF Receive, DataType
  <2>6. SendTo(c, Head(queue[c]))
    BY <1>5, <2>1 DEF Receive, Go, ControlInv, ControlType
  <2>7. Run(got[c].seq, got[c].from)' /\ Upcoming(c)' = Upcoming(c) + 1
    BY <2>2, <2>4, <2>6, Sending, Zenon
  <2>8. Run(queue[c], Upcoming(c) + Len(replay[c]))' /\ Run(replay[c], Upcoming(c))'
    <3>1. Len(replay[c])' = 0
      BY <2>1, <2>2
    <3>2. Upcoming(c)' + Len(replay[c])' = Upcoming(c) + 1
      BY <2>7, <3>1, Numbers
    <3>3. Run(queue[c], Upcoming(c) + Len(replay[c]))'
      BY <2>4, <2>5, <3>2 DEF Run
    <3>4. Run(replay[c], Upcoming(c))'
      BY <3>1 DEF Run
    <3>5. QED
      BY <3>3, <3>4
  <2>9. (Upcoming(c) + Len(replay[c]) + Len(queue[c]))' = Upcoming(c) + Len(replay[c]) + Len(queue[c])
    BY <2>1, <2>2, <2>4, <2>5, <2>7, Numbers
  <2>10. InLine(c)'
    BY <1>1, <2>2, <2>8, <2>9 DEF InLine
  <2>11. QED
    BY <1>5, <2>1, <2>7, <2>10 DEF Ordered
<1>6. CASE c = d /\ Receive(c, "stream") /\ pc' # pc
  <2>1. pc'[c] = "detach" /\ got' = got
    BY <1>6 DEF Receive, Go, ControlInv, ControlType
  <2>2. QED
    BY <1>0, <2>1 DEF Ordered, Run, Streaming
<1>7. CASE c = d /\ Detach(c)
  <2>1. pc'[c] \in {"gone", "arm"} /\ got'[c].seq = <<>>
    BY <1>7 DEF Detach, Go, DataType, Nothing, ControlInv, ControlType
  <2>2. QED
    BY <2>1, RunEmpty DEF Ordered, Run, Streaming
<1>8. ~Drain(d)
  BY <1>0 DEF Drain, Receive, Ordered
<1>9. QED
  BY <1>2, <1>3, <1>4, <1>5, <1>6, <1>7, <1>8 DEF Stream

LEMMA StepOrder == ControlInv /\ DataType /\ Order /\ [Next]_vars => Order'
<1> SUFFICES ASSUME ControlInv, DataType, Order, [Next]_vars, ~Done', NEW c \in Client
             PROVE  Ordered(c)'
  BY DEF Order
<1>1. ~Done
  <2>1. waiter' = waiter \/ Waiter
    BY DEF Next, vars, Idle, ShellWrites, Exit, Reader, Read, Publish, ReadFails, Subscribe, Open,
       Attach, AttachFails, Serve, Start, SendReplay, Stream, Drain, Receive, SeesDone, SendExit,
       SeesCancel, Detach, DetachGone, ArmGrace, KillNow, Drop, Unsubscribe, Fire, GraceKill
  <2>2. QED
    BY <2>1 DEF Waiter, Wait, CloseDone, WaitGone, Done, ControlInv, ControlType
<1>2. Ordered(c)
  BY <1>1 DEF Order
<1>3. CASE Reader
  BY <1>1, <1>2, <1>3, ReaderOrder
<1>4. ASSUME NEW d \in Client, Subscribe(d) \/ Serve(d) PROVE Ordered(c)'
  BY <1>1, <1>4, OtherOrder, AttachOrder, SentOrder DEF Subscribe, Serve
<1>5. ASSUME NEW d \in Client, Drop(d) \/ Unsubscribe(d) \/ Fire(d) \/ GraceKill(d) PROVE Ordered(c)'
  BY <1>1, <1>5, OtherOrder
<1>6. CASE ShellWrites \/ Exit \/ Waiter \/ Idle \/ UNCHANGED vars
  BY <1>1, <1>6, OtherOrder
<1>7. QED
  BY <1>3, <1>4, <1>5, <1>6 DEF Next

\* While the shell lives a client is sent the scrollback and every later chunk, once
\* and in order, whatever clients came before and however small its channel is.
THEOREM NoGap == Spec => []NoGapWhileRunning
<1>1. DataType /\ Order => NoGapWhileRunning
  <2> SUFFICES ASSUME DataType, Order, ~Done, NEW c \in Client PROVE Continuous(c)
    BY DEF NoGapWhileRunning
  <2>1. Run(got[c].seq, got[c].from)
    BY DEF Order, Ordered
  <2>2. DOMAIN got[c].seq = 1..Len(got[c].seq)
    BY Numbers, LenProperties DEF Chunks
  <2>3. QED
    BY <2>1, <2>2 DEF Run, Continuous
<1>2. QED
  BY <1>1, InitControl, StepControl, InitData, StepData, InitOrder, StepOrder, PTL DEF Spec

=============================================================================
