------------------------------ MODULE UserFiles ------------------------------
(***************************************************************************)
(* Saving and deleting a user's files: the agent's handlers with the store *)
(* of answered requests (httpapi mutate), files.Write and files.Trash with *)
(* their lock per path, and what else changes the same disk: the broker's  *)
(* writer of protected files, and programs that know of no lock.           *)
(*                                                                         *)
(* A Call is one HTTP request; several may carry one requestId.  Paths     *)
(* are resolved.  Names in the trash come from last components, so several *)
(* paths may share one.  A content that does not arrive whole on the disk  *)
(* is a temporary file, which nobody reads.  Entries of the store last a   *)
(* day and are not forgotten here but with the agent.                      *)
(***************************************************************************)
EXTENDS ProtectedFiles

CONSTANTS
  Call,
  RequestId, IdOf,      \* IdOf[c]: c's requestId
  Deletes,              \* the calls of files/delete; the others are files/write
  PathOf,               \* PathOf[c]: the resolved path
  ContentOf, ExpectsOf, \* of a write: what it writes, the revision it expects
  Anything,             \* an empty expectedRevision
  Name,                 \* the names in Trash/files
  MaxNumber,            \* bound: the number uniqueTrashName appends
  NameOf,               \* NameOf[<<p, k>>]: p's last component, with .k from k = 1
  EditTo,               \* what other programs put on the disk
  MaxEdits, MaxCrash    \* bounds: changes from elsewhere; deaths of a process

ASSUME CallAssumption ==
  /\ IdOf \in [Call -> RequestId] /\ Deletes \subseteq Call /\ "free" \notin Call
  /\ PathOf \in [Call -> Path]
  /\ ContentOf \in [Call -> Content] /\ ExpectsOf \in [Call -> Content \cup {Anything}]
  /\ Anything \notin Content \cup {Missing}
  /\ EditTo \subseteq Content \cup {Missing}
  /\ {MaxNumber, MaxEdits, MaxCrash} \subseteq Nat
  /\ NameOf \in [Path \X (0..MaxNumber) -> Name]

VARIABLES
  call,    \* call[c]: where the handler is, the trash name it uses, its reply
  lock,    \* lock[p]: the call that holds p's lock, or "free"
  idem,    \* idem[i]: the stored reply
  trash,   \* trash[n]: what Trash/files holds under the name n
  info,    \* the names with a .trashinfo
  written, \* history: how often a request has renamed a file into place
  trashed, \* history: the names under which a request has put files into the trash
  edits, crashes

userVars == <<call, lock, idem, trash, info, written, trashed>>
vars == <<disk, saveVars, raced, userVars, edits, crashes>>

NoName == <<>>
Start == [at |-> "new", name |-> NoName, reply |-> "none"]
Writing(c, p) == c \in Call \ Deletes /\ PathOf[c] = p /\ call[c].at = "rename"

\* The file at p is replaced or moved by someone who holds no lock that others respect.
RacedAt(p) == raced' = raced \cup {s \in Save : Past(s, p)} \cup {c \in Call : Writing(c, p)}

-----------------------------------------------------------------------------
(***************************************************************************)
(* mutate.                                                                 *)
(***************************************************************************)
Goes(c, at) == call' = [call EXCEPT ![c].at = at]
Ends(c, reply) == call' = [call EXCEPT ![c].at = "put", ![c].reply = reply]
Release(c) == lock' = [lock EXCEPT ![PathOf[c]] = "free"]

\* A stored reply is replayed.  Otherwise the operation starts; a delete that does not
\* find the path fails before it takes the lock.
Begin(c) ==
  LET stored == idem[IdOf[c]] IN
  /\ call[c].at = "new"
  /\ IF stored # "none"
       THEN call' = [call EXCEPT ![c].at = "answered", ![c].reply = stored]
     ELSE IF c \in Deletes /\ disk[PathOf[c]] = Missing THEN Ends(c, "error")
     ELSE Goes(c, "lock")
  /\ UNCHANGED <<disk, saveVars, raced, lock, idem, trash, info, written, trashed, edits, crashes>>

\* The reply is stored, whatever it is, and then given.
Put(c) ==
  /\ call[c].at = "put"
  /\ idem' = [idem EXCEPT ![IdOf[c]] = call[c].reply]
  /\ Goes(c, "answered")
  /\ UNCHANGED <<disk, saveVars, raced, lock, trash, info, written, trashed, edits, crashes>>

-----------------------------------------------------------------------------
(***************************************************************************)
(* files.Write.                                                            *)
(***************************************************************************)
\* ok: under the lock, the file has the expected revision.
Checked(c) == ExpectsOf[c] \in {Anything, disk[PathOf[c]]}

\* Mutant of WriteLocks: the lock is not waited for.
WriteLocksAnyway(c) ==
  /\ c \notin Deletes /\ call[c].at = "lock"
  /\ IF Checked(c)
       THEN Goes(c, "rename") /\ lock' = [lock EXCEPT ![PathOf[c]] = c]
       ELSE Ends(c, "error") /\ UNCHANGED lock
  /\ UNCHANGED <<disk, saveVars, raced, idem, trash, info, written, trashed, edits, crashes>>

\* The lock, Stat and the revision.
WriteLocks(c) ==
  /\ c \notin Deletes /\ call[c].at = "lock" /\ lock[PathOf[c]] = "free"
  /\ IF Checked(c)
       THEN Goes(c, "rename") /\ lock' = [lock EXCEPT ![PathOf[c]] = c]
       ELSE Ends(c, "error") /\ UNCHANGED lock
  /\ UNCHANGED <<disk, saveVars, raced, idem, trash, info, written, trashed, edits, crashes>>

\* The temporary file is complete and takes the place of the file.
WriteRenames(c) ==
  LET p == PathOf[c] IN
  /\ c \notin Deletes /\ call[c].at = "rename"
  /\ disk' = [disk EXCEPT ![p] = ContentOf[c]]
  /\ written' = [written EXCEPT ![IdOf[c]] = @ + 1]
  /\ raced' = raced \cup {s \in Save : Past(s, p)}
  /\ Ends(c, "ok") /\ Release(c)
  /\ UNCHANGED <<saveVars, idem, trash, info, trashed, edits, crashes>>

\* The disk is full, or the directory has gone.
WriteFails(c) ==
  /\ c \notin Deletes /\ call[c].at = "rename"
  /\ Ends(c, "error") /\ Release(c)
  /\ UNCHANGED <<disk, saveVars, raced, idem, trash, info, written, trashed, edits, crashes>>

-----------------------------------------------------------------------------
(***************************************************************************)
(* files.Trash.                                                            *)
(***************************************************************************)
\* uniqueTrashName: the first name that is not taken.
FirstFree(p, k) ==
  /\ trash[NameOf[<<p, k>>]] = Missing
  /\ \A other \in 0..(k - 1) : trash[NameOf[<<p, other>>]] # Missing

Choose(c) ==
  \E k \in 0..MaxNumber :
    /\ FirstFree(PathOf[c], k)
    /\ call' = [call EXCEPT ![c].at = "move", ![c].name = NameOf[<<PathOf[c], k>>]]

\* Mutant of TrashLocks: the name is chosen without the lock.
TrashLocksNothing(c) ==
  /\ c \in Deletes /\ call[c].at = "lock"
  /\ lock' = [lock EXCEPT ![PathOf[c]] = c]
  /\ Choose(c)
  /\ UNCHANGED <<disk, saveVars, raced, idem, trash, info, written, trashed, edits, crashes>>

TrashLocks(c) ==
  /\ c \in Deletes /\ call[c].at = "lock" /\ lock[PathOf[c]] = "free"
  /\ lock' = [lock EXCEPT ![PathOf[c]] = c]
  /\ Choose(c)
  /\ UNCHANGED <<disk, saveVars, raced, idem, trash, info, written, trashed, edits, crashes>>

\* The deletes that have chosen c's trash name under the lock of another path.
Overtaken(c) ==
  {d \in Call : call[d].at = "move" /\ call[d].name = call[c].name /\ PathOf[d] # PathOf[c]}

\* Mutant of TrashMoves: what is not there is trashed already.
TrashMovesGladly(c) ==
  LET p == PathOf[c] n == call[c].name IN
  /\ c \in Deletes /\ call[c].at = "move"
  /\ \/ /\ disk[p] # Missing /\ disk' = [disk EXCEPT ![p] = Missing]
        /\ trash' = [trash EXCEPT ![n] = disk[p]]
        /\ trashed' = [trashed EXCEPT ![IdOf[c]] = @ \cup {n}]
        /\ raced' = raced \cup {s \in Save : Past(s, p)} \cup Overtaken(c)
        /\ Goes(c, "info") /\ UNCHANGED lock
     \/ /\ Ends(c, IF disk[p] = Missing THEN "ok" ELSE "error") /\ Release(c)
        /\ UNCHANGED <<disk, raced, trash, trashed>>
  /\ UNCHANGED <<saveVars, idem, info, written, edits, crashes>>

\* The rename into Trash/files, over what has got the name since it was chosen; or it
\* fails: the file has gone, or lies on another file system.
TrashMoves(c) ==
  LET p == PathOf[c] n == call[c].name IN
  /\ c \in Deletes /\ call[c].at = "move"
  /\ \/ /\ disk[p] # Missing /\ disk' = [disk EXCEPT ![p] = Missing]
        /\ trash' = [trash EXCEPT ![n] = disk[p]]
        /\ trashed' = [trashed EXCEPT ![IdOf[c]] = @ \cup {n}]
        /\ raced' = raced \cup {s \in Save : Past(s, p)} \cup Overtaken(c)
        /\ Goes(c, "info") /\ UNCHANGED lock
     \/ Ends(c, "error") /\ Release(c) /\ UNCHANGED <<disk, raced, trash, trashed>>
  /\ UNCHANGED <<saveVars, idem, info, written, edits, crashes>>

\* The .trashinfo; when it cannot be written the answer is an error and the file stays
\* in the trash without one.
TrashNotes(c) ==
  /\ c \in Deletes /\ call[c].at = "info"
  /\ \/ info' = info \cup {call[c].name} /\ Ends(c, "ok")
     \/ UNCHANGED info /\ Ends(c, "error")
  /\ Release(c)
  /\ UNCHANGED <<disk, saveVars, raced, idem, trash, written, trashed, edits, crashes>>

-----------------------------------------------------------------------------
(***************************************************************************)
(* The rest of the machine.                                                *)
(***************************************************************************)
\* A program changes or removes the file.
Elsewhere(p, content) ==
  /\ edits < MaxEdits /\ edits' = edits + 1
  /\ disk[p] # content /\ disk' = [disk EXCEPT ![p] = content]
  /\ RacedAt(p)
  /\ UNCHANGED <<saveVars, userVars, crashes>>

\* A step of the broker's writer; only its rename changes the disk.
Saves(s) ==
  /\ \/ SaveReads(s) \/ SaveKeeps(s) \/ SaveFails(s)
     \/ SaveRenames(s) /\ RacedAt(SaveTo[s])
  /\ UNCHANGED <<userVars, edits, crashes>>

InHand == {c \in Call : call[c].at \notin {"new", "answered"}}

\* The agent dies: its locks and the store are gone, the disk is as it was.
AgentDies ==
  /\ crashes < MaxCrash /\ crashes' = crashes + 1
  /\ call' = [c \in Call |-> IF c \in InHand THEN [Start EXCEPT !.at = "lost"] ELSE call[c]]
  /\ lock' = [p \in Path |-> "free"] /\ idem' = [i \in RequestId |-> "none"]
  /\ UNCHANGED <<disk, saveVars, raced, trash, info, written, trashed, edits>>

BrokerDies ==
  /\ crashes < MaxCrash /\ crashes' = crashes + 1
  /\ save' = [s \in Save |-> IF save[s].at \in {"keep", "rename"}
                             THEN [save[s] EXCEPT !.at = "lost"] ELSE save[s]]
  /\ UNCHANGED <<disk, rollback, raced, userVars, edits>>

Init ==
  /\ SaveInit
  /\ call = [c \in Call |-> Start]
  /\ lock = [p \in Path |-> "free"] /\ idem = [i \in RequestId |-> "none"]
  /\ trash = [n \in Name |-> Missing] /\ info = {}
  /\ written = [i \in RequestId |-> 0] /\ trashed = [i \in RequestId |-> {}]
  /\ edits = 0 /\ crashes = 0

Handles(c) ==
  \/ Put(c)
  \/ WriteLocks(c) \/ WriteRenames(c) \/ WriteFails(c)
  \/ TrashLocks(c) \/ TrashMoves(c) \/ TrashNotes(c)

Next ==
  \/ \E c \in Call : Begin(c) \/ Handles(c)
  \/ \E s \in Save : Saves(s)
  \/ \E p \in Path, content \in EditTo : Elsewhere(p, content)
  \/ AgentDies \/ BrokerDies

Spec == Init /\ [][Next]_vars

-----------------------------------------------------------------------------
(***************************************************************************)
(* Properties.                                                             *)
(***************************************************************************)
\* Every variable stays within its range; what lies on the disk is whole.
TypeOK ==
  /\ SaveTypeOK /\ raced \subseteq Save \cup Call
  /\ call \in [Call -> [at : {"new", "lock", "rename", "move", "info", "put", "answered", "lost"},
                        name : Name \cup {NoName}, reply : {"none", "ok", "error"}]]
  /\ lock \in [Path -> Call \cup {"free"}]
  /\ idem \in [RequestId -> {"none", "ok", "error"}]
  /\ trash \in [Name -> Content \cup {Missing}] /\ info \subseteq Name
  /\ written \in [RequestId -> Nat] /\ trashed \in [RequestId -> SUBSET Name]
  /\ edits \in Nat /\ crashes \in Nat

\* No update is lost: a write that names a revision replaces that revision and no
\* other, whatever other writes and deletes the agent is serving; only who takes no
\* lock can come between its check and its rename.
NoLostUpdate ==
  [][\A c \in Call \ Deletes :
       call[c].at = "rename" /\ call'[c].reply = "ok" /\ ExpectsOf[c] # Anything /\ c \notin raced
         => disk[PathOf[c]] = ExpectsOf[c]]_vars

\* A write that names a revision takes effect once, however often and however close
\* together it is sent, and also when the agent dies and forgets what it has answered;
\* as long as nobody puts the replaced content back, which is all that keeps a request
\* the agent has forgotten from being carried out again.
WrittenOnce ==
  \A i \in RequestId :
    (\A c \in Call : IdOf[c] = i => c \notin Deletes /\ ExpectsOf[c] # Anything)
      => written[i] <= 1

\* The deduplication by requestId as it is promised: a duplicate performs no second
\* mutation, be it a write or a move into the trash.
RequestOnce == \A i \in RequestId : written[i] + Cardinality(trashed[i]) <= 1

\* An answer of success, the first or a replay, is about something that happened: the
\* file was written, or something with a .trashinfo lies in the trash under the name
\* that the request has moved it to.
SuccessIsTrue ==
  \A c \in Call : call[c].at = "answered" /\ call[c].reply = "ok" =>
    IF c \in Deletes
      THEN \E n \in trashed[IdOf[c]] : n \in info /\ trash[n] # Missing
      ELSE written[IdOf[c]] > 0

\* What the trash holds is overwritten in one case only: by a delete whose name was taken,
\* after it had looked, by a delete of another path.  Deletes of one path never do it,
\* whatever is put back at the path meanwhile.
TrashIsKept ==
  [][\A n \in Name : trash[n] # Missing /\ trash'[n] # trash[n] =>
       \E c \in Deletes \cap raced :
         call[c].at = "move" /\ call[c].name = n /\ call'[c].at = "info"]_vars

\* What uniqueTrashName is for: no delete overwrites what is in the trash.
NeverOverwritten == [][\A n \in Name : trash[n] # Missing => trash'[n] = trash[n]]_vars

\* A path's lock is with the one call between its check and its rename, or between
\* the choice of a trash name and the note about it; no way out of a handler keeps it.
LockIsHeld ==
  \A c \in Call : call[c].at \in {"rename", "move", "info"} <=> lock[PathOf[c]] = c
=============================================================================
