------------------------------ MODULE FilesProofs ------------------------------
(***************************************************************************)
(* Theorems about UserFiles and ProtectedFiles, for every number of paths, *)
(* requests and saves, overlapping and repeated in any way, with programs  *)
(* that change the disk and processes that die.                            *)
(***************************************************************************)
EXTENDS UserFiles, TLAPS

Places == {"new", "lock", "rename", "move", "info", "put", "answered", "lost"}
Replies == {"none", "ok", "error"}
Calls == [at : Places, name : Name \cup {NoName}, reply : Replies]
SavePlaces == {"new", "keep", "rename", "saved", "refused", "lost"}
Saved == [at : SavePlaces, old : Content \cup {Missing}]

\* What a save that is past its check has read is the revision it expects.
SavesKnown == \A s \in Save : save[s].at \in {"keep", "rename"} => save[s].old = SaveExpects[s]

\* Who moves a file has chosen its name in the trash.
Named == \A c \in Call : call[c].at \in {"move", "info"} => call[c].name \in Name

TypeInv == TypeOK /\ SavesKnown /\ Named

-----------------------------------------------------------------------------
(***************************************************************************)
(* What a handler does to its record.                                      *)
(***************************************************************************)
LEMMA StartFacts == Start \in Calls /\ Start.at = "new" /\ Start.reply = "none"
BY DEF Start, Calls, Places, Replies

LEMMA GoesFacts ==
  ASSUME call \in [Call -> Calls], NEW c \in Call, NEW at \in Places, Goes(c, at)
  PROVE  /\ call' \in [Call -> Calls]
         /\ call'[c].at = at /\ call'[c].name = call[c].name /\ call'[c].reply = call[c].reply
         /\ \A d \in Call : d # c => call'[d] = call[d]
BY DEF Goes, Calls, Places, Replies

LEMMA EndsFacts ==
  ASSUME call \in [Call -> Calls], NEW c \in Call, NEW r \in Replies, Ends(c, r)
  PROVE  /\ call' \in [Call -> Calls]
         /\ call'[c].at = "put" /\ call'[c].name = call[c].name /\ call'[c].reply = r
         /\ \A d \in Call : d # c => call'[d] = call[d]
BY DEF Ends, Calls, Places, Replies

LEMMA ReplayFacts ==
  ASSUME call \in [Call -> Calls], NEW c \in Call, NEW r \in Replies,
         call' = [call EXCEPT ![c].at = "answered", ![c].reply = r]
  PROVE  /\ call' \in [Call -> Calls]
         /\ call'[c].at = "answered" /\ call'[c].reply = r
         /\ \A d \in Call : d # c => call'[d] = call[d]
BY DEF Calls, Places, Replies

LEMMA ChooseFacts ==
  ASSUME call \in [Call -> Calls], NEW c \in Call, Choose(c)
  PROVE  /\ call' \in [Call -> Calls]
         /\ call'[c].at = "move" /\ call'[c].reply = call[c].reply
         /\ call'[c].name \in Name /\ trash[call'[c].name] = Missing
         /\ \A d \in Call : d # c => call'[d] = call[d]
<1>1. PICK k \in 0..MaxNumber :
        /\ trash[NameOf[<<PathOf[c], k>>]] = Missing
        /\ call' = [call EXCEPT ![c].at = "move", ![c].name = NameOf[<<PathOf[c], k>>]]
  BY DEF Choose, FirstFree
<1> DEFINE n == NameOf[<<PathOf[c], k>>]
<1>2. n \in Name
  BY CallAssumption DEF CallAssumption
<1>3. trash[n] = Missing /\ call' = [call EXCEPT ![c].at = "move", ![c].name = n]
  BY <1>1
<1> HIDE DEF n
<1>4. QED
  BY <1>2, <1>3 DEF Calls, Places

-----------------------------------------------------------------------------
(***************************************************************************)
(* Types.                                                                  *)
(***************************************************************************)
LEMMA InitType == Init => TypeInv
<1> SUFFICES ASSUME Init PROVE TypeInv
  OBVIOUS
<1>1. SaveTypeOK /\ SavesKnown
  BY SaveAssumption DEF SaveAssumption, Init, SaveInit, SaveTypeOK, SavesKnown
<1>2. call \in [Call -> Calls]
  BY StartFacts DEF Init
<1>3. Named
  BY StartFacts DEF Init, Named
<1>4. QED
  BY <1>1, <1>2, <1>3 DEF Init, SaveInit, TypeInv, TypeOK, Calls, Places, Replies

LEMMA CallNamed == ASSUME TypeInv, NEW c \in Call, Begin(c) \/ Handles(c) PROVE Named'
<1>1. call \in [Call -> Calls] /\ idem[IdOf[c]] \in Replies /\ Named
  BY CallAssumption DEF CallAssumption, TypeInv, TypeOK, Calls, Places, Replies
<1>2. /\ \A d \in Call : d # c => call'[d] = call[d]
      /\ call'[c].at \in {"move", "info"} => call'[c].name \in Name
  <2>1. CASE Begin(c)
    BY <1>1, <2>1, GoesFacts, EndsFacts, ReplayFacts DEF Begin, Places, Replies
  <2>2. CASE Put(c) \/ WriteLocks(c) \/ WriteRenames(c) \/ WriteFails(c)
    BY <1>1, <2>2, GoesFacts, EndsFacts
    DEF Put, WriteLocks, WriteRenames, WriteFails, Places, Replies
  <2>3. CASE TrashLocks(c)
    BY <1>1, <2>3, ChooseFacts DEF TrashLocks
  <2>4. CASE TrashMoves(c)
    BY <1>1, <2>4, GoesFacts, EndsFacts DEF TrashMoves, Named, Places, Replies
  <2>5. CASE TrashNotes(c)
    BY <1>1, <2>5, EndsFacts DEF TrashNotes, Replies
  <2>6. QED
    BY <2>1, <2>2, <2>3, <2>4, <2>5 DEF Handles
<1>3. QED
  BY <1>1, <1>2 DEF Named

LEMMA CallType == ASSUME TypeInv, NEW c \in Call, Begin(c) \/ Handles(c) PROVE TypeInv'
<1>0. /\ call \in [Call -> Calls] /\ idem \in [RequestId -> Replies]
      /\ IdOf[c] \in RequestId /\ PathOf[c] \in Path /\ ContentOf[c] \in Content
      /\ disk \in [Path -> Content \cup {Missing}] /\ call[c] \in Calls
  BY CallAssumption
  DEF CallAssumption, TypeInv, TypeOK, SaveTypeOK, Calls, Places, Replies
<1>10. Named'
  BY CallNamed
<1> USE DEF TypeInv, TypeOK, SaveTypeOK, SavesKnown, saveVars
<1>1. CASE Begin(c)
  <2>1. call' \in [Call -> Calls]
    BY <1>0, <1>1, GoesFacts, EndsFacts, ReplayFacts DEF Begin, Replies, Places
  <2>2. QED
    BY <1>1, <1>10, <2>1 DEF Begin, Calls, Places, Replies
<1>2. CASE Put(c)
  <2>1. call' \in [Call -> Calls]
    BY <1>0, <1>2, GoesFacts DEF Put, Places
  <2>2. call[c].reply \in Replies
    BY <1>0 DEF Calls
  <2>3. idem' \in [RequestId -> Replies]
    BY <1>0, <1>2, <2>2 DEF Put
  <2>4. QED
    BY <1>2, <1>10, <2>1, <2>3 DEF Put, Calls, Places, Replies
<1>3. CASE WriteLocks(c)
  <2>1. call' \in [Call -> Calls]
    BY <1>0, <1>3, GoesFacts, EndsFacts DEF WriteLocks, Replies, Places
  <2>2. lock' \in [Path -> Call \cup {"free"}]
    BY <1>0, <1>3 DEF WriteLocks
  <2>3. QED
    BY <1>3, <1>10, <2>1, <2>2 DEF WriteLocks, Calls, Places, Replies
<1>4. CASE WriteRenames(c)
  <2>1. call' \in [Call -> Calls]
    BY <1>0, <1>4, EndsFacts DEF WriteRenames, Replies
  <2>2. lock' \in [Path -> Call \cup {"free"}] /\ disk' \in [Path -> Content \cup {Missing}]
    BY <1>0, <1>4 DEF WriteRenames, Release
  <2>3. written' \in [RequestId -> Nat] /\ raced' \subseteq Save \cup Call
    BY <1>0, <1>4 DEF WriteRenames
  <2>4. QED
    BY <1>4, <1>10, <2>1, <2>2, <2>3 DEF WriteRenames, Calls, Places, Replies
<1>5. CASE WriteFails(c)
  <2>1. call' \in [Call -> Calls]
    BY <1>0, <1>5, EndsFacts DEF WriteFails, Replies
  <2>2. lock' \in [Path -> Call \cup {"free"}]
    BY <1>0, <1>5 DEF WriteFails, Release
  <2>3. QED
    BY <1>5, <1>10, <2>1, <2>2 DEF WriteFails, Calls, Places, Replies
<1>6. CASE TrashLocks(c)
  <2>1. call' \in [Call -> Calls]
    BY <1>0, <1>6, ChooseFacts DEF TrashLocks
  <2>2. lock' \in [Path -> Call \cup {"free"}]
    BY <1>0, <1>6 DEF TrashLocks
  <2>3. QED
    BY <1>6, <1>10, <2>1, <2>2 DEF TrashLocks, Calls, Places, Replies
<1>7. CASE TrashMoves(c)
  <2>1. call' \in [Call -> Calls]
    BY <1>0, <1>7, GoesFacts, EndsFacts DEF TrashMoves, Replies, Places
  <2>2. lock' \in [Path -> Call \cup {"free"}] /\ disk' \in [Path -> Content \cup {Missing}]
    BY <1>0, <1>7 DEF TrashMoves, Release
  <2>3. trash' \in [Name -> Content \cup {Missing}] /\ raced' \subseteq Save \cup Call
    BY <1>0, <1>7 DEF TrashMoves, Overtaken
  <2>4. call[c].name \in Name
    BY <1>7 DEF TrashMoves, Named
  <2>5. trashed' = trashed \/ trashed' = [trashed EXCEPT ![IdOf[c]] = @ \cup {call[c].name}]
    BY <1>7 DEF TrashMoves
  <2>6. trashed' \in [RequestId -> SUBSET Name]
    BY <1>0, <2>4, <2>5
  <2>7. QED
    BY <1>7, <1>10, <2>1, <2>2, <2>3, <2>6 DEF TrashMoves, Calls, Places, Replies
<1>8. CASE TrashNotes(c)
  <2>1. call' \in [Call -> Calls]
    BY <1>0, <1>8, EndsFacts DEF TrashNotes, Replies
  <2>2. lock' \in [Path -> Call \cup {"free"}]
    BY <1>0, <1>8 DEF TrashNotes, Release
  <2>3. info' \subseteq Name
    BY <1>8 DEF TrashNotes, Named
  <2>4. QED
    BY <1>8, <1>10, <2>1, <2>2, <2>3 DEF TrashNotes, Calls, Places, Replies
<1>9. QED
  BY <1>1, <1>2, <1>3, <1>4, <1>5, <1>6, <1>7, <1>8 DEF Handles

\* The broker's writer, and what other programs do to the disk.
LEMMA RestType ==
  ASSUME TypeInv,
         \/ \E s \in Save : Saves(s)
         \/ \E p \in Path, content \in EditTo : Elsewhere(p, content)
         \/ AgentDies \/ BrokerDies \/ UNCHANGED vars
  PROVE  TypeInv'
<1>0. /\ call \in [Call -> Calls] /\ save \in [Save -> Saved]
      /\ disk \in [Path -> Content \cup {Missing}] /\ rollback \subseteq Path \X Content
      /\ raced \subseteq Save \cup Call /\ \A p \in Path : RacedAt(p) => raced' \subseteq Save \cup Call
      /\ SavesKnown
  BY DEF TypeInv, TypeOK, SaveTypeOK, Saved, SavePlaces, Calls, Places, Replies, RacedAt
<1>1. ASSUME NEW s \in Save, Saves(s)
      PROVE  /\ save' \in [Save -> Saved] /\ rollback' \subseteq Path \X Content /\ SavesKnown'
             /\ disk' \in [Path -> Content \cup {Missing}] /\ raced' \subseteq Save \cup Call
  <2>1. /\ SaveTo[s] \in Path /\ SaveContent[s] \in Content /\ SaveExpects[s] \in Content
        /\ disk[SaveTo[s]] \in Content \cup {Missing} /\ save[s] \in Saved
    BY <1>0, SaveAssumption DEF SaveAssumption
  <2>2. CASE SaveReads(s)
    <3> DEFINE old == disk[SaveTo[s]]
    <3>1. PICK at \in {"keep", "refused"} :
            /\ save' = [save EXCEPT ![s] = [at |-> at, old |-> old]]
            /\ at = "keep" => old = SaveExpects[s]
      BY <2>2 DEF SaveReads
    <3>2. [at |-> at, old |-> old] \in Saved
      BY <2>1 DEF Saved, SavePlaces
    <3> HIDE DEF old
    <3>3. save' \in [Save -> Saved] /\ SavesKnown'
      BY <1>0, <3>1, <3>2 DEF SavesKnown
    <3>4. QED
      BY <1>0, <1>1, <2>2, <3>3 DEF SaveReads, Saves
  <2>3. CASE SaveKeeps(s) \/ SaveFails(s) \/ SaveRenames(s)
    <3>1. PICK at \in {"rename", "refused", "saved"} :
            save' = [save EXCEPT ![s].at = at] /\ save[s].at \in {"keep", "rename"}
      BY <2>3 DEF SaveKeeps, SaveFails, SaveRenames, SaveGoes
    <3>2. save' \in [Save -> Saved] /\ SavesKnown'
      BY <1>0, <3>1 DEF SavesKnown, Saved, SavePlaces
    <3>3. rollback' \subseteq Path \X Content
      BY <1>0, <2>1, <2>3 DEF SaveKeeps, SaveFails, SaveRenames, SavesKnown
    <3>4. disk' \in [Path -> Content \cup {Missing}]
      BY <1>0, <2>1, <2>3 DEF SaveKeeps, SaveFails, SaveRenames
    <3>5. raced' \subseteq Save \cup Call
      BY <1>0, <1>1, <2>1, <2>3 DEF SaveKeeps, SaveFails, SaveRenames, SaveReads, SaveGoes, Saves
    <3>6. QED
      BY <3>2, <3>3, <3>4, <3>5
  <2>4. QED
    BY <1>1, <2>2, <2>3 DEF Saves
<1>2. ASSUME NEW s \in Save, Saves(s) PROVE TypeInv'
  <2>1. UNCHANGED <<userVars, edits, crashes>>
    BY <1>2 DEF Saves
  <2>2. QED
    BY <1>1, <1>2, <2>1
    DEF TypeInv, TypeOK, SaveTypeOK, Named, userVars, Saved, SavePlaces
<1>3. ASSUME NEW p \in Path, NEW content \in EditTo, Elsewhere(p, content) PROVE TypeInv'
  <2>1. disk' \in [Path -> Content \cup {Missing}] /\ raced' \subseteq Save \cup Call
    BY <1>0, <1>3, CallAssumption DEF CallAssumption, Elsewhere
  <2>2. QED
    BY <1>3, <2>1 DEF Elsewhere, TypeInv, TypeOK, SaveTypeOK, SavesKnown, Named, userVars, saveVars
<1>4. CASE AgentDies
  <2>1. [Start EXCEPT !.at = "lost"] \in Calls /\ [Start EXCEPT !.at = "lost"].at = "lost"
    BY DEF Start, Calls, Places, Replies
  <2>2. call' \in [Call -> Calls] /\ Named'
    BY <1>0, <1>4, <2>1 DEF AgentDies, Named, TypeInv
  <2>3. QED
    BY <1>4, <2>2
    DEF AgentDies, TypeInv, TypeOK, SaveTypeOK, SavesKnown, saveVars, Calls, Places, Replies
<1>5. CASE BrokerDies
  <2>1. save' \in [Save -> Saved] /\ SavesKnown'
    BY <1>0, <1>5 DEF BrokerDies, SavesKnown, Saved, SavePlaces
  <2>2. QED
    BY <1>5, <2>1 DEF BrokerDies, TypeInv, TypeOK, SaveTypeOK, Named, userVars, Saved, SavePlaces
<1>6. CASE UNCHANGED vars
  BY <1>6 DEF vars, userVars, saveVars, TypeInv, TypeOK, SaveTypeOK, SavesKnown, Named
<1>7. QED
  BY <1>2, <1>3, <1>4, <1>5, <1>6

LEMMA StepType == TypeInv /\ [Next]_vars => TypeInv'
BY CallType, RestType DEF Next

LEMMA TypeInvariant == Spec => []TypeInv
BY InitType, StepType, PTL DEF Spec

\* Every reachable state of the two writers is well-typed, whatever overlaps and dies.
THEOREM TypeCorrect == Spec => []TypeOK
<1>1. TypeInv => TypeOK
  BY DEF TypeInv
<1>2. QED
  BY <1>1, TypeInvariant, PTL

-----------------------------------------------------------------------------
(***************************************************************************)
(* The lock of a path.                                                     *)
(***************************************************************************)
Critical == {"rename", "move", "info"}

LEMMA CallFacts ==
  ASSUME TypeInv, NEW c \in Call, Begin(c) \/ Handles(c)
  PROVE  /\ \A d \in Call : d # c => call'[d] = call[d]
         /\ PathOf[c] \in Path /\ "free" # c
         /\ \/ /\ call[c].at \notin Critical /\ call'[c].at \notin Critical
               /\ UNCHANGED <<disk, save, rollback, raced, lock, trash, info, written, trashed>>
            \/ /\ call[c].at \notin Critical /\ call'[c].at \in Critical
               /\ lock[PathOf[c]] = "free" /\ lock' = [lock EXCEPT ![PathOf[c]] = c]
               /\ UNCHANGED <<disk, save, rollback, raced, trash, info, written, trashed>>
            \/ /\ call[c].at \in Critical /\ call'[c].at \notin Critical
               /\ lock' = [lock EXCEPT ![PathOf[c]] = "free"]
            \/ call[c].at \in Critical /\ call'[c].at \in Critical /\ UNCHANGED lock
<1>1. /\ call \in [Call -> Calls] /\ idem[IdOf[c]] \in Replies
      /\ PathOf[c] \in Path /\ "free" # c
  BY CallAssumption DEF CallAssumption, TypeInv, TypeOK, Calls, Places, Replies
<1>2. CASE Begin(c)
  BY <1>1, <1>2, GoesFacts, EndsFacts, ReplayFacts DEF Begin, Places, Replies, Critical, saveVars
<1>3. CASE Put(c)
  BY <1>1, <1>3, GoesFacts DEF Put, Places, Critical, saveVars
<1>4. CASE WriteLocks(c)
  BY <1>1, <1>4, GoesFacts, EndsFacts DEF WriteLocks, Places, Replies, Critical, saveVars
<1>5. CASE WriteRenames(c) \/ WriteFails(c)
  BY <1>1, <1>5, EndsFacts DEF WriteRenames, WriteFails, Release, Replies, Critical
<1>6. CASE TrashLocks(c)
  BY <1>1, <1>6, ChooseFacts DEF TrashLocks, Critical, saveVars
<1>7. CASE TrashMoves(c)
  BY <1>1, <1>7, GoesFacts, EndsFacts DEF TrashMoves, Release, Places, Replies, Critical
<1>8. CASE TrashNotes(c)
  BY <1>1, <1>8, EndsFacts DEF TrashNotes, Release, Replies, Critical
<1>9. QED
  BY <1>2, <1>3, <1>4, <1>5, <1>6, <1>7, <1>8 DEF Handles

LEMMA StepLock == TypeInv /\ LockIsHeld /\ [Next]_vars => LockIsHeld'
<1> SUFFICES ASSUME TypeInv, LockIsHeld, [Next]_vars PROVE LockIsHeld'
  OBVIOUS
<1>0. lock \in [Path -> Call \cup {"free"}] /\ PathOf \in [Call -> Path] /\ "free" \notin Call
  BY CallAssumption DEF CallAssumption, TypeInv, TypeOK
<1>1. ASSUME NEW c \in Call, Begin(c) \/ Handles(c) PROVE LockIsHeld'
  BY <1>0, <1>1, CallFacts DEF LockIsHeld, Critical
<1>2. CASE AgentDies
  <2>1. \A c \in Call : call'[c].at \notin Critical
    BY <1>2 DEF AgentDies, InHand, Critical, Start, TypeInv, TypeOK
  <2>2. QED
    BY <1>0, <1>2, <2>1 DEF AgentDies, LockIsHeld, Critical
<1>3. ASSUME \/ \E s \in Save : Saves(s)
             \/ \E p \in Path, content \in EditTo : Elsewhere(p, content)
             \/ BrokerDies \/ UNCHANGED vars
      PROVE  LockIsHeld'
  BY <1>3 DEF Saves, Elsewhere, BrokerDies, vars, userVars, LockIsHeld
<1>4. QED
  BY <1>1, <1>2, <1>3 DEF Next

LEMMA LockInvariant == Spec => []LockIsHeld
<1>1. Init => LockIsHeld
  BY CallAssumption, StartFacts DEF CallAssumption, Init, LockIsHeld
<1>2. QED
  BY <1>1, StepLock, TypeInvariant, PTL DEF Spec

\* A path's lock is held exactly from a check to the rename it is for, for any number of
\* calls: no way out of files.Write or files.Trash leaves it taken, none drops it early.
THEOREM LockHeldWhileNeeded == Spec => []LockIsHeld
BY LockInvariant

\* Two calls never hold one lock.
LEMMA OneHolder ==
  ASSUME LockIsHeld, NEW c \in Call, NEW d \in Call, c # d,
         call[c].at \in Critical, call[d].at \in Critical
  PROVE  PathOf[c] # PathOf[d]
BY DEF LockIsHeld, Critical

-----------------------------------------------------------------------------
(***************************************************************************)
(* Between a check and its rename the file stays as it was checked, unless *)
(* the one who changes it knows of no lock.                                *)
(***************************************************************************)
Guarded ==
  \A c \in Call \ Deletes :
    call[c].at = "rename" /\ ExpectsOf[c] # Anything /\ c \notin raced => disk[PathOf[c]] = ExpectsOf[c]

Copied ==
  \A s \in Save : s \notin raced =>
    /\ save[s].at \in {"keep", "rename"} => disk[SaveTo[s]] = save[s].old
    /\ save[s].at = "rename" => <<SaveTo[s], save[s].old>> \in rollback

\* Who changes the file at p has all those noted that are past their check.
LEMMA RacedOthers ==
  ASSUME NEW p, RacedAt(p)
  PROVE  /\ \A s \in Save : Past(s, p) => s \in raced'
         /\ \A c \in Call : Writing(c, p) => c \in raced'
         /\ raced \subseteq raced'
BY DEF RacedAt

LEMMA StepGuarded == TypeInv /\ LockIsHeld /\ Guarded /\ [Next]_vars => Guarded'
<1> SUFFICES ASSUME TypeInv, LockIsHeld, Guarded, [Next]_vars,
                    NEW c \in Call \ Deletes, call'[c].at = "rename", ExpectsOf[c] # Anything, c \notin raced'
             PROVE  disk'[PathOf[c]] = ExpectsOf[c]
  BY DEF Guarded
<1>0. /\ call \in [Call -> Calls] /\ disk \in [Path -> Content \cup {Missing}]
      /\ PathOf \in [Call -> Path] /\ SaveTo \in [Save -> Path]
      /\ idem \in [RequestId -> Replies] /\ IdOf \in [Call -> RequestId]
  BY CallAssumption, SaveAssumption
  DEF CallAssumption, SaveAssumption, TypeInv, TypeOK, SaveTypeOK, Calls, Places, Replies
<1>1. ASSUME NEW d \in Call, Begin(d) \/ Handles(d) PROVE disk'[PathOf[c]] = ExpectsOf[c]
  <2>1. CASE d = c /\ call[c].at # "rename"
    <3>1. ~Begin(c)
      <4>1. idem[IdOf[c]] \in Replies
        BY <1>0
      <4>2. Begin(c) => call'[c].at \in {"answered", "put", "lock"}
        BY <1>0, <4>1, GoesFacts, EndsFacts, ReplayFacts DEF Begin, Places, Replies
      <4>3. QED
        BY <4>2
    <3>2. WriteLocks(c)
      <4>1. Put(c) => call'[c].at = "answered"
        BY <1>0, GoesFacts DEF Put, Places
      <4>2. ~WriteRenames(c) /\ ~WriteFails(c) /\ ~TrashLocks(c) /\ ~TrashMoves(c) /\ ~TrashNotes(c)
        BY <2>1 DEF WriteRenames, WriteFails, TrashLocks, TrashMoves, TrashNotes
      <4>3. QED
        BY <1>1, <2>1, <3>1, <4>1, <4>2 DEF Handles
    <3>3. Checked(c)
      BY <1>0, <3>2, EndsFacts DEF WriteLocks, Replies
    <3>4. QED
      BY <3>2, <3>3 DEF WriteLocks, Checked
  <2>2. CASE d = c /\ call[c].at = "rename"
    <3>1. call'[c].at \in {"put", "answered"}
      BY <1>0, <1>1, <2>2, EndsFacts
      DEF Begin, Handles, Put, WriteLocks, WriteRenames, WriteFails, TrashLocks, TrashMoves, TrashNotes, Replies
    <3>2. QED
      BY <3>1
  <2>3. CASE d # c
    <3>1. call[c].at = "rename" /\ (call[d].at \in Critical => PathOf[d] # PathOf[c])
      BY <1>1, <2>3, CallFacts, OneHolder DEF Critical
    <3>2. c \notin raced
      BY <1>0, <1>1, <2>3
      DEF Begin, Handles, Put, WriteLocks, WriteRenames, WriteFails, TrashLocks, TrashMoves, TrashNotes
    <3>3. disk[PathOf[c]] = ExpectsOf[c]
      BY <3>1, <3>2 DEF Guarded
    <3>4. disk' = disk \/ (call[d].at \in Critical /\ \E content : disk' = [disk EXCEPT ![PathOf[d]] = content])
      BY <1>1
      DEF Begin, Handles, Put, WriteLocks, WriteRenames, WriteFails, TrashLocks, TrashMoves, TrashNotes, Critical
    <3>5. QED
      BY <1>0, <3>1, <3>3, <3>4
  <2>4. QED
    BY <2>1, <2>2, <2>3
<1>2. ASSUME NEW p \in Path, RacedAt(p), UNCHANGED call, \E content : disk' = [disk EXCEPT ![p] = content]
      PROVE  disk'[PathOf[c]] = ExpectsOf[c]
  <2>1. PathOf[c] # p /\ c \notin raced
    BY <1>2, RacedOthers DEF Writing
  <2>2. disk[PathOf[c]] = ExpectsOf[c]
    BY <1>2, <2>1 DEF Guarded
  <2>3. QED
    BY <1>0, <1>2, <2>1, <2>2
<1>3. ASSUME NEW s \in Save, Saves(s) PROVE disk'[PathOf[c]] = ExpectsOf[c]
  <2>1. CASE SaveRenames(s) /\ RacedAt(SaveTo[s])
    BY <1>0, <1>2, <1>3, <2>1 DEF Saves, SaveRenames, userVars
  <2>2. CASE SaveReads(s) \/ SaveKeeps(s) \/ SaveFails(s)
    <3>1. UNCHANGED <<disk, raced, call>>
      BY <1>3, <2>2 DEF SaveReads, SaveKeeps, SaveFails, Saves, userVars
    <3>2. QED
      BY <3>1 DEF Guarded
  <2>3. QED
    BY <1>3, <2>1, <2>2 DEF Saves
<1>4. ASSUME NEW p \in Path, NEW content \in EditTo, Elsewhere(p, content)
      PROVE  disk'[PathOf[c]] = ExpectsOf[c]
  BY <1>2, <1>4 DEF Elsewhere, userVars
<1>5. CASE AgentDies
  BY <1>5 DEF AgentDies, InHand, Start
<1>6. CASE BrokerDies \/ UNCHANGED vars
  BY <1>6 DEF BrokerDies, vars, userVars, Guarded
<1>7. QED
  BY <1>1, <1>3, <1>4, <1>5, <1>6 DEF Next

LEMMA GuardedInvariant == Spec => []Guarded
<1>1. Init => Guarded
  BY StartFacts DEF Init, Guarded
<1>2. QED
  BY <1>1, StepGuarded, TypeInvariant, LockInvariant, PTL DEF Spec

\* No update is lost between the calls of an agent, for any number of them: a write that
\* names a revision replaces that revision, or the file was changed without a lock.
THEOREM NoUpdateLost == Spec => NoLostUpdate
<1>1. Guarded => \A c \in Call \ Deletes :
        call[c].at = "rename" /\ call'[c].reply = "ok" /\ ExpectsOf[c] # Anything /\ c \notin raced
          => disk[PathOf[c]] = ExpectsOf[c]
  BY DEF Guarded
<1>2. QED
  BY <1>1, GuardedInvariant, PTL DEF NoLostUpdate

LEMMA StepCopied == TypeInv /\ Copied /\ [Next]_vars => Copied'
<1> SUFFICES ASSUME TypeInv, Copied, [Next]_vars, NEW s \in Save, s \notin raced'
             PROVE  /\ save'[s].at \in {"keep", "rename"} => disk'[SaveTo[s]] = save'[s].old
                    /\ save'[s].at = "rename" => <<SaveTo[s], save'[s].old>> \in rollback'
  BY DEF Copied
<1>0. /\ disk \in [Path -> Content \cup {Missing}] /\ save \in [Save -> Saved]
      /\ PathOf \in [Call -> Path] /\ SaveTo \in [Save -> Path]
  BY CallAssumption, SaveAssumption
  DEF CallAssumption, SaveAssumption, TypeInv, TypeOK, SaveTypeOK, Saved, SavePlaces
<1> DEFINE Kept == /\ save'[s].at \in {"keep", "rename"} => disk'[SaveTo[s]] = save'[s].old
                   /\ save'[s].at = "rename" => <<SaveTo[s], save'[s].old>> \in rollback'
\* Somebody changes the file at p, and the saves past their check are noted.
<1>1. ASSUME NEW p \in Path, \A t \in Save : Past(t, p) => t \in raced', raced \subseteq raced',
             save'[s] = save[s], UNCHANGED rollback, \E content : disk' = [disk EXCEPT ![p] = content]
      PROVE  Kept
  <2>1. save[s].at \in {"keep", "rename"} => SaveTo[s] # p
    BY <1>1 DEF Past
  <2>2. QED
    BY <1>0, <1>1, <2>1 DEF Copied
<1>2. ASSUME NEW c \in Call, Begin(c) \/ Handles(c) PROVE Kept
  <2>1. PathOf[c] \in Path /\ UNCHANGED <<save, rollback>>
    BY <1>0, <1>2
    DEF Begin, Handles, Put, WriteLocks, WriteRenames, WriteFails, TrashLocks, TrashMoves, TrashNotes, saveVars
  <2>2. \/ UNCHANGED <<disk, raced>>
        \/ /\ \E more : raced' = raced \cup {t \in Save : Past(t, PathOf[c])} \cup more
           /\ \E content : disk' = [disk EXCEPT ![PathOf[c]] = content]
    BY <1>2
    DEF Begin, Handles, Put, WriteLocks, WriteRenames, WriteFails, TrashLocks, TrashMoves, TrashNotes
  <2>3. CASE UNCHANGED <<disk, raced>>
    BY <2>1, <2>3 DEF Copied
  <2>4. CASE ~UNCHANGED <<disk, raced>>
    <3>1. \E more : raced' = raced \cup {t \in Save : Past(t, PathOf[c])} \cup more
      BY <2>2, <2>4
    <3>2. (\A t \in Save : Past(t, PathOf[c]) => t \in raced') /\ raced \subseteq raced'
      BY <3>1
    <3>3. QED
      BY <1>1, <2>1, <2>2, <2>4, <3>2
  <2>5. QED
    BY <2>3, <2>4
<1>3. ASSUME NEW t \in Save, Saves(t), t # s PROVE Kept
  <2>1. save'[s] = save[s]
    BY <1>0, <1>3 DEF Saves, SaveReads, SaveKeeps, SaveFails, SaveRenames, SaveGoes
  <2>2. CASE SaveRenames(t) /\ RacedAt(SaveTo[t])
    BY <1>0, <1>1, <2>1, <2>2, RacedOthers DEF SaveRenames
  <2>3. CASE SaveReads(t) \/ SaveKeeps(t) \/ SaveFails(t)
    <3>1. UNCHANGED <<disk, raced>> /\ rollback \subseteq rollback'
      BY <2>3 DEF SaveReads, SaveKeeps, SaveFails
    <3>2. QED
      BY <2>1, <3>1 DEF Copied
  <2>4. QED
    BY <1>3, <2>2, <2>3 DEF Saves
<1>4. CASE Saves(s)
  <2>1. CASE SaveReads(s)
    <3>1. PICK at \in {"keep", "refused"} :
            save' = [save EXCEPT ![s] = [at |-> at, old |-> disk[SaveTo[s]]]]
      BY <2>1 DEF SaveReads
    <3>2. QED
      BY <1>0, <2>1, <3>1 DEF SaveReads
  <2>2. CASE SaveKeeps(s)
    <3>1. save' = [save EXCEPT ![s].at = "rename"] /\ UNCHANGED <<disk, raced>>
          /\ <<SaveTo[s], save[s].old>> \in rollback'
      BY <2>2 DEF SaveKeeps, SaveGoes
    <3>2. save'[s].old = save[s].old
      BY <1>0, <3>1 DEF Saved
    <3>3. QED
      BY <2>2, <3>1, <3>2 DEF Copied, SaveKeeps
  <2>3. CASE SaveFails(s) \/ SaveRenames(s)
    <3>1. save'[s].at \in {"refused", "saved"}
      BY <1>0, <2>3 DEF SaveFails, SaveRenames, SaveGoes, Saved
    <3>2. QED
      BY <3>1
  <2>4. QED
    BY <1>4, <2>1, <2>2, <2>3 DEF Saves
<1>5. ASSUME NEW p \in Path, NEW content \in EditTo, Elsewhere(p, content) PROVE Kept
  BY <1>1, <1>5, RacedOthers DEF Elsewhere, saveVars
<1>6. CASE AgentDies \/ UNCHANGED vars
  BY <1>6 DEF AgentDies, vars, saveVars, Copied
<1>7. CASE BrokerDies
  <2>1. save'[s] = save[s] \/ save'[s].at = "lost"
    BY <1>0, <1>7 DEF BrokerDies, Saved
  <2>2. QED
    BY <1>7, <2>1 DEF BrokerDies, Copied
<1>8. QED
  BY <1>2, <1>3, <1>4, <1>5, <1>6, <1>7 DEF Next

LEMMA CopiedInvariant == Spec => []Copied
<1>1. Init => Copied
  BY DEF Init, SaveInit, Copied
<1>2. QED
  BY <1>1, StepCopied, TypeInvariant, PTL DEF Spec

\* What a protected save replaces can be had back from a rollback copy, or somebody
\* changed the file after the save had read it.
THEOREM RollbackCopyFirst == Spec => RollbackFirst
<1>1. Copied => \A s \in Save : save[s].at = "rename" /\ save'[s].at = "saved" /\ s \notin raced
                   => <<SaveTo[s], disk[SaveTo[s]]>> \in rollback
  BY DEF Copied
<1>2. QED
  BY <1>1, CopiedInvariant, PTL DEF RollbackFirst

-----------------------------------------------------------------------------
(***************************************************************************)
(* The trash.                                                              *)
(***************************************************************************)
\* The name chosen under the path's lock stays free, or a delete of another path has
\* taken it and the call is noted.
NameStillFree ==
  \A c \in Call : call[c].at = "move" /\ c \notin raced => trash[call[c].name] = Missing

\* Who is noted stays noted.
LEMMA RacedGrows == ASSUME [Next]_vars PROVE raced \subseteq raced'
<1>1. ASSUME NEW c \in Call, Begin(c) \/ Handles(c) PROVE raced \subseteq raced'
  BY <1>1
  DEF Begin, Handles, Put, WriteLocks, WriteRenames, WriteFails, TrashLocks, TrashMoves, TrashNotes
<1>2. ASSUME NEW s \in Save, Saves(s) PROVE raced \subseteq raced'
  BY <1>2, RacedOthers DEF Saves, SaveReads, SaveKeeps, SaveFails
<1>3. ASSUME NEW p \in Path, NEW content \in EditTo, Elsewhere(p, content) PROVE raced \subseteq raced'
  BY <1>3, RacedOthers DEF Elsewhere
<1>4. CASE AgentDies \/ BrokerDies \/ UNCHANGED vars
  BY <1>4 DEF AgentDies, BrokerDies, vars
<1>5. QED
  BY <1>1, <1>2, <1>3, <1>4 DEF Next

\* Only the rename changes the trash, under the name its call has chosen.
LEMMA TrashFacts ==
  ASSUME TypeInv, NEW c \in Call, Begin(c) \/ Handles(c)
  PROVE  \/ UNCHANGED trash
         \/ /\ c \in Deletes /\ call[c].at = "move" /\ call[c].name \in Name /\ call'[c].at = "info"
            /\ disk[PathOf[c]] # Missing /\ trash' = [trash EXCEPT ![call[c].name] = disk[PathOf[c]]]
            /\ Overtaken(c) \subseteq raced'
<1>1. call \in [Call -> Calls] /\ Named
  BY DEF TypeInv, TypeOK, Calls, Places, Replies
<1>2. TrashMoves(c) \/ UNCHANGED trash
  BY DEF Begin, Handles, Put, WriteLocks, WriteRenames, WriteFails, TrashLocks, TrashNotes
<1>3. CASE TrashMoves(c)
  <2>1. CASE Goes(c, "info")
    BY <1>1, <1>3, <2>1, GoesFacts DEF TrashMoves, Named, Places
  <2>2. CASE UNCHANGED trash
    BY <2>2
  <2>3. QED
    BY <1>3, <2>1, <2>2 DEF TrashMoves
<1>4. QED
  BY <1>2, <1>3

LEMMA StepStillFree == TypeInv /\ LockIsHeld /\ NameStillFree /\ [Next]_vars => NameStillFree'
<1> SUFFICES ASSUME TypeInv, LockIsHeld, NameStillFree, [Next]_vars,
                    NEW c \in Call, call'[c].at = "move", c \notin raced'
             PROVE  trash'[call'[c].name] = Missing
  BY DEF NameStillFree
<1>0. /\ call \in [Call -> Calls] /\ trash \in [Name -> Content \cup {Missing}]
      /\ PathOf \in [Call -> Path] /\ idem \in [RequestId -> Replies] /\ IdOf \in [Call -> RequestId]
      /\ Named /\ c \notin raced
  BY CallAssumption, RacedGrows DEF CallAssumption, TypeInv, TypeOK, Calls, Places, Replies
<1>1. ASSUME Begin(c) \/ Handles(c) PROVE trash'[call'[c].name] = Missing
  <2>1. TrashLocks(c)
    <3>1. idem[IdOf[c]] \in Replies
      BY <1>0
    <3>2. Begin(c) => call'[c].at \in {"answered", "put", "lock"}
      BY <1>0, <3>1, GoesFacts, EndsFacts, ReplayFacts DEF Begin, Places, Replies
    <3>3. Put(c) \/ WriteLocks(c) => call'[c].at \in {"answered", "rename", "put"}
      BY <1>0, GoesFacts, EndsFacts DEF Put, WriteLocks, Places, Replies
    <3>4. WriteRenames(c) \/ WriteFails(c) \/ TrashMoves(c) \/ TrashNotes(c) => call'[c].at \in {"info", "put"}
      BY <1>0, GoesFacts, EndsFacts DEF WriteRenames, WriteFails, TrashMoves, TrashNotes, Places, Replies
    <3>5. QED
      BY <1>1, <3>2, <3>3, <3>4 DEF Handles
  <2>2. QED
    BY <1>0, <2>1, ChooseFacts DEF TrashLocks
<1>2. ASSUME NEW d \in Call, d # c, Begin(d) \/ Handles(d) PROVE trash'[call'[c].name] = Missing
  <2>1. call'[c] = call[c]
    BY <1>2, CallFacts
  <2>2. trash[call[c].name] = Missing
    BY <1>0, <2>1 DEF NameStillFree
  <2>3. CASE UNCHANGED trash
    BY <2>1, <2>2, <2>3
  <2>4. CASE ~UNCHANGED trash
    <3>1. /\ call[d].at = "move" /\ trash' = [trash EXCEPT ![call[d].name] = disk[PathOf[d]]]
          /\ Overtaken(d) \subseteq raced'
      BY <1>2, <2>4, TrashFacts
    \* Had both one name, they would be of one path, which has one lock, or c be noted.
    <3>2. PathOf[c] # PathOf[d]
      BY <1>2, <2>1, <3>1, OneHolder DEF Critical
    <3>3. call[d].name # call[c].name
      BY <2>1, <3>1, <3>2 DEF Overtaken
    <3>4. call[c].name \in Name
      BY <1>0, <2>1 DEF Named
    <3>5. QED
      BY <1>0, <2>1, <2>2, <3>1, <3>3, <3>4
  <2>5. QED
    BY <2>3, <2>4
<1>3. CASE AgentDies
  BY <1>3 DEF AgentDies, InHand, Start
<1>4. ASSUME \/ \E s \in Save : Saves(s)
             \/ \E p \in Path, content \in EditTo : Elsewhere(p, content)
             \/ BrokerDies \/ UNCHANGED vars
      PROVE  trash'[call'[c].name] = Missing
  BY <1>0, <1>4 DEF Saves, Elsewhere, BrokerDies, vars, userVars, NameStillFree
<1>5. QED
  BY <1>1, <1>2, <1>3, <1>4 DEF Next

LEMMA StillFreeInvariant == Spec => []NameStillFree
<1>1. Init => NameStillFree
  BY StartFacts DEF Init, NameStillFree
<1>2. QED
  BY <1>1, StepStillFree, TypeInvariant, LockInvariant, PTL DEF Spec

\* A delete overwrites what is in the trash only if a delete of another path has taken its
\* name after it had looked: for any number of deletes, paths of one name among them, and
\* of files put back at the same path meanwhile.
THEOREM NothingOverwritten == Spec => TrashIsKept
<1>1. TypeInv /\ NameStillFree /\ [Next]_vars
        => [\A n \in Name : trash[n] # Missing /\ trash'[n] # trash[n] =>
              \E c \in Deletes \cap raced :
                call[c].at = "move" /\ call[c].name = n /\ call'[c].at = "info"]_vars
  <2> SUFFICES ASSUME TypeInv, NameStillFree, [Next]_vars,
                      NEW n \in Name, trash[n] # Missing, trash'[n] # trash[n]
               PROVE  \E c \in Deletes \cap raced :
                        call[c].at = "move" /\ call[c].name = n /\ call'[c].at = "info"
    OBVIOUS
  <2>1. PICK c \in Call : Begin(c) \/ Handles(c)
    <3>1. ASSUME \/ \E s \in Save : Saves(s)
                 \/ \E p \in Path, content \in EditTo : Elsewhere(p, content)
                 \/ AgentDies \/ BrokerDies \/ UNCHANGED vars
          PROVE  trash'[n] = trash[n]
      BY <3>1 DEF Saves, Elsewhere, AgentDies, BrokerDies, vars, userVars
    <3>2. QED
      BY <3>1 DEF Next
  <2>2. /\ c \in Deletes /\ call[c].at = "move" /\ call'[c].at = "info" /\ call[c].name \in Name
        /\ trash' = [trash EXCEPT ![call[c].name] = disk[PathOf[c]]]
    BY <2>1, TrashFacts
  <2>3. call[c].name = n
    BY <2>2 DEF TypeInv, TypeOK
  <2>4. c \in raced
    BY <2>2, <2>3 DEF NameStillFree
  <2>5. QED
    BY <2>2, <2>3, <2>4
<1>2. QED
  BY <1>1, StillFreeInvariant, TypeInvariant, PTL DEF Spec, TrashIsKept

-----------------------------------------------------------------------------
(***************************************************************************)
(* Answers.                                                                *)
(***************************************************************************)
\* The calls of one request are of one kind.
OneKind == \A c, d \in Call : IdOf[c] = IdOf[d] => (c \in Deletes <=> d \in Deletes)

Did(c) ==
  IF c \in Deletes THEN \E n \in trashed[IdOf[c]] : n \in info /\ trash[n] # Missing
  ELSE written[IdOf[c]] > 0

Honest ==
  /\ \A c \in Call : call[c].at \in {"put", "answered"} /\ call[c].reply = "ok" => Did(c)
  /\ \A c \in Call : idem[IdOf[c]] = "ok" => Did(c)
  /\ \A c \in Call : call[c].at = "info" =>
       call[c].name \in trashed[IdOf[c]] /\ trash[call[c].name] # Missing

\* What has been done stays done.
LEMMA DidStays ==
  ASSUME TypeInv, [Next]_vars, NEW c \in Call, Did(c)
  PROVE  Did(c)'
<1>0. /\ trash \in [Name -> Content \cup {Missing}] /\ written \in [RequestId -> Nat]
      /\ trashed \in [RequestId -> SUBSET Name] /\ IdOf \in [Call -> RequestId]
  BY CallAssumption DEF CallAssumption, TypeInv, TypeOK
<1>1. ASSUME NEW d \in Call, Begin(d) \/ Handles(d) PROVE Did(c)'
  <2>1. \A n \in Name : trash[n] # Missing => trash'[n] # Missing
    BY <1>0, <1>1, TrashFacts
  <2>2. /\ info \subseteq info'
        /\ written' = written \/ written' = [written EXCEPT ![IdOf[d]] = @ + 1]
        /\ trashed' = trashed \/ trashed' = [trashed EXCEPT ![IdOf[d]] = @ \cup {call[d].name}]
    BY <1>1
    DEF Begin, Handles, Put, WriteLocks, WriteRenames, WriteFails, TrashLocks, TrashMoves, TrashNotes
  <2>3. written[IdOf[c]] > 0 => written'[IdOf[c]] > 0
    BY <1>0, <2>2
  <2>4. trashed[IdOf[c]] \subseteq trashed'[IdOf[c]] /\ trashed[IdOf[c]] \subseteq Name
    BY <1>0, <2>2
  <2>5. QED
    BY <2>1, <2>2, <2>3, <2>4 DEF Did
<1>2. ASSUME \/ \E s \in Save : Saves(s)
             \/ \E p \in Path, content \in EditTo : Elsewhere(p, content)
             \/ AgentDies \/ BrokerDies \/ UNCHANGED vars
      PROVE  Did(c)'
  BY <1>2 DEF Saves, Elsewhere, AgentDies, BrokerDies, vars, userVars, Did
<1>3. QED
  BY <1>1, <1>2 DEF Next

LEMMA StepHonest == OneKind /\ TypeInv /\ Honest /\ [Next]_vars => Honest'
<1> SUFFICES ASSUME OneKind, TypeInv, Honest, [Next]_vars PROVE Honest'
  OBVIOUS
<1>0. /\ call \in [Call -> Calls] /\ idem \in [RequestId -> Replies] /\ IdOf \in [Call -> RequestId]
      /\ trash \in [Name -> Content \cup {Missing}] /\ written \in [RequestId -> Nat]
      /\ trashed \in [RequestId -> SUBSET Name] /\ Named /\ Missing \notin Content
  BY CallAssumption, SaveAssumption
  DEF CallAssumption, SaveAssumption, TypeInv, TypeOK, Calls, Places, Replies
<1>1. \A c \in Call : Did(c) => Did(c)'
  BY DidStays
<1>2. \A c, d \in Call : IdOf[c] = IdOf[d] /\ Did(c) => Did(d)
  BY DEF OneKind, Did
<1>3. ASSUME NEW c \in Call, Begin(c) \/ Handles(c) PROVE Honest'
  <2>1. \A d \in Call : d # c => call'[d] = call[d]
    BY <1>3, CallFacts
  <2>2. call'[c].at \in {"put", "answered"} /\ call'[c].reply = "ok" => Did(c)'
    <3>1. CASE Begin(c)
      <4>1. idem[IdOf[c]] \in Replies
        BY <1>0
      <4>2. call'[c].at \in {"put", "answered"} /\ call'[c].reply = "ok" => idem[IdOf[c]] = "ok"
        BY <1>0, <3>1, <4>1, GoesFacts, EndsFacts, ReplayFacts DEF Begin, Places, Replies
      <4>3. QED
        BY <1>1, <4>2 DEF Honest
    <3>2. CASE Put(c)
      <4>1. call'[c].reply = call[c].reply /\ call[c].at = "put"
        BY <1>0, <3>2, GoesFacts DEF Put, Places
      <4>2. QED
        BY <1>1, <4>1 DEF Honest
    <3>3. CASE WriteLocks(c) \/ WriteFails(c) \/ TrashLocks(c) \/ TrashMoves(c)
      <4>1. call'[c].at \in {"rename", "move", "info"} \/ call'[c].reply = "error"
        BY <1>0, <3>3, GoesFacts, EndsFacts, ChooseFacts
        DEF WriteLocks, WriteFails, TrashLocks, TrashMoves, Places, Replies
      <4>2. QED
        BY <4>1
    <3>4. CASE WriteRenames(c)
      <4>1. written'[IdOf[c]] > 0 /\ c \notin Deletes
        BY <1>0, <3>4 DEF WriteRenames
      <4>2. QED
        BY <4>1 DEF Did
    <3>5. CASE TrashNotes(c)
      <4>1. CASE info' = info \cup {call[c].name}
        <5>1. call[c].name \in trashed[IdOf[c]] /\ trash[call[c].name] # Missing /\ c \in Deletes
          BY <3>5 DEF TrashNotes, Honest
        <5>2. UNCHANGED <<trash, trashed>>
          BY <3>5 DEF TrashNotes
        <5>3. QED
          BY <4>1, <5>1, <5>2 DEF Did
      <4>2. CASE Ends(c, "error")
        BY <1>0, <4>2, EndsFacts DEF Replies
      <4>3. QED
        BY <3>5, <4>1, <4>2 DEF TrashNotes
    <3>6. QED
      BY <1>3, <3>1, <3>2, <3>3, <3>4, <3>5 DEF Handles
  <2>3. ASSUME NEW d \in Call, idem'[IdOf[d]] = "ok" PROVE Did(d)'
    <3>1. CASE idem[IdOf[d]] = "ok"
      BY <1>1, <3>1 DEF Honest
    <3>2. CASE idem[IdOf[d]] # "ok"
      <4>1. Put(c)
        BY <1>3, <2>3, <3>2
        DEF Begin, Handles, WriteLocks, WriteRenames, WriteFails, TrashLocks, TrashMoves, TrashNotes
      <4>2. IdOf[d] = IdOf[c] /\ call[c].reply = "ok" /\ call[c].at = "put"
        BY <1>0, <2>3, <3>2, <4>1 DEF Put
      <4>3. QED
        BY <1>1, <1>2, <4>2 DEF Honest
    <3>3. QED
      BY <3>1, <3>2
  <2>4. ASSUME NEW d \in Call, call'[d].at = "info"
        PROVE  call'[d].name \in trashed'[IdOf[d]] /\ trash'[call'[d].name] # Missing
    <3>1. CASE call[d].at = "info" /\ call'[d] = call[d]
      <4>1. call[d].name \in Name /\ call[d].name \in trashed[IdOf[d]] /\ trash[call[d].name] # Missing
        BY <1>0, <3>1 DEF Honest, Named
      <4>2. trash'[call[d].name] # Missing
        BY <1>0, <1>3, <4>1, TrashFacts
      <4>3. trashed' = trashed \/ trashed' = [trashed EXCEPT ![IdOf[c]] = @ \cup {call[c].name}]
        BY <1>3
        DEF Begin, Handles, Put, WriteLocks, WriteRenames, WriteFails, TrashLocks, TrashMoves, TrashNotes
      <4>4. QED
        BY <1>0, <3>1, <4>1, <4>2, <4>3
    <3>2. CASE ~(call[d].at = "info" /\ call'[d] = call[d])
      <4>1. d = c
        BY <2>1, <2>4, <3>2
      <4>2. TrashMoves(c) /\ ~Ends(c, "error")
        <5>1. idem[IdOf[c]] \in Replies
          BY <1>0
        <5>2. Begin(c) => call'[c].at \in {"answered", "put", "lock"}
          BY <1>0, <5>1, GoesFacts, EndsFacts, ReplayFacts DEF Begin, Places, Replies
        <5>3. Put(c) \/ WriteLocks(c) \/ WriteRenames(c) \/ WriteFails(c) \/ TrashLocks(c) \/ TrashNotes(c)
                => call'[c].at \in {"answered", "put", "rename", "move"}
          BY <1>0, GoesFacts, EndsFacts, ChooseFacts
          DEF Put, WriteLocks, WriteRenames, WriteFails, TrashLocks, TrashNotes, Places, Replies
        <5>4. TrashMoves(c)
          BY <1>3, <2>4, <4>1, <5>2, <5>3 DEF Handles
        <5>5. Ends(c, "error") => call'[c].at = "put"
          BY <1>0, EndsFacts DEF Replies
        <5>6. QED
          BY <2>4, <4>1, <5>4, <5>5
      <4>3. call'[c].name = call[c].name /\ call[c].name \in Name
        BY <1>0, <4>2, GoesFacts DEF TrashMoves, Named, Places
      <4>4. /\ trash' = [trash EXCEPT ![call[c].name] = disk[PathOf[c]]]
            /\ trashed' = [trashed EXCEPT ![IdOf[c]] = @ \cup {call[c].name}]
            /\ disk[PathOf[c]] # Missing
        BY <4>2 DEF TrashMoves
      <4>5. QED
        BY <1>0, <4>1, <4>3, <4>4
    <3>3. QED
      BY <3>1, <3>2
  <2>5. QED
    BY <1>1, <2>1, <2>2, <2>3, <2>4 DEF Honest
<1>4. CASE AgentDies
  <2>1. \A c \in Call : call'[c] = call[c] \/ call'[c].at = "lost"
    BY <1>4 DEF AgentDies, Start
  <2>2. \A c \in Call : idem'[IdOf[c]] = "none"
    BY <1>0, <1>4 DEF AgentDies
  <2>3. UNCHANGED <<trash, trashed>>
    BY <1>4 DEF AgentDies
  <2>4. QED
    BY <1>1, <2>1, <2>2, <2>3 DEF Honest
<1>5. ASSUME \/ \E s \in Save : Saves(s)
             \/ \E p \in Path, content \in EditTo : Elsewhere(p, content)
             \/ BrokerDies \/ UNCHANGED vars
      PROVE  Honest'
  <2>1. UNCHANGED <<call, idem, trash, trashed>>
    BY <1>5 DEF Saves, Elsewhere, BrokerDies, vars, userVars
  <2>2. QED
    BY <1>1, <2>1 DEF Honest
<1>6. QED
  BY <1>3, <1>4, <1>5 DEF Next

\* If the calls of a request are of one kind, an answer of success, the first or a replay,
\* is about a file that was written or can be restored from the trash.
THEOREM AnswersAreTrue == OneKind /\ Spec => []SuccessIsTrue
<1>1. Init => Honest
  <2>1. Init => \A c \in Call : call[c].at = "new" /\ idem[IdOf[c]] = "none"
    BY StartFacts, CallAssumption DEF CallAssumption, Init
  <2>2. QED
    BY <2>1 DEF Honest
<1>2. TypeInv /\ (OneKind => Honest) /\ [Next]_vars => (OneKind => Honest)'
  BY StepHonest DEF OneKind
<1>3. Honest => SuccessIsTrue
  BY DEF Honest, SuccessIsTrue, Did
<1>4. OneKind => []OneKind
  <2>1. OneKind => OneKind'
    BY DEF OneKind
  <2>2. QED
    BY <2>1, PTL
<1>5. QED
  BY <1>1, <1>2, <1>3, <1>4, TypeInvariant, PTL DEF Spec

-----------------------------------------------------------------------------
(***************************************************************************)
(* A repeated write.                                                       *)
(***************************************************************************)
\* A repeated request is the same request.
Repetitions == \A c, d \in Call : IdOf[c] = IdOf[d] => PathOf[c] = PathOf[d] /\ ExpectsOf[c] = ExpectsOf[d]

\* Nobody puts a content back that a write has replaced.
NothingComesBack ==
  \A c \in Call \ Deletes : ExpectsOf[c] # Anything =>
    /\ ExpectsOf[c] \notin EditTo \cup {Missing}
    /\ \A d \in Call \ Deletes : PathOf[d] = PathOf[c] => ContentOf[d] # ExpectsOf[c]
    /\ \A s \in Save : SaveTo[s] = PathOf[c] => SaveContent[s] # ExpectsOf[c]

\* The requests the property is about.
Conditional(i) == \A c \in Call : IdOf[c] = i => c \notin Deletes /\ ExpectsOf[c] # Anything

\* Once a request has written, its revision has gone and none of its calls is past the check.
Spent(i) ==
  /\ written[i] = 1
  /\ \A c \in Call : IdOf[c] = i => disk[PathOf[c]] # ExpectsOf[c] /\ call[c].at # "rename"

OnceOnly == \A i \in RequestId : Conditional(i) => written[i] = 0 \/ Spent(i)

LEMMA StepOnceOnly ==
  Repetitions /\ NothingComesBack /\ TypeInv /\ LockIsHeld /\ OnceOnly /\ [Next]_vars => OnceOnly'
<1> SUFFICES ASSUME Repetitions, NothingComesBack, TypeInv, LockIsHeld, OnceOnly, [Next]_vars,
                    NEW i \in RequestId, Conditional(i)
             PROVE  written'[i] = 0 \/ Spent(i)'
  BY DEF OnceOnly, Conditional
<1>0. /\ call \in [Call -> Calls] /\ disk \in [Path -> Content \cup {Missing}]
      /\ PathOf \in [Call -> Path] /\ SaveTo \in [Save -> Path]
      /\ idem \in [RequestId -> Replies] /\ IdOf \in [Call -> RequestId]
      /\ written \in [RequestId -> Nat]
  BY CallAssumption, SaveAssumption
  DEF CallAssumption, SaveAssumption, TypeInv, TypeOK, SaveTypeOK, Calls, Places, Replies
<1>1. written[i] = 0 \/ Spent(i)
  BY DEF OnceOnly
<1>3. ASSUME NEW c \in Call, Begin(c) \/ Handles(c) PROVE written'[i] = 0 \/ Spent(i)'
  <2>0. PathOf[c] \in Path /\ idem[IdOf[c]] \in Replies
    BY <1>0
  <2>1. CASE WriteRenames(c) /\ IdOf[c] = i
    <3>1. c \notin Deletes /\ call[c].at = "rename" /\ ExpectsOf[c] # Anything
      BY <2>1 DEF WriteRenames, Conditional
    <3>2. written[i] = 0
      BY <1>1, <2>1, <3>1 DEF Spent
    <3>3. written'[i] = 1 /\ disk' = [disk EXCEPT ![PathOf[c]] = ContentOf[c]]
      BY <1>0, <2>1, <3>2 DEF WriteRenames
    <3>4. ASSUME NEW d \in Call, IdOf[d] = i PROVE disk'[PathOf[d]] # ExpectsOf[d] /\ call'[d].at # "rename"
      <4>1. PathOf[d] = PathOf[c] /\ ExpectsOf[d] = ExpectsOf[c]
        BY <2>1, <3>4 DEF Repetitions
      <4>2. disk'[PathOf[d]] # ExpectsOf[d]
        BY <1>0, <2>0, <3>1, <3>3, <4>1 DEF NothingComesBack
      <4>3. d # c => call[d].at # "rename"
        BY <3>1, <4>1, OneHolder DEF Critical
      <4>4. call'[c].at = "put" /\ (d # c => call'[d] = call[d])
        BY <1>0, <2>1, EndsFacts DEF WriteRenames, Replies
      <4>5. QED
        BY <4>2, <4>3, <4>4
    <3>5. QED
      BY <3>3, <3>4 DEF Spent
  <2>2. CASE ~(WriteRenames(c) /\ IdOf[c] = i)
    <3>1. written'[i] = written[i]
      BY <1>0, <1>3, <2>2
      DEF Begin, Handles, Put, WriteLocks, WriteRenames, WriteFails, TrashLocks, TrashMoves, TrashNotes
    <3>2. CASE written[i] = 0
      BY <3>1, <3>2
    <3>3. CASE Spent(i)
      <4>1. PICK content : /\ disk' = disk \/ disk' = [disk EXCEPT ![PathOf[c]] = content]
                           /\ content = Missing \/ (c \notin Deletes /\ content = ContentOf[c])
        <5>1. WriteRenames(c) => c \notin Deletes /\ disk' = [disk EXCEPT ![PathOf[c]] = ContentOf[c]]
          BY DEF WriteRenames
        <5>2. TrashMoves(c) => disk' = disk \/ disk' = [disk EXCEPT ![PathOf[c]] = Missing]
          BY DEF TrashMoves
        <5>3. ~WriteRenames(c) /\ ~TrashMoves(c) => disk' = disk
          BY <1>3 DEF Begin, Handles, Put, WriteLocks, WriteFails, TrashLocks, TrashNotes
        <5>4. QED
          BY <5>1, <5>2, <5>3
      <4>2. ASSUME NEW d \in Call, IdOf[d] = i PROVE call'[d].at # "rename"
        <5>1. call[d].at # "rename" /\ disk[PathOf[d]] # ExpectsOf[d] /\ ExpectsOf[d] # Anything
          BY <3>3, <4>2 DEF Spent, Conditional
        <5>2. CASE d # c
          BY <1>3, <5>1, <5>2, CallFacts
        <5>3. CASE d = c
          <6>1. Begin(c) => call'[c].at \in {"answered", "put", "lock"}
            BY <1>0, <2>0, GoesFacts, EndsFacts, ReplayFacts DEF Begin, Places, Replies
          <6>2. WriteLocks(c) => call'[c].at = "put"
            BY <1>0, <5>1, <5>3, EndsFacts DEF WriteLocks, Checked, Replies
          <6>3. Put(c) \/ WriteRenames(c) \/ WriteFails(c) \/ TrashLocks(c) \/ TrashMoves(c) \/ TrashNotes(c)
                  => call'[c].at \in {"answered", "put", "move", "info"}
            BY <1>0, GoesFacts, EndsFacts, ChooseFacts
            DEF Put, WriteRenames, WriteFails, TrashLocks, TrashMoves, TrashNotes, Places, Replies
          <6>4. QED
            BY <1>3, <5>3, <6>1, <6>2, <6>3 DEF Handles
        <5>4. QED
          BY <5>2, <5>3
      <4>3. ASSUME NEW d \in Call, IdOf[d] = i, PathOf[d] = PathOf[c] PROVE content # ExpectsOf[d]
        BY <4>1, <4>3 DEF Conditional, NothingComesBack
      <4>4. QED
        BY <1>0, <2>0, <3>1, <3>3, <4>1, <4>2, <4>3 DEF Spent
    <3>4. QED
      BY <1>1, <3>2, <3>3
  <2>3. QED
    BY <2>1, <2>2
<1>4. ASSUME NEW s \in Save, Saves(s) PROVE written'[i] = 0 \/ Spent(i)'
  <2>1. UNCHANGED <<call, written>> /\ (disk' = disk \/ disk' = [disk EXCEPT ![SaveTo[s]] = SaveContent[s]])
    BY <1>4 DEF Saves, SaveReads, SaveKeeps, SaveFails, SaveRenames, userVars
  <2>2. CASE Spent(i)
    <3>1. \A c \in Call : IdOf[c] = i => call'[c].at # "rename"
      BY <2>1, <2>2 DEF Spent
    <3>2. \A c \in Call : IdOf[c] = i /\ PathOf[c] = SaveTo[s] => SaveContent[s] # ExpectsOf[c]
      BY DEF Conditional, NothingComesBack
    <3>3. QED
      BY <1>0, <2>1, <2>2, <3>1, <3>2 DEF Spent
  <2>3. QED
    BY <1>1, <2>1, <2>2
<1>5. ASSUME NEW p \in Path, NEW content \in EditTo, Elsewhere(p, content)
      PROVE  written'[i] = 0 \/ Spent(i)'
  <2>1. UNCHANGED <<call, written>> /\ disk' = [disk EXCEPT ![p] = content]
    BY <1>5 DEF Elsewhere, userVars
  <2>2. CASE Spent(i)
    <3>1. \A c \in Call : IdOf[c] = i => call'[c].at # "rename"
      BY <2>1, <2>2 DEF Spent
    <3>2. \A c \in Call : IdOf[c] = i /\ PathOf[c] = p => content # ExpectsOf[c]
      BY DEF Conditional, NothingComesBack
    <3>3. QED
      BY <1>0, <2>1, <2>2, <3>1, <3>2 DEF Spent
  <2>3. QED
    BY <1>1, <2>1, <2>2
<1>6. CASE AgentDies
  <2>1. \A c \in Call : call'[c] = call[c] \/ call'[c].at = "lost"
    BY <1>6 DEF AgentDies, Start
  <2>2. UNCHANGED <<disk, written>>
    BY <1>6 DEF AgentDies
  <2>3. QED
    BY <1>1, <2>1, <2>2 DEF Spent
<1>7. CASE BrokerDies \/ UNCHANGED vars
  <2>1. UNCHANGED <<call, disk, written>>
    BY <1>7 DEF BrokerDies, vars, userVars
  <2>2. QED
    BY <1>1, <2>1 DEF Spent
<1>8. QED
  BY <1>3, <1>4, <1>5, <1>6, <1>7 DEF Next

\* A write that names a revision is made once, for any number of repetitions before or
\* after the agent has died, provided that nobody puts the replaced content back.
THEOREM RepeatedWriteIsOne == Repetitions /\ NothingComesBack /\ Spec => []WrittenOnce
<1>1. Init => OnceOnly
  BY DEF Init, OnceOnly
<1>2. TypeInv /\ LockIsHeld /\ (Repetitions /\ NothingComesBack => OnceOnly) /\ [Next]_vars
        => (Repetitions /\ NothingComesBack => OnceOnly)'
  BY StepOnceOnly DEF Repetitions, NothingComesBack
<1>3. OnceOnly => WrittenOnce
  BY DEF OnceOnly, Spent, WrittenOnce, Conditional
<1>4. Repetitions /\ NothingComesBack => [](Repetitions /\ NothingComesBack)
  <2>1. Repetitions /\ NothingComesBack => (Repetitions /\ NothingComesBack)'
    BY DEF Repetitions, NothingComesBack
  <2>2. QED
    BY <2>1, PTL
<1>5. QED
  BY <1>1, <1>2, <1>3, <1>4, TypeInvariant, LockInvariant, PTL DEF Spec
================================================================================
