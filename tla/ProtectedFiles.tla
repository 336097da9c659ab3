---------------------------- MODULE ProtectedFiles ----------------------------
(***************************************************************************)
(* A disk with whole files on it, and the broker's writer of protected     *)
(* files (privfiles.Writer), which takes no lock: it reads the file and    *)
(* compares the revision, validates a temporary file, keeps a rollback     *)
(* copy, and renames.  A revision is the hash of a content and stands for  *)
(* it.  Modes, owners and the validators' rules are left out; each step    *)
(* that can fail may.  The request id is the business of module Broker.    *)
(***************************************************************************)
EXTENDS Naturals, FiniteSets

CONSTANTS
  Path, Content,
  Missing,             \* what is on the disk where no file is
  Initially,           \* Initially[p]: the content of p at the start, or Missing
  Save,                \* the protected writes
  SaveTo, SaveContent, SaveExpects \* their path, content and expected revision

ASSUME SaveAssumption ==
  /\ Missing \notin Content
  /\ Initially \in [Path -> Content \cup {Missing}]
  /\ SaveTo \in [Save -> Path]
  /\ SaveContent \in [Save -> Content] /\ SaveExpects \in [Save -> Content]

VARIABLES
  disk,     \* disk[p]: the content of the file
  save,     \* save[s]: the call, and what it has read
  rollback, \* the rollback copies, with the path they are of
  raced     \* history: what somebody has looked at was changed before he acted on it

saveVars == <<save, rollback>>

Past(s, p) == SaveTo[s] = p /\ save[s].at \in {"keep", "rename"}

SaveGoes(s, at) == save' = [save EXCEPT ![s].at = at]

\* Lstat, ReadFile, and the revision.
SaveReads(s) ==
  LET old == disk[SaveTo[s]] IN
  /\ save[s].at = "new"
  /\ save' = [save EXCEPT ![s] =
       [at |-> IF old = SaveExpects[s] THEN "keep" ELSE "refused", old |-> old]]
  /\ UNCHANGED <<disk, rollback, raced>>

\* Mutant of SaveKeeps: the copy is made of the new content.
SaveKeepsNew(s) ==
  /\ save[s].at = "keep"
  /\ rollback' = rollback \cup {<<SaveTo[s], SaveContent[s]>>}
  /\ SaveGoes(s, "rename")
  /\ UNCHANGED <<disk, raced>>

\* The temporary file is written and valid: keepRollback.
SaveKeeps(s) ==
  /\ save[s].at = "keep"
  /\ rollback' = rollback \cup {<<SaveTo[s], save[s].old>>}
  /\ SaveGoes(s, "rename")
  /\ UNCHANGED <<disk, raced>>

\* No room, an invalid candidate, a validator that is not there or has no time left.
SaveFails(s) ==
  /\ save[s].at \in {"keep", "rename"}
  /\ SaveGoes(s, "refused")
  /\ UNCHANGED <<disk, rollback, raced>>

SaveRenames(s) ==
  /\ save[s].at = "rename"
  /\ disk' = [disk EXCEPT ![SaveTo[s]] = SaveContent[s]]
  /\ SaveGoes(s, "saved")
  /\ UNCHANGED rollback

SaveInit ==
  /\ disk = Initially /\ rollback = {} /\ raced = {}
  /\ save = [s \in Save |-> [at |-> "new", old |-> Missing]]

\* The one type invariant of the protected write: files, rollback copies and saves.
SaveTypeOK ==
  /\ disk \in [Path -> Content \cup {Missing}]
  /\ save \in [Save -> [at : {"new", "keep", "rename", "saved", "refused", "lost"},
                        old : Content \cup {Missing}]]
  /\ rollback \subseteq Path \X Content

-----------------------------------------------------------------------------
(***************************************************************************)
(* Properties.                                                             *)
(***************************************************************************)
\* What a protected write replaces has a rollback copy, unless somebody else changed
\* the file after the write had read it.
RollbackFirst ==
  [][\A s \in Save : save[s].at = "rename" /\ save'[s].at = "saved" /\ s \notin raced
       => <<SaveTo[s], disk[SaveTo[s]]>> \in rollback]_<<disk, save, rollback, raced>>

\* The revision is compared under per-target serialisation, so a protected write
\* replaces the revision it names.
SaveReplacesExpected ==
  [][\A s \in Save : save[s].at = "rename" /\ save'[s].at = "saved"
       => disk[SaveTo[s]] = SaveExpects[s]]_<<disk, save, rollback, raced>>
=============================================================================
