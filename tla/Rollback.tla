------------------------------ MODULE Rollback ------------------------------
(***************************************************************************)
(* Snapshots before writes and their restoration (security/rollback.py):   *)
(* taken by POST /api/confirm for what has a path and by the file tools    *)
(* (tool_runtime._file_op), restored and cleaned up by the admin API       *)
(* (routers/rollback_api.py).                                              *)
(*                                                                         *)
(* RollbackManager keeps nothing in memory: every operation reads the      *)
(* manifest and writes it back as a whole.  The handlers are synchronous,  *)
(* so operations do not interleave, but each may end after any of its      *)
(* effects, with the process or by an exception of the file system, and    *)
(* others edit files meanwhile.  A hash stands for the content it is of.   *)
(***************************************************************************)
EXTENDS Naturals, Sequences, SequencesExt

CONSTANTS
    File,          \* paths
    Name,          \* os.path.basename of each path
    Content,       \* contents of files, none of them empty
    MaxTime,       \* bound of the clock, in milliseconds
    MaxEntries,    \* bound of the manifest
    MaxMishaps     \* bound of failures and of edits by others

Base == {Name[f] : f \in File}

ASSUME BoundsAssumption ==
    MaxTime \in Nat \ {0} /\ MaxEntries \in Nat /\ MaxMishaps \in Nat
ASSUME ContentAssumption ==
    Content \cap {"missing", "empty", "partial", "cut"} = {}

VARIABLES
    clock,
    disk,          \* the files
    backup,        \* what ROLLBACK_DIR holds under each id
    manifest,      \* entries of manifest.json; read as empty when torn
    torn,          \* manifest.json ends in the middle
    op,            \* the operation in progress
    owed,          \* entries saved, neither restored, expired nor forgotten
    tied,          \* ids that were given twice
    faults,        \* of the last snapshot: its copy failed, others edited
    mishaps        \* failures and edits so far

vars == <<clock, disk, backup, manifest, torn, op, owed, tied, faults,
          mishaps>>
promises == <<owed, tied, faults>>

Mishap == mishaps < MaxMishaps /\ mishaps' = mishaps + 1

Id == (1..MaxTime) \X Base

\* A file that failed to be restored holds a part of its backup.
Hash == Content \cup {"partial"}

\* The time of the id is when the copy began, time when it was hashed.
Entry == [id : Id, file : File, hash : Hash, time : 1..MaxTime, restored : BOOLEAN]

Idle == [at |-> "idle"]

Init ==
    /\ clock = 1
    /\ disk \in [File -> Content \cup {"missing"}]
    /\ backup = [i \in Id |-> "missing"]
    /\ manifest = <<>>
    /\ torn = FALSE
    /\ op = Idle
    /\ owed = {}
    /\ tied = {}
    /\ faults = {}
    /\ mishaps = 0

-----------------------------------------------------------------------------
Tick ==
    /\ clock < MaxTime
    /\ clock' = clock + 1
    /\ UNCHANGED <<disk, backup, manifest, torn, op, promises, mishaps>>

\* The file that the operation in progress goes on to write.
Target(o) ==
    IF o.at = "modify" THEN {o.file}
    ELSE IF o.at \in {"copy", "append", "dump"} /\ o.next.at = "modify"
    THEN {o.next.file} ELSE {}

\* Somebody else edits a file.
Edit(f, c) ==
    /\ Mishap
    /\ disk' = [disk EXCEPT ![f] = c]
    /\ faults' = IF f \in Target(op) THEN faults \cup {"edited"} ELSE faults
    /\ UNCHANGED <<clock, backup, manifest, torn, op, owed, tied>>

\* The process dies, or the file system raises: the operation is over.  A
\* manifest without its end is read as empty: what it promised is forgotten.
Fail ==
    /\ Mishap
    /\ op.at # "idle"
    /\ op' = Idle
    /\ owed' = IF torn THEN {} ELSE owed
    /\ UNCHANGED <<clock, disk, backup, manifest, torn, tied, faults>>

(***************************************************************************)
(* _write_manifest truncates the file, then writes it; op goes on with     *)
(* next.  Only then the new entry is promised.                             *)
(***************************************************************************)
Save(entries, fresh, next) ==
    /\ torn' = TRUE
    /\ manifest' = <<>>
    /\ op' = [at |-> "dump", entries |-> entries, fresh |-> fresh, next |-> next]

Dump ==
    /\ op.at = "dump"
    /\ manifest' = op.entries
    /\ torn' = FALSE
    /\ owed' = owed \cup op.fresh
    /\ op' = op.next
    /\ UNCHANGED <<clock, disk, backup, tied, faults, mishaps>>

-----------------------------------------------------------------------------
(***************************************************************************)
(* snapshot, and the operation it is taken for.  What is missing or empty  *)
(* needs no snapshot.                                                      *)
(***************************************************************************)
\* What follows the snapshot: the file tool's or the command's write, or
\* nothing (a confirmation that fails later on).
Then(f) == {[at |-> "modify", file |-> f], Idle}

\* The last snapshot's faults are none of this one.
Anew == faults' = {}

\* Seeded fault: one backup of a file is thought to be enough.
BeginOnce(f) ==
    /\ op.at = "idle"
    /\ Len(manifest) < MaxEntries
    /\ Anew
    /\ \E next \in Then(f) :
          op' = IF \/ disk[f] \in {"missing", "empty"}
                   \/ \E e \in ToSet(manifest) : e.file = f /\ ~e.restored
                THEN next
                ELSE [at |-> "copy", file |-> f, next |-> next]
    /\ UNCHANGED <<clock, disk, backup, manifest, torn, owed, tied, mishaps>>

Begin(f) ==
    /\ op.at = "idle"
    /\ Len(manifest) < MaxEntries
    /\ Anew
    /\ \E next \in Then(f) :
          op' = IF disk[f] \in {"missing", "empty"} THEN next
                ELSE [at |-> "copy", file |-> f, next |-> next]
    /\ UNCHANGED <<clock, disk, backup, manifest, torn, owed, tied, mishaps>>

NewId(f) == <<clock, Name[f]>>

\* An id in use is given once more.
Tied(id) ==
    tied' = IF backup[id] # "missing" \/ \E e \in ToSet(manifest) : e.id = id
            THEN tied \cup {id} ELSE tied

\* copy2; two snapshots of one name in one millisecond share the backup.
Copy ==
    /\ op.at = "copy"
    /\ LET id == NewId(op.file)
       IN  /\ backup' = [backup EXCEPT ![id] = disk[op.file]]
           /\ Tied(id)
           /\ op' = [at |-> "append", next |-> op.next,
                     entry |-> [id |-> id, file |-> op.file,
                                hash |-> disk[op.file], time |-> clock,
                                restored |-> FALSE]]
    /\ UNCHANGED <<clock, disk, manifest, torn, owed, faults, mishaps>>

\* A copy that fails is no snapshot, and the write is done without one.
CopyFails ==
    /\ Mishap
    /\ op.at = "copy"
    /\ LET id == NewId(op.file)
       IN  /\ backup' = [backup EXCEPT ![id] = "cut"]
           /\ Tied(id)
    /\ op' = op.next
    /\ faults' = faults \cup {"copy"}
    /\ UNCHANGED <<clock, disk, manifest, torn, owed>>

\* The entry gets its time when the hash is there.
Hashed == [op.entry EXCEPT !.time = clock]

\* Seeded fault: the newest entry comes first.
AppendFirst ==
    /\ op.at = "append"
    /\ Save(<<Hashed>> \o manifest, {Hashed}, op.next)
    /\ UNCHANGED <<clock, disk, backup, promises, mishaps>>

AppendEntry ==
    /\ op.at = "append"
    /\ Save(Append(manifest, Hashed), {Hashed}, op.next)
    /\ UNCHANGED <<clock, disk, backup, promises, mishaps>>

\* Create, append or truncate.
Modify ==
    /\ op.at = "modify"
    /\ \E c \in Content \cup {"empty"} : disk' = [disk EXCEPT ![op.file] = c]
    /\ op' = Idle
    /\ UNCHANGED <<clock, backup, manifest, torn, promises, mishaps>>

-----------------------------------------------------------------------------
(***************************************************************************)
(* restore: the first entry of that id that is not restored, if its backup *)
(* is what was hashed.                                                     *)
(***************************************************************************)
Unrestored == {i \in DOMAIN manifest : ~manifest[i].restored}

FirstOf(S) == CHOOSE i \in S : \A j \in S : i <= j
LastOf(S) == CHOOSE i \in S : \A j \in S : i >= j

Named(id) == {i \in Unrestored : manifest[i].id = id}
Ours(f) == {i \in Unrestored : manifest[i].file = f}

Intact(e) == backup[e.id] = e.hash

\* The entry is marked in the manifest that was read.
RestoreEntry(i) ==
    /\ Intact(manifest[i])
    /\ disk' = [disk EXCEPT ![manifest[i].file] = backup[manifest[i].id]]
    /\ op' = [at |-> "mark", entry |-> manifest[i],
              entries |-> [manifest EXCEPT ![i].restored = TRUE]]
    /\ UNCHANGED <<clock, backup, manifest, torn, promises, mishaps>>

\* The copy back fails in the middle; nothing is marked.
RestoreFails(i) ==
    /\ Mishap
    /\ Intact(manifest[i])
    /\ disk' = [disk EXCEPT ![manifest[i].file] = "partial"]
    /\ UNCHANGED <<clock, backup, manifest, torn, op, promises>>

Restore(id) ==
    /\ op.at = "idle"
    /\ Named(id) # {}
    /\ LET i == FirstOf(Named(id)) IN RestoreEntry(i) \/ RestoreFails(i)

\* Seeded fault: the oldest backup of the file.
RestoreLastFirst(f) ==
    /\ op.at = "idle"
    /\ Ours(f) # {}
    /\ LET i == FirstOf(Named(manifest[FirstOf(Ours(f))].id))
       IN  RestoreEntry(i) \/ RestoreFails(i)

\* restore_last: the newest entry of the file, restored by its id.
RestoreLast(f) ==
    /\ op.at = "idle"
    /\ Ours(f) # {}
    /\ LET i == FirstOf(Named(manifest[LastOf(Ours(f))].id))
       IN  RestoreEntry(i) \/ RestoreFails(i)

Mark ==
    /\ op.at = "mark"
    /\ Save(op.entries, {}, Idle)
    /\ owed' = owed \ {op.entry}
    /\ UNCHANGED <<clock, disk, backup, tied, faults, mishaps>>

-----------------------------------------------------------------------------
(***************************************************************************)
(* cleanup: the expired backups one by one, then the manifest.  A negative *)
(* number of days makes the cutoff a time to come.                         *)
(***************************************************************************)
Expired(e, cutoff) == e.time < cutoff

Cleanup(cutoff) ==
    /\ op.at = "idle"
    /\ op' = [at |-> "clean", cutoff |-> cutoff, seen |-> 0]
    /\ owed' = {e \in owed : ~Expired(e, cutoff)}
    /\ UNCHANGED <<clock, disk, backup, manifest, torn, tied, faults, mishaps>>

\* Seeded fault: the backups up to the cutoff are removed.
RemoveAlsoCutoff ==
    /\ op.at = "clean"
    /\ op.seen < Len(manifest)
    /\ LET e == manifest[op.seen + 1]
       IN  backup' = IF e.time <= op.cutoff
                     THEN [backup EXCEPT ![e.id] = "missing"] ELSE backup
    /\ op' = [op EXCEPT !.seen = @ + 1]
    /\ UNCHANGED <<clock, disk, manifest, torn, promises, mishaps>>

RemoveBackup ==
    /\ op.at = "clean"
    /\ op.seen < Len(manifest)
    /\ LET e == manifest[op.seen + 1]
       IN  backup' = IF Expired(e, op.cutoff)
                     THEN [backup EXCEPT ![e.id] = "missing"] ELSE backup
    /\ op' = [op EXCEPT !.seen = @ + 1]
    /\ UNCHANGED <<clock, disk, manifest, torn, promises, mishaps>>

\* The entries that have not expired, in their order.
Unexpired(cutoff) ==
    LET kept[n \in 0..Len(manifest)] ==
            IF n = 0 THEN <<>>
            ELSE IF Expired(manifest[n], cutoff) THEN kept[n - 1]
            ELSE Append(kept[n - 1], manifest[n])
    IN  kept[Len(manifest)]

Cleaned ==
    /\ op.at = "clean"
    /\ op.seen = Len(manifest)
    /\ Save(Unexpired(op.cutoff), {}, Idle)
    /\ UNCHANGED <<clock, disk, backup, promises, mishaps>>

Next ==
    \/ Tick \/ Fail \/ Dump
    \/ Copy \/ CopyFails \/ AppendEntry \/ Modify
    \/ Mark \/ RemoveBackup \/ Cleaned
    \/ \E f \in File, c \in Content : Edit(f, c)
    \/ \E f \in File : Begin(f) \/ RestoreLast(f)
    \/ \E id \in Id : Restore(id)
    \/ \E cutoff \in 1..(clock + 1) : Cleanup(cutoff)

Spec == Init /\ [][Next]_vars

-----------------------------------------------------------------------------
(***************************************************************************)
(* Types; ids are only given in the past, and the manifest is in the order *)
(* of the snapshots.                                                       *)
(***************************************************************************)
TypeOK ==
    /\ clock \in 1..MaxTime
    /\ disk \in [File -> Hash \cup {"missing", "empty"}]
    /\ backup \in [Id -> Hash \cup {"missing", "cut"}]
    /\ manifest \in Seq(Entry) /\ Len(manifest) <= MaxEntries
    /\ torn => manifest = <<>>
    /\ \A i \in DOMAIN manifest :
          /\ manifest[i].id[1] <= clock
          /\ \A j \in 1..i : manifest[j].id[1] <= manifest[i].id[1]
    /\ op.at \in {"idle", "copy", "append", "dump", "modify", "mark", "clean"}

\* The manifest that will be there when the save in progress is done.
Entries == IF op.at = "dump" THEN op.entries ELSE manifest

(***************************************************************************)
(* What was promised is kept: an entry that is neither restored nor        *)
(* expired is in the manifest, its backup is what was hashed and restore   *)
(* of its id finds it, whatever operations ended where; unless its id was  *)
(* given twice.  Only a save of the manifest that was cut off ends the     *)
(* promises made before it.                                                *)
(***************************************************************************)
Recoverable ==
    \A e \in owed :
        \/ e.id \in tied
        \/ /\ Intact(e)
           /\ \E i \in DOMAIN Entries :
                 /\ Entries[i] = e
                 /\ \A j \in DOMAIN Entries : Entries[j].id = e.id => j = i

(***************************************************************************)
(* A tool overwrites no content that the manifest does not list with an    *)
(* intact backup, whatever was lost before; except when the copy for this  *)
(* very write failed, or somebody edited the file after it began.          *)
(***************************************************************************)
Covers(e, f) == e.file = f /\ e.hash = disk[f] /\ Intact(e)

OverwritesAreCovered ==
    op.at = "modify" /\ disk[op.file] \in Hash =>
        \/ faults # {}
        \/ \E e \in owed \cap ToSet(manifest) : Covers(e, op.file)

(***************************************************************************)
(* What is restored is a content that one of the file's own snapshots had  *)
(* (never a backup that was overwritten or cut off), and restore_last goes *)
(* back one snapshot at a time: it passes over no later one of the file.   *)
(***************************************************************************)
Restoring == op.at = "idle" /\ op'.at = "mark"

RestoresLatest ==
    [][Restoring =>
          LET e == op'.entry
          IN  /\ e \in ToSet(manifest)
              /\ disk' = [disk EXCEPT ![e.file] = e.hash]
              /\ \A f \in File :
                    RestoreLast(f) /\ e.id \notin tied =>
                        /\ e.file = f
                        /\ \A i \in Ours(f) : manifest[i].id[1] <= e.id[1]]_vars

=============================================================================
