--------------------------- MODULE StatePersister ---------------------------
(***************************************************************************)
(* StatePersister of collar-server: saves of the state file, from any      *)
(* number of tasks at once, through one temporary file that is written,    *)
(* synced and renamed over the state file under a lock; every system call  *)
(* may fail, the process may die between any two of them, and so may the   *)
(* machine.                                                                *)
(*                                                                         *)
(* Each member of Saves is one call of save, and stands for the contents   *)
(* it was called with.  A file is [by, whole, lost, synced]: the call that *)
(* wrote it, whether all of its bytes are there, whether the OS refused    *)
(* some of them too late to be reported, and whether it reached the disk.  *)
(*                                                                         *)
(* AcquireAny, AcquireUnlocked, ReturnLeaking, CreateUnframed and          *)
(* WriteUnsynced are mutants: the same code with a plausible bug, which    *)
(* one of the properties rules out.  No specification uses them.           *)
(***************************************************************************)
EXTENDS Sequences

CONSTANTS
  Saves,   \* calls of save
  NoFile,  \* the path does not exist
  NoOne,   \* no call of save
  Partial  \* what a file holds whose write was refused too late

Files == [by : Saves, whole : BOOLEAN, lost : BOOLEAN, synced : BOOLEAN]

ASSUME PersisterAssumption ==
  /\ NoFile \notin Files \cup Saves
  /\ NoOne \notin Saves
  /\ Partial \notin Saves \cup {NoFile, NoOne}

VARIABLES
  pc,        \* where each call is
  waiting,   \* write_lock: the calls that wait for it, in order
  holder,    \* write_lock: the call that has it
  parent,    \* the parent directory exists
  tmp,       \* state.json.tmp
  target,    \* state.json
  durable,   \* the state files that a power failure may bring back
  asked      \* history: the call that asked for the lock last

vars == <<pc, waiting, holder, parent, tmp, target, durable, asked>>

files == <<parent, tmp, target, durable>>

Goto(w, where) == pc' = [pc EXCEPT ![w] = where]

Init ==
  /\ pc = [w \in Saves |-> "idle"]
  /\ waiting = << >>
  /\ holder = NoOne
  /\ parent \in BOOLEAN
  /\ tmp = NoFile
  /\ target = NoFile
  /\ durable = {NoFile}
  /\ asked = NoOne

(* self.write_lock.lock().await: tokio's Mutex is first in, first out.     *)
Ask(w) ==
  /\ pc[w] = "idle"
  /\ Goto(w, "lock")
  /\ waiting' = Append(waiting, w)
  /\ asked' = w
  /\ UNCHANGED <<holder, files>>

Take(w) ==
  /\ holder' = w
  /\ waiting' = SelectSeq(waiting, LAMBDA x : x # w)
  /\ Goto(w, "dir")
  /\ UNCHANGED <<files, asked>>

AcquireAny(w) == pc[w] = "lock" /\ holder = NoOne /\ Take(w)

AcquireUnlocked(w) == pc[w] = "lock" /\ w = Head(waiting) /\ Take(w)

Acquire(w) ==
  /\ pc[w] = "lock"
  /\ holder = NoOne
  /\ waiting # << >>
  /\ w = Head(waiting)
  /\ holder' = w
  /\ waiting' = Tail(waiting)
  /\ Goto(w, "dir")
  /\ UNCHANGED <<files, asked>>

ReturnLeaking(w, result) ==
  Goto(w, result) /\ holder' = IF result = "ok" THEN NoOne ELSE holder

(* save returns, Ok or Err, and drops the guard of the lock.               *)
Return(w, result) == Goto(w, result) /\ holder' = NoOne

(* A system call fails and `?` returns its error, which save_best_effort   *)
(* logs.  The temporary file stays as it is.                               *)
Fail(w) ==
  /\ \/ pc[w] = "dir" /\ ~parent
     \/ pc[w] \in {"create", "write", "sync", "rename"}
  /\ Return(w, "failed")
  /\ UNCHANGED <<waiting, files, asked>>

(* create_dir_all(parent), if it does not exist.                           *)
MakeDir(w) ==
  /\ pc[w] = "dir"
  /\ parent' = TRUE
  /\ Goto(w, "create")
  /\ UNCHANGED <<waiting, holder, tmp, target, durable, asked>>

CreateUnframed(w) ==
  /\ pc[w] = "create"
  /\ tmp' = w
  /\ Goto(w, "write")
  /\ UNCHANGED <<waiting, holder, parent, target, durable, asked>>

(* File::create(&tmp_path) truncates a file that a failed save left there. *)
Create(w) ==
  /\ pc[w] = "create"
  /\ tmp' = [by |-> w, whole |-> FALSE, lost |-> FALSE, synced |-> FALSE]
  /\ Goto(w, "write")
  /\ UNCHANGED <<waiting, holder, parent, target, durable, asked>>

WriteUnsynced(w) ==
  /\ pc[w] = "write"
  /\ tmp' = [tmp EXCEPT !.whole = tmp.by = w]
  /\ Goto(w, "rename")
  /\ UNCHANGED <<waiting, holder, parent, target, durable, asked>>

(* tmp.write_all(&json): into a file that another call has truncated since *)
(* it would make a mixture of the two.  tokio's File answers Ok once it    *)
(* has the bytes in a buffer; when the OS refuses them after that (a full  *)
(* disk), sync_all waits for the write but returns only its own result, so *)
(* that the call goes on with what is there.                               *)
Write(w) ==
  /\ pc[w] = "write"
  /\ \/ tmp' = [tmp EXCEPT !.whole = tmp.by = w]
     \/ tmp' = [tmp EXCEPT !.lost = TRUE]
  /\ Goto(w, "sync")
  /\ UNCHANGED <<waiting, holder, parent, target, durable, asked>>

(* tmp.sync_all()                                                          *)
Sync(w) ==
  /\ pc[w] = "sync"
  /\ tmp' = [tmp EXCEPT !.synced = TRUE]
  /\ Goto(w, "rename")
  /\ UNCHANGED <<waiting, holder, parent, target, durable, asked>>

(* rename(&tmp_path, &self.path), and Ok(()).  The directory is not        *)
(* synced, so a power failure may undo the rename.                         *)
Rename(w) ==
  /\ pc[w] = "rename"
  /\ tmp # NoFile
  /\ target' = tmp
  /\ durable' = durable \cup {tmp}
  /\ tmp' = NoFile
  /\ Return(w, "ok")
  /\ UNCHANGED <<waiting, parent, asked>>

(* The calls that were under way are gone with the process.                *)
Abort == /\ pc' = [w \in Saves |-> IF pc[w] \in {"idle", "ok", "failed"}
                                   THEN pc[w] ELSE "dead"]
         /\ waiting' = << >>
         /\ holder' = NoOne
         /\ asked' = NoOne

Crash == Abort /\ UNCHANGED files

(* What was not synced may be there in part.                               *)
Left(f) == IF f = NoFile \/ f.synced THEN {f} ELSE {f, [f EXCEPT !.whole = FALSE]}

PowerLoss ==
  /\ Abort
  /\ \E f \in durable : target' \in Left(f)
  /\ tmp' \in IF tmp = NoFile THEN {NoFile} ELSE Left(tmp) \cup {NoFile}
  /\ UNCHANGED <<parent, durable>>

Step(w) == \/ Acquire(w) \/ MakeDir(w) \/ Create(w) \/ Write(w) \/ Sync(w)
           \/ Rename(w) \/ Fail(w)

Next == \/ \E w \in Saves : Ask(w) \/ Step(w)
        \/ Crash
        \/ PowerLoss

Spec == Init /\ [][Next]_vars

(* Tasks are polled and system calls return.                               *)
LiveSpec == Spec /\ \A w \in Saves : WF_vars(Step(w))
-----------------------------------------------------------------------------
Critical == {"dir", "create", "write", "sync", "rename"}

(* The types of the lock, the files and the calls.                         *)
TypeOK ==
  /\ pc \in [Saves -> Critical \cup {"idle", "lock", "ok", "failed", "dead"}]
  /\ waiting \in Seq(Saves)
  /\ holder \in Saves \cup {NoOne}
  /\ parent \in BOOLEAN
  /\ tmp \in Files \cup {NoFile}
  /\ target \in Files \cup {NoFile}
  /\ durable \in SUBSET (Files \cup {NoFile})
  /\ asked \in Saves \cup {NoOne}

(* StatePersister::load never finds part of a file or a mixture of two     *)
(* because of a crash, a power failure, an error save returned or saves    *)
(* that overlapped (save's temporary file, its sync and its lock): what is *)
(* not whole was written by a call whose write the OS refused too late.    *)
NeverTorn == target # NoFile => target.whole \/ target.lost

(* Of the saves that returned Ok the one that was asked for last is in the *)
(* file, or what the OS took of it: a call that asked for the lock before  *)
(* does not land after it (the order of write_lock).  The snapshot is      *)
(* taken before that: which one is the older is not what this says.        *)
LastAskedWins ==
  asked # NoOne /\ pc[asked] = "ok" => target # NoFile /\ target.by = asked

Content(f) == IF f = NoFile THEN NoFile
              ELSE IF f.whole THEN f.by
              ELSE IF f.lost THEN Partial ELSE NoOne

File == INSTANCE AtomicStateFile WITH content <- Content(target),
                                      past <- {Content(f) : f \in durable}

(* A save replaces the contents of the file in one step, by the whole of   *)
(* its own or, after a write refused too late, by part of them.            *)
ImplementsFile == File!Spec

(* Every save that is asked for returns, unless the process dies: no error *)
(* path keeps the lock.                                                    *)
EverySaveReturns ==
  \A w \in Saves : pc[w] = "lock" ~> pc[w] \in {"ok", "failed", "dead"}
=============================================================================
