------------------------ MODULE StatePersisterProofs ------------------------
(***************************************************************************)
(* The state file is never torn but by a write refused too late, a save is *)
(* atomic, and the save that was asked for last is the one that stays, for *)
(* any number of calls of save.                                            *)
(***************************************************************************)
EXTENDS StatePersister, TLAPS, SequenceTheorems

(* Only the holder of the lock is between the lock and the rename, and the *)
(* temporary file is its own from File::create on.                         *)
LockOK ==
  \A w \in Saves :
    /\ pc[w] \in Critical => holder = w
    /\ pc[w] \in {"write", "sync", "rename"} => tmp # NoFile /\ tmp.by = w
    /\ pc[w] \in {"sync", "rename"} => tmp.whole \/ tmp.lost
    /\ pc[w] = "rename" => tmp.synced

(* What the state file is, or may be after a power failure, is all there,  *)
(* but for what the OS refused too late, and on the disk.                  *)
FilesOK ==
  /\ target \in durable
  /\ \A f \in durable : f # NoFile => (f.whole \/ f.lost) /\ f.synced

Inv == TypeOK /\ LockOK /\ FilesOK

(* A file is a file, whatever is marked on it.                             *)
LEMMA FileFacts ==
  ASSUME NEW f \in Files
  PROVE  /\ f # NoFile
         /\ f.by \in Saves
         /\ \A b \in BOOLEAN :
              /\ [f EXCEPT !.whole = b] \in Files
              /\ [f EXCEPT !.whole = b].by = f.by
              /\ [f EXCEPT !.whole = b].whole = b
         /\ [f EXCEPT !.lost = TRUE] \in Files
         /\ [f EXCEPT !.lost = TRUE].by = f.by
         /\ [f EXCEPT !.lost = TRUE].lost
         /\ [f EXCEPT !.synced = TRUE] \in Files
         /\ [f EXCEPT !.synced = TRUE].by = f.by
         /\ f.whole \/ f.lost
              => [f EXCEPT !.synced = TRUE].whole \/ [f EXCEPT !.synced = TRUE].lost
         /\ [f EXCEPT !.synced = TRUE].synced
<1>1. f # NoFile
  BY PersisterAssumption
<1>2. f.by \in Saves
  BY DEF Files
<1>3. \A b \in BOOLEAN : /\ [f EXCEPT !.whole = b] \in Files
                         /\ [f EXCEPT !.whole = b].by = f.by
                         /\ [f EXCEPT !.whole = b].whole = b
  BY DEF Files
<1>4. /\ [f EXCEPT !.lost = TRUE] \in Files
      /\ [f EXCEPT !.lost = TRUE].by = f.by
      /\ [f EXCEPT !.lost = TRUE].lost
  BY DEF Files
<1>5. /\ [f EXCEPT !.synced = TRUE] \in Files
      /\ [f EXCEPT !.synced = TRUE].by = f.by
      /\ f.whole \/ f.lost
           => [f EXCEPT !.synced = TRUE].whole \/ [f EXCEPT !.synced = TRUE].lost
      /\ [f EXCEPT !.synced = TRUE].synced
  BY DEF Files
<1> QED
  BY <1>1, <1>2, <1>3, <1>4, <1>5

(* What is left of a file after a power failure is a file.                 *)
LEMMA LeftFacts ==
  ASSUME NEW f \in Files \cup {NoFile}, NEW g \in Left(f)
  PROVE  /\ g \in Files \cup {NoFile}
         /\ f = NoFile \/ f.synced => g = f
<1>1. CASE f = NoFile \/ f.synced
  BY <1>1 DEF Left
<1>2. CASE ~(f = NoFile \/ f.synced)
  <2>1. f \in Files /\ g \in {f, [f EXCEPT !.whole = FALSE]}
    BY <1>2 DEF Left
  <2>2. [f EXCEPT !.whole = FALSE] \in Files
    BY <2>1, FileFacts
  <2> QED
    BY <1>2, <2>1, <2>2
<1> QED
  BY <1>1, <1>2

(* The invariant holds at the start.                                       *)
LEMMA InitOK == Init => Inv
<1> SUFFICES ASSUME Init PROVE Inv
  OBVIOUS
<1>1. TypeOK
  BY DEF Init, TypeOK, Critical
<1>2. LockOK /\ FilesOK
  BY DEF Init, LockOK, FilesOK, Critical
<1> QED
  BY <1>1, <1>2 DEF Inv

(* The invariant is inductive.                                             *)
LEMMA InvStep ==
  ASSUME Inv, [Next]_vars
  PROVE  Inv'
<1> USE PersisterAssumption DEF Inv, TypeOK, LockOK, FilesOK, Critical, Goto, files
<1>1. CASE UNCHANGED vars
  BY <1>1 DEF vars
<1>2. ASSUME NEW w \in Saves, Ask(w) PROVE Inv'
  BY <1>2 DEF Ask
<1>3. ASSUME NEW w \in Saves, Acquire(w) PROVE Inv'
  <2>1. waiting' \in Seq(Saves)
    BY <1>3 DEF Acquire
  <2> QED
    BY <1>3, <2>1 DEF Acquire
<1>4. ASSUME NEW w \in Saves, MakeDir(w) PROVE Inv'
  BY <1>4 DEF MakeDir
<1>5. ASSUME NEW w \in Saves, Create(w) PROVE Inv'
  <2>1. tmp' \in Files /\ tmp'.by = w
    BY <1>5 DEF Create, Files
  <2>2. tmp' # NoFile
    BY <2>1
  <2> QED
    BY <1>5, <2>1, <2>2 DEF Create
<1>6. ASSUME NEW w \in Saves, Write(w) PROVE Inv'
  <2>1. tmp \in Files /\ tmp.by = w
    BY <1>6 DEF Write
  <2>2. tmp' = [tmp EXCEPT !.whole = TRUE] \/ tmp' = [tmp EXCEPT !.lost = TRUE]
    BY <1>6, <2>1 DEF Write
  <2>3. tmp' \in Files /\ tmp' # NoFile /\ tmp'.by = w /\ (tmp'.whole \/ tmp'.lost)
    <3>1. CASE tmp' = [tmp EXCEPT !.whole = TRUE]
      BY <2>1, <3>1, FileFacts
    <3>2. CASE tmp' = [tmp EXCEPT !.lost = TRUE]
      BY <2>1, <3>2, FileFacts
    <3> QED
      BY <2>2, <3>1, <3>2
  <2> QED
    BY <1>6, <2>3 DEF Write
<1>7. ASSUME NEW w \in Saves, Sync(w) PROVE Inv'
  <2>1. tmp \in Files /\ tmp.by = w /\ (tmp.whole \/ tmp.lost)
    BY <1>7 DEF Sync
  <2>2. tmp' = [tmp EXCEPT !.synced = TRUE]
    BY <1>7 DEF Sync
  <2>3. /\ tmp' \in Files /\ tmp' # NoFile /\ tmp'.by = w
        /\ tmp'.whole \/ tmp'.lost
        /\ tmp'.synced
    BY <2>1, <2>2, FileFacts
  <2> QED
    BY <1>7, <2>3 DEF Sync
<1>8. ASSUME NEW w \in Saves, Rename(w) PROVE Inv'
  BY <1>8, FileFacts DEF Rename, Return
<1>9. ASSUME NEW w \in Saves, Fail(w) PROVE Inv'
  BY <1>9 DEF Fail, Return
<1>10. CASE Crash
  BY <1>10 DEF Crash, Abort
<1>11. CASE PowerLoss
  BY <1>11, LeftFacts DEF PowerLoss, Abort
<1> QED
  BY <1>1, <1>2, <1>3, <1>4, <1>5, <1>6, <1>7, <1>8, <1>9, <1>10, <1>11
     DEF Next, Step

(* The invariant always holds.                                             *)
LEMMA InvHolds == Spec => []Inv
  BY InitOK, InvStep, PTL DEF Spec

(* load never reads a torn file because of a crash or a power failure      *)
(* between any two system calls of save, an error of one of them, or any   *)
(* number of tasks that save at once: only a write the OS refused after    *)
(* write_all had returned leaves part of a file.                           *)
THEOREM LoadFindsWholeFile == Spec => []NeverTorn
<1>1. Inv => NeverTorn
  BY DEF Inv, FilesOK, NeverTorn
<1> QED
  BY <1>1, InvHolds, PTL

(* Every step of StatePersister is a step of the atomic file, or none.     *)
LEMMA FileStep ==
  ASSUME Inv, Inv', [Next]_vars
  PROVE  [File!Next]_<<Content(target), {Content(f) : f \in durable}>>
<1> USE DEF files
<1>1. CASE UNCHANGED <<target, durable>>
  BY <1>1 DEF Content
<1>2. ASSUME NEW w \in Saves, Rename(w)
      PROVE  File!Next
  <2>1. tmp # NoFile /\ tmp.by = w /\ (tmp.whole \/ tmp.lost)
    BY <1>2 DEF Rename, Inv, LockOK
  <2>2. Content(tmp) \in {w, Partial}
    BY <2>1 DEF Content
  <2>3. Content(target)' = Content(tmp)
    BY <1>2 DEF Rename, Content
  <2>4. {Content(f) : f \in durable}' = {Content(f) : f \in durable} \cup {Content(tmp)}
    BY <1>2 DEF Rename, Content
  <2> QED
    BY <2>2, <2>3, <2>4 DEF File!Next, File!Replace, File!Spoil
<1>3. CASE PowerLoss
  <2>1. PICK f \in durable : target' \in Left(f)
    BY <1>3 DEF PowerLoss
  <2>2. target' = f
    BY <2>1, LeftFacts DEF Inv, TypeOK, FilesOK
  <2>3. Content(target)' \in {Content(g) : g \in durable}
    BY <2>2 DEF Content
  <2>4. UNCHANGED {Content(g) : g \in durable}
    BY <1>3 DEF PowerLoss, Content
  <2> QED
    BY <2>3, <2>4 DEF File!Next, File!PowerLoss
<1> QED
  BY <1>1, <1>2, <1>3 DEF Next, Step, vars, Ask, Acquire, MakeDir, Create,
     Write, Sync, Fail, Crash

(* A save replaces the contents of the state file in one step, or not at   *)
(* all, by the whole of its own or, after a write refused too late, by     *)
(* part of them (StatePersister implements AtomicStateFile): what          *)
(* DeviceRegistry relies on when its Save is a single action.              *)
THEOREM SaveIsAtomic == Spec => ImplementsFile
<1>1. Init => File!Init
  BY DEF Init, File!Init, Content
<1>2. Inv /\ Inv' /\ [Next]_vars
        => [File!Next]_<<Content(target), {Content(f) : f \in durable}>>
  BY FileStep
<1> QED
  BY <1>1, <1>2, InvHolds, PTL DEF Spec, File!Spec, ImplementsFile

(* The lock, the files and the calls keep their types.                     *)
THEOREM TypesHold == Spec => []TypeOK
<1>1. Inv => TypeOK
  BY DEF Inv
<1> QED
  BY <1>1, InvHolds, PTL
-----------------------------------------------------------------------------
(* Who waits for the lock: each waiting call once, and nobody else.        *)
QueueOK ==
  /\ \A i \in 1..Len(waiting) : pc[waiting[i]] = "lock"
  /\ \A i, j \in 1..Len(waiting) : waiting[i] = waiting[j] => i = j

(* The call that asked last is the last to wait; once it does not wait any *)
(* more nobody does, and nobody else has the lock.                         *)
AskedOK ==
  asked # NoOne =>
    /\ pc[asked] # "idle"
    /\ pc[asked] = "lock" => waiting # << >> /\ waiting[Len(waiting)] = asked
    /\ pc[asked] # "lock" => waiting = << >> /\ holder \in {NoOne, asked}

OrderInv == QueueOK /\ AskedOK /\ LastAskedWins

(* The first of a queue leaves it, and the others keep their order.        *)
LEMMA TailFacts ==
  ASSUME NEW S, NEW q \in Seq(S), q # << >>
  PROVE  /\ Len(q) \in Nat \ {0} /\ Head(q) = q[1]
         /\ Len(Tail(q)) = Len(q) - 1
         /\ \A i \in 1..Len(Tail(q)) : Tail(q)[i] = q[i + 1]
  BY HeadTailProperties, EmptySeq

(* A call joins the end of the queue.                                      *)
LEMMA AskOrder ==
  ASSUME Inv, OrderInv, NEW w \in Saves, Ask(w)
  PROVE  OrderInv'
<1> DEFINE n == Len(waiting)
<1>1. /\ n \in Nat /\ Len(waiting') = n + 1 /\ waiting' # << >>
      /\ waiting'[n + 1] = w
      /\ \A i \in 1..n : waiting'[i] = waiting[i]
  BY AppendProperties, LenProperties DEF Ask, Inv, TypeOK
<1>2. \A i \in 1..n : waiting[i] # w
  BY DEF Ask, OrderInv, QueueOK
<1>3. /\ pc'[w] = "lock" /\ asked' = w
      /\ \A v \in Saves : v # w => pc'[v] = pc[v]
  BY DEF Ask, Goto, Inv, TypeOK
<1>4. \A i \in 1..n : waiting[i] \in Saves
  BY ElementOfSeq DEF Inv, TypeOK
<1>5. \A i \in 1..(n + 1) : i \in 1..n \/ i = n + 1
  BY <1>1
<1>6. QueueOK'
  <2>1. \A i \in 1..(n + 1) : pc'[waiting'[i]] = "lock"
    BY <1>1, <1>2, <1>3, <1>4, <1>5 DEF OrderInv, QueueOK
  <2>2. \A i, j \in 1..(n + 1) : waiting'[i] = waiting'[j] => i = j
    BY <1>1, <1>2, <1>5 DEF OrderInv, QueueOK
  <2> QED
    BY <1>1, <2>1, <2>2 DEF QueueOK
<1>7. AskedOK' /\ LastAskedWins'
  BY <1>1, <1>3 DEF AskedOK, LastAskedWins
<1> QED
  BY <1>6, <1>7 DEF OrderInv

(* The first of the queue gets the lock; if it is the one that asked last, *)
(* it leaves the queue empty.                                              *)
LEMMA AcquireOrder ==
  ASSUME Inv, OrderInv, NEW w \in Saves, Acquire(w)
  PROVE  OrderInv'
<1> DEFINE n == Len(waiting)
<1>1. /\ n \in Nat \ {0} /\ waiting[1] = w /\ Len(waiting') = n - 1
      /\ \A i \in 1..(n - 1) : waiting'[i] = waiting[i + 1]
  BY TailFacts DEF Acquire, Inv, TypeOK
<1>2. /\ pc'[w] = "dir" /\ holder' = w /\ asked' = asked
      /\ \A v \in Saves : v # w => pc'[v] = pc[v]
  BY DEF Acquire, Goto, Inv, TypeOK
<1>3. waiting' \in Seq(Saves)
  BY HeadTailProperties DEF Acquire, Inv, TypeOK
<1>4. \A i \in 1..n : waiting[i] \in Saves
  BY ElementOfSeq DEF Inv, TypeOK
<1>5. \A i \in 1..(n - 1) : i + 1 \in 1..n /\ i + 1 # 1
  BY <1>1
<1>6. \A i \in 1..(n - 1) : waiting[i + 1] # w
  BY <1>1, <1>5 DEF OrderInv, QueueOK
<1>7. QueueOK'
  <2>1. \A i \in 1..(n - 1) : pc'[waiting'[i]] = "lock"
    BY <1>1, <1>2, <1>4, <1>5, <1>6 DEF OrderInv, QueueOK
  <2>2. \A i, j \in 1..(n - 1) : waiting'[i] = waiting'[j] => i = j
    <3> SUFFICES ASSUME NEW i \in 1..(n - 1), NEW j \in 1..(n - 1),
                        waiting'[i] = waiting'[j]
                 PROVE  i = j
      OBVIOUS
    <3>1. i + 1 = j + 1
      BY <1>1, <1>5 DEF OrderInv, QueueOK
    <3> QED
      BY <3>1
  <2> QED
    BY <1>1, <2>1, <2>2 DEF QueueOK
<1>8. ASSUME asked # NoOne
      PROVE  pc[asked] = "lock" /\ waiting[n] = asked /\ asked \in Saves
  BY <1>8 DEF OrderInv, AskedOK, Acquire, Inv, TypeOK
<1>9. CASE asked = NoOne
  BY <1>2, <1>7, <1>9 DEF OrderInv, AskedOK, LastAskedWins
<1>10. CASE asked # NoOne /\ asked = w
  <2>1. n = 1
    BY <1>1, <1>8, <1>10 DEF OrderInv, QueueOK
  <2>2. waiting' = << >>
    BY <1>1, <1>3, <2>1, EmptySeq
  <2> QED
    BY <1>2, <1>7, <1>10, <2>2 DEF OrderInv, AskedOK, LastAskedWins
<1>11. CASE asked # NoOne /\ asked # w
  <2>1. n # 1
    BY <1>1, <1>8, <1>11
  <2>2. n - 1 \in 1..(n - 1) /\ (n - 1) + 1 = n
    BY <1>1, <2>1
  <2>3. waiting'[n - 1] = asked
    BY <1>1, <1>8, <1>11, <2>2
  <2>4. waiting' # << >>
    BY <1>1, <2>2, EmptySeq
  <2> QED
    BY <1>1, <1>2, <1>7, <1>8, <1>11, <2>3, <2>4 DEF OrderInv, AskedOK, LastAskedWins
<1> QED
  BY <1>9, <1>10, <1>11

(* A step of the holder of the lock leaves the queue alone.                *)
LEMMA HolderOrder ==
  ASSUME Inv, OrderInv, NEW w \in Saves, pc[w] \in Critical,
         pc'[w] # "lock", pc'[w] # "idle", \A v \in Saves : v # w => pc'[v] = pc[v],
         UNCHANGED <<waiting, asked>>, holder' \in {holder, NoOne},
         \/ pc'[w] # "ok" /\ UNCHANGED target
         \/ target' # NoFile /\ target'.by = w
  PROVE  OrderInv'
<1>1. holder = w
  BY DEF Inv, LockOK
<1>2. \A i \in 1..Len(waiting) : waiting[i] \in Saves /\ waiting[i] # w
  BY ElementOfSeq DEF Inv, TypeOK, OrderInv, QueueOK, Critical
<1>3. QueueOK'
  BY <1>2 DEF OrderInv, QueueOK
<1>4. asked # NoOne => asked \in Saves
  BY DEF Inv, TypeOK
<1>5. asked # NoOne /\ pc[asked] # "lock" => asked = w
  BY <1>1, PersisterAssumption DEF OrderInv, AskedOK
<1>6. AskedOK' /\ LastAskedWins'
  BY <1>1, <1>4, <1>5, PersisterAssumption
     DEF OrderInv, AskedOK, LastAskedWins, Critical
<1> QED
  BY <1>3, <1>6 DEF OrderInv

(* The order of the queue is kept by every step.                          *)
LEMMA OrderStep ==
  ASSUME Inv, OrderInv, [Next]_vars
  PROVE  OrderInv'
<1>1. CASE UNCHANGED vars
  BY <1>1 DEF vars, OrderInv, QueueOK, AskedOK, LastAskedWins
<1>2. ASSUME NEW w \in Saves, Ask(w) PROVE OrderInv'
  BY <1>2, AskOrder
<1>3. ASSUME NEW w \in Saves, Acquire(w) PROVE OrderInv'
  BY <1>3, AcquireOrder
<1>4. ASSUME NEW w \in Saves, Rename(w) PROVE OrderInv'
  <2>1. tmp # NoFile /\ tmp.by = w
    BY <1>4 DEF Rename, Inv, LockOK
  <2> QED
    BY <1>4, <2>1, HolderOrder DEF Rename, Return, Goto, Critical, Inv, TypeOK
<1>5. ASSUME NEW w \in Saves, MakeDir(w) \/ Create(w) \/ Write(w) \/ Sync(w)
      PROVE  OrderInv'
  BY <1>5, HolderOrder DEF MakeDir, Create, Write, Sync, Goto, Critical, Inv, TypeOK
<1>6. ASSUME NEW w \in Saves, Fail(w) PROVE OrderInv'
  BY <1>6, HolderOrder DEF Fail, Return, Goto, files, Critical, Inv, TypeOK
<1>7. CASE Crash \/ PowerLoss
  <2>1. waiting' = << >> /\ asked' = NoOne
    BY <1>7 DEF Crash, PowerLoss, Abort
  <2>2. Len(waiting') = 0
    BY <2>1
  <2> QED
    BY <2>1, <2>2 DEF OrderInv, QueueOK, AskedOK, LastAskedWins
<1> QED
  BY <1>1, <1>2, <1>3, <1>4, <1>5, <1>6, <1>7 DEF Next, Step

(* Nobody waits at the start.                                              *)
LEMMA OrderInit == Init => OrderInv
<1> SUFFICES ASSUME Init PROVE OrderInv
  OBVIOUS
<1>1. Len(waiting) = 0
  BY DEF Init
<1> QED
  BY <1>1 DEF Init, OrderInv, QueueOK, AskedOK, LastAskedWins

(* Of the saves that returned Ok the one that asked for the lock last is   *)
(* in the file: one that asked before never lands after it, for any number *)
(* of saves that overlap, fail or die (write_lock of save).                *)
THEOREM NewestSaveStays == Spec => []LastAskedWins
<1>1. Inv /\ OrderInv /\ [Next]_vars => OrderInv'
  BY OrderStep
<1>2. OrderInv => LastAskedWins
  BY DEF OrderInv
<1> QED
  BY <1>1, <1>2, OrderInit, InvHolds, PTL DEF Spec
=============================================================================
