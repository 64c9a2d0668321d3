----------------------- MODULE QuotationStorageProofs -----------------------
(***************************************************************************)
(* Proofs about QuotationStorage, for any runs, ids and bounds.            *)
(***************************************************************************)
EXTENDS QuotationStorage, TLAPS

\* The storage's types hold in every reachable state.
THEOREM StorageTypes == Spec => []TypeOK
<1>1. Init => TypeOK
  BY RunAssumption DEF Init, TypeOK, Task, Op, Cleanup, Result
<1>2. ASSUME TypeOK, [Next]_vars PROVE TypeOK'
  <2> USE <1>2 DEF TypeOK, Task, Op, Cleanup, Result
  <2>1. ASSUME NEW r \in Run, Begin(r) PROVE TypeOK'
    BY <2>1 DEF Begin, Finish, Continue, files
  <2>2. ASSUME NEW r \in Run, Reserve(r) PROVE TypeOK'
    BY <2>2 DEF Reserve, CreateReservation, AlreadyReserved, AlreadyFinal, Reserved,
       ReserveFails, RemovalFails, ThreadEnds, ThreadReturns, Finish, Continue, Unlinked, Fault, files
  <2>3. ASSUME NEW r \in Run, Write(r) PROVE TypeOK'
    <3>1. CASE VerifyReservation(r) \/ WriteTemporary(r) \/ DropTemporary(r)
      BY <3>1 DEF VerifyReservation, WriteTemporary, DropTemporary, WriteRaises,
         StartCleanup, Continue, files
    <3>2. CASE Link(r)
      BY <3>2 DEF Link, WriteRaises, StartCleanup, Continue
    <3>3. CASE ReleaseReservation(r) \/ Written(r)
      BY <3>3 DEF ReleaseReservation, Written, WriteRaises, StartCleanup,
         ThreadReturns, Continue, Unlinked, files
    <3>4. CASE WriteFails(r)
      BY <3>4 DEF WriteFails, WriteRaises, StartCleanup, Continue, Fault
    <3>5. QED
      BY <2>3, <3>1, <3>2, <3>3, <3>4 DEF Write
  <2>4. ASSUME NEW r \in Run, Checked(r) \/ CheckFails(r) PROVE TypeOK'
    BY <2>4 DEF Checked, CheckFails, ThreadEnds, Finish, Continue, Fault, files
  <2>5. ASSUME NEW r \in Run, Cancel(r) PROVE TypeOK'
    BY <2>5 DEF Cancel, StartCleanup, Finish, files
  <2>10. ASSUME NEW r \in Run, CancelQueued(r) PROVE TypeOK'
    BY <2>10 DEF CancelQueued, StartCleanup, Finish, Continue, files
  <2>6. ASSUME NEW r \in Run, Clean(r) PROVE TypeOK'
    BY <2>6 DEF Clean, CleanLook, CleanVerify, CleanUnlink, CleanFails, CleanupEnds,
       Finish, Unlinked, Fault, files
  <2>7. ASSUME NEW r \in Run, Crash(r) PROVE TypeOK'
    BY <2>7 DEF Crash, Continue, Fault, files
  <2>8. CASE UNCHANGED vars
    BY <2>8 DEF vars, files
  <2>9. QED
    BY <1>2, <2>1, <2>2, <2>3, <2>4, <2>5, <2>10, <2>6, <2>7, <2>8 DEF Next, Finished
<1>3. QED
  BY <1>1, <1>2, PTL DEF Spec
-----------------------------------------------------------------------------
(* The inductive invariant.                                                *)

Writing(r) == task[r] = "write" /\ op[r] \in {"verify", "temp", "link"}

\* What a step of r leaves of the other runs and of their files.
Frame(r) ==
  /\ \A s \in Run : s # r =>
       /\ task'[s] = task[s] /\ op'[s] = op[s] /\ clean'[s] = clean[s]
       /\ id'[s] = id[s] /\ result'[s] = result[s]
       /\ s \in temp' => s \in temp
       /\ s \in hurt' <=> s \in hurt
  /\ \A i \in Id : final[i] # None => final'[i] = final[i]
  /\ \A i \in Id :
       \/ reserved'[i] = reserved[i]
       \/ reserved'[i] = r /\ reserved[i] = None
       \/ reserved'[i] = None /\ (reserved[i] = r \/ final[i] # None)

\* What a step of r does to r itself.
Kept(r) ==
  /\ RunSound(r)' /\ FilesSound(r)'
  /\ Writing(r)' => Writing(r) /\ id'[r] = id[r]

LEMMA OthersSound ==
  ASSUME TypeOK, NEW r \in Run, Frame(r),
         NEW s \in Run, s # r, RunSound(s), FilesSound(s)
  PROVE  RunSound(s)' /\ FilesSound(s)'
<1>1. RunSound(s)'
  BY DEF Frame, RunSound
<1>2. /\ op'[s] # "none" \/ clean'[s] # "none" \/ task'[s] # "idle" => id[s] \in Id
      /\ s # None /\ r # None
  BY RunAssumption DEF Frame, TypeOK
<1>3. (\/ op[s] = "look" \/ clean[s] = "unlink"
       \/ task[s] = "write" /\ op[s] \in {"verify", "temp", "link"})
      => reserved'[id[s]] = s \/ final'[id[s]] # None
  <2>1. SUFFICES ASSUME \/ op[s] = "look" \/ clean[s] = "unlink"
                        \/ task[s] = "write" /\ op[s] \in {"verify", "temp", "link"}
                 PROVE  reserved'[id[s]] = s \/ final'[id[s]] # None
    OBVIOUS
  <2>2. id[s] \in Id /\ (reserved[id[s]] = s \/ final[id[s]] # None)
    BY <2>1 DEF FilesSound, TypeOK
  <2>3. QED
    BY <2>2, <1>2 DEF Frame
<1>4. (\/ op[s] \in {"drop", "release", "confirm", "check"}
       \/ result[s] = "returned") => id[s] \in Id /\ final'[id[s]] = s
  BY <1>2 DEF FilesSound, Frame
<1>5. \A i \in Id : reserved'[i] = s => reserved[i] = s
  BY <1>2 DEF Frame
<1>6. QED
  BY <1>1, <1>3, <1>4, <1>5 DEF FilesSound, Frame

\* Together: a step that keeps r and its frame keeps the invariant.
LEMMA StepSound ==
  ASSUME TypeOK, StorageSound, NEW r \in Run, Frame(r), Kept(r)
  PROVE  StorageSound'
<1>1. \A s \in Run : RunSound(s)' /\ FilesSound(s)'
  BY OthersSound DEF StorageSound, Kept
<1>2. \A s \in Run : Writing(s)' => Writing(s) /\ id'[s] = id[s]
  BY DEF Frame, Kept, Writing
<1>3. WritersExclusive'
  BY <1>2 DEF StorageSound, WritersExclusive, Writing
<1>4. QED
  BY <1>1, <1>3 DEF StorageSound

\* A step of reserve, except its return.
LEMMA ReserveSound ==
  ASSUME TypeOK, StorageSound, NEW r \in Run,
         \/ CreateReservation(r) \/ AlreadyReserved(r) \/ AlreadyFinal(r)
         \/ ReserveFails(r) \/ RemovalFails(r)
  PROVE  Frame(r) /\ Kept(r)
<1>0. /\ id[r] \in Id /\ r # None /\ op[r] \in {"create", "look"}
      /\ RunSound(r) /\ FilesSound(r)
  BY RunAssumption DEF StorageSound, TypeOK, CreateReservation, AlreadyReserved,
     AlreadyFinal, ReserveFails, RemovalFails
<1>1. CASE CreateReservation(r)
  <2>1. Frame(r)
    BY <1>1, <1>0 DEF CreateReservation, Continue, Frame, TypeOK
  <2>2. RunSound(r)' /\ FilesSound(r)'
    BY <1>1, <1>0 DEF CreateReservation, Continue, TypeOK, RunSound, FilesSound
  <2>3. QED
    BY <2>1, <2>2, <1>1 DEF CreateReservation, Continue, TypeOK, Kept, Writing
<1>2. CASE AlreadyReserved(r) \/ AlreadyFinal(r) \/ ReserveFails(r)
  <2>1. /\ Continue(r, "none") /\ UNCHANGED <<temp, final, clean, id, hurt>>
        /\ UNCHANGED reserved \/ Unlinked(id[r])
        /\ op[r] = "look" => Unlinked(id[r])
        /\ op[r] = "look" => reserved[id[r]] = r \/ final[id[r]] # None
        /\ \/ Finish(r, "exhausted") \/ Finish(r, "failed")
           \/ task[r] # "reserve" /\ UNCHANGED <<task, result>>
    BY <1>2, <1>0 DEF AlreadyReserved, AlreadyFinal, ReserveFails, ThreadEnds,
       FilesSound, files
  <2>2. Frame(r)
    <3>1. \A i \in Id : \/ reserved'[i] = reserved[i]
                        \/ reserved'[i] = None /\ (reserved[i] = r \/ final[i] # None)
      <4>1. CASE op[r] = "look"
        BY <4>1, <2>1, <1>0 DEF Unlinked, TypeOK
      <4>2. CASE op[r] = "create"
        BY <4>2, <1>0, <1>2 DEF AlreadyReserved, AlreadyFinal, ReserveFails, files
      <4>3. QED
        BY <1>0, <4>1, <4>2
    <3>2. QED
      BY <2>1, <3>1 DEF Continue, Finish, Frame, TypeOK
  <2>3. \A i \in Id : reserved'[i] = r => reserved[i] = r /\ op[r] # "look"
    BY <2>1, <1>0 DEF Unlinked, TypeOK, FilesSound
  <2>4. op'[r] = "none" /\ clean'[r] = "none" /\ task'[r] \in {"done", task[r]}
        /\ task'[r] = "done"
    BY <2>1, <1>0 DEF Continue, Finish, TypeOK, RunSound
  <2>5. RunSound(r)'
    BY <2>4 DEF RunSound
  <2>6. FilesSound(r)'
    BY <2>1, <2>3, <2>4, <1>0 DEF FilesSound, RunSound, Finish, TypeOK
  <2>7. QED
    BY <2>2, <2>4, <2>5, <2>6 DEF Kept, Writing
<1>3. CASE RemovalFails(r)
  <2>1. /\ Continue(r, "none") /\ UNCHANGED <<reserved, temp, final, clean, id>>
        /\ hurt' = hurt \cup {r}
        /\ \/ Finish(r, "failed")
           \/ task[r] # "reserve" /\ UNCHANGED <<task, result>>
    BY <1>3 DEF RemovalFails, ThreadEnds, files
  <2>2. Frame(r)
    BY <2>1 DEF Continue, Finish, Frame, TypeOK
  <2>3. op'[r] = "none" /\ clean'[r] = "none" /\ task'[r] = "done"
    BY <2>1, <1>0 DEF Continue, Finish, TypeOK, RunSound
  <2>4. RunSound(r)'
    BY <2>3 DEF RunSound
  <2>5. FilesSound(r)'
    BY <2>1, <2>3, <1>0 DEF FilesSound, RunSound, Finish, TypeOK
  <2>6. QED
    BY <2>2, <2>3, <2>4, <2>5 DEF Kept, Writing
<1>4. QED
  BY <1>1, <1>2, <1>3

\* A step of write.
LEMMA WriteSound ==
  ASSUME TypeOK, StorageSound, NEW r \in Run, Write(r)
  PROVE  Frame(r) /\ Kept(r)
<1>0. /\ id[r] \in Id /\ r # None
      /\ op[r] \in {"verify", "temp", "link", "drop", "release", "confirm"}
      /\ RunSound(r) /\ FilesSound(r)
  BY RunAssumption DEF StorageSound, TypeOK, Write, VerifyReservation,
     WriteTemporary, Link, DropTemporary, ReleaseReservation, Written, WriteFails
<1>a. task[r] \in {"write", "cleanup", "done"}
  BY <1>0 DEF RunSound, TypeOK, Task
\* What a write that raises leaves.
<1>1. ASSUME WriteRaises(r), UNCHANGED <<reserved, final, id>>,
             temp' \subseteq temp \cup {r}, r \in temp' => r \in hurt',
             hurt' = hurt \/ hurt' = hurt \cup {r}
      PROVE  Frame(r) /\ Kept(r)
  <2>1. /\ op' = [op EXCEPT ![r] = "none"] /\ UNCHANGED result
        /\ \/ task[r] = "write" /\ StartCleanup(r, "failed")
           \/ task[r] # "write" /\ UNCHANGED <<task, cause, clean>>
    BY <1>1 DEF WriteRaises, Continue
  <2>2. Frame(r)
    BY <1>1, <2>1 DEF StartCleanup, Frame, TypeOK
  <2>3. op'[r] = "none" /\ ~Writing(r)'
    BY <2>1, <1>a DEF StartCleanup, TypeOK, Writing
  <2>4. RunSound(r)'
    BY <2>1, <2>3, <1>0, <1>a DEF StartCleanup, RunSound, TypeOK
  <2>5. FilesSound(r)'
    BY <1>1, <2>1, <2>3, <1>0, <1>a DEF StartCleanup, FilesSound, RunSound, TypeOK
  <2>6. QED
    BY <2>2, <2>3, <2>4, <2>5 DEF Kept
<1>2. CASE VerifyReservation(r)
  <2>1. CASE reserved[id[r]] = r
    <3>1. op' = [op EXCEPT ![r] = "temp"]
          /\ UNCHANGED <<files, task, clean, id, result, hurt>>
      BY <2>1, <1>2 DEF VerifyReservation, Continue
    <3>2. Frame(r)
      BY <3>1 DEF Frame, files, TypeOK
    <3>3. Kept(r)
      BY <3>1, <1>2, <1>0 DEF Kept, Writing, RunSound, FilesSound, files, TypeOK,
         VerifyReservation
    <3>4. QED
      BY <3>2, <3>3
  <2>2. CASE reserved[id[r]] # r
    BY <2>2, <1>2, <1>0, <1>1 DEF VerifyReservation, files, FilesSound
  <2>3. QED
    BY <2>1, <2>2
<1>3. CASE WriteTemporary(r)
  <2>1. Frame(r)
    BY <1>3 DEF WriteTemporary, Continue, Frame, TypeOK
  <2>2. Kept(r)
    BY <1>3, <1>0 DEF WriteTemporary, Continue, Kept, Writing, RunSound, FilesSound, TypeOK
  <2>3. QED
    BY <2>1, <2>2
<1>4. CASE Link(r)
  <2>1. CASE final[id[r]] = None
    <3>1. /\ final' = [final EXCEPT ![id[r]] = r] /\ op' = [op EXCEPT ![r] = "drop"]
          /\ UNCHANGED <<reserved, temp, task, clean, id, result, hurt>>
      BY <2>1, <1>4 DEF Link, Continue
    <3>2. Frame(r)
      BY <3>1, <2>1 DEF Frame, TypeOK
    <3>3. final'[id[r]] = r /\ op'[r] = "drop"
      BY <3>1, <1>0 DEF TypeOK
    <3>4. Kept(r)
      BY <3>1, <3>3, <1>4, <1>0 DEF Link, Kept, Writing, RunSound, FilesSound
    <3>5. QED
      BY <3>2, <3>4
  <2>2. CASE final[id[r]] # None
    BY <2>2, <1>4, <1>0, <1>1 DEF Link
  <2>3. QED
    BY <2>1, <2>2
<1>5. CASE DropTemporary(r)
  <2>1. Frame(r)
    BY <1>5 DEF DropTemporary, Continue, Frame, TypeOK
  <2>2. Kept(r)
    BY <1>5, <1>0 DEF DropTemporary, Continue, Kept, Writing, RunSound, FilesSound, TypeOK
  <2>3. QED
    BY <2>1, <2>2
<1>6. CASE ReleaseReservation(r)
  <2>1. final[id[r]] # None
    BY <1>6, <1>0 DEF ReleaseReservation, FilesSound
  <2>2. CASE reserved[id[r]] # None
    <3>1. /\ op' = [op EXCEPT ![r] = "confirm"]
          /\ reserved' = [reserved EXCEPT ![id[r]] = None]
          /\ UNCHANGED <<temp, final, task, clean, id, result, hurt>>
      BY <2>2, <1>6 DEF ReleaseReservation, Continue, Unlinked
    <3>2. Frame(r)
      BY <3>1, <2>1, <1>0 DEF Frame, TypeOK
    <3>3. \A i \in Id : reserved'[i] # r
      BY <3>1, <1>0 DEF FilesSound, TypeOK
    <3>4. op'[r] = "confirm"
      BY <3>1 DEF TypeOK
    <3>5. Kept(r)
      BY <3>1, <3>3, <3>4, <2>1, <1>6, <1>0
      DEF ReleaseReservation, Kept, Writing, RunSound, FilesSound
    <3>6. QED
      BY <3>2, <3>5
  <2>3. CASE reserved[id[r]] = None
    BY <2>3, <1>6, <1>0, <1>1 DEF ReleaseReservation, FilesSound
  <2>4. QED
    BY <2>2, <2>3
<1>7. CASE Written(r)
  <2>1. /\ UNCHANGED <<files, clean, id, result, hurt>>
        /\ \/ /\ task[r] = "write" /\ task' = [task EXCEPT ![r] = "check"]
              /\ op' = [op EXCEPT ![r] = "check"]
           \/ task[r] # "write" /\ task' = task /\ op' = [op EXCEPT ![r] = "none"]
    BY <1>7 DEF Written, ThreadReturns, Continue
  <2>2. Frame(r)
    BY <2>1 DEF Frame, files, TypeOK
  <2>3. Kept(r)
    BY <2>1, <1>7, <1>0, <1>a DEF Written, Kept, Writing, RunSound, FilesSound, files, TypeOK
  <2>4. QED
    BY <2>2, <2>3
<1>8. CASE WriteFails(r)
  BY <1>8, <1>0, <1>1 DEF WriteFails, FilesSound
<1>9. QED
  BY <1>2, <1>3, <1>4, <1>5, <1>6, <1>7, <1>8 DEF Write

\* The return of reserve: the only step that makes a run a writer.
LEMMA ReservedSound ==
  ASSUME TypeOK, StorageSound, NEW r \in Run, Reserved(r)
  PROVE  StorageSound'
<1>0. /\ id[r] \in Id /\ r # None /\ op[r] = "look" /\ final[id[r]] = None
      /\ reserved[id[r]] = r
      /\ RunSound(r) /\ FilesSound(r)
  BY RunAssumption DEF StorageSound, TypeOK, Reserved, FilesSound
<1>1. /\ UNCHANGED <<files, clean, id, result, hurt>>
      /\ \/ /\ task[r] = "reserve" /\ task' = [task EXCEPT ![r] = "write"]
            /\ op' = [op EXCEPT ![r] = "verify"]
         \/ task[r] # "reserve" /\ task' = task /\ op' = [op EXCEPT ![r] = "none"]
  BY DEF Reserved, ThreadReturns, Continue
<1>2. Frame(r)
  BY <1>1 DEF Frame, files, TypeOK
<1>3. RunSound(r)' /\ FilesSound(r)'
  BY <1>1, <1>0 DEF RunSound, FilesSound, files, TypeOK
<1>4. \A s \in Run : RunSound(s)' /\ FilesSound(s)'
  BY <1>2, <1>3, OthersSound DEF StorageSound
<1>5. \A s \in Run : Writing(s) /\ s # r => id[s] # id[r]
  BY <1>0 DEF StorageSound, FilesSound, Writing
<1>6. \A s \in Run : s # r /\ Writing(s)' => Writing(s)
  BY <1>2 DEF Frame, Writing
<1>7. WritersExclusive'
  BY <1>1, <1>5, <1>6 DEF StorageSound, WritersExclusive, Writing
<1>8. QED
  BY <1>4, <1>7 DEF StorageSound

\* The draw of the id, the last check, cancellations and crashes.
LEMMA TaskSound ==
  ASSUME TypeOK, StorageSound, NEW r \in Run,
         \/ Begin(r) \/ Checked(r) \/ CheckFails(r)
         \/ Cancel(r) \/ CancelQueued(r) \/ Crash(r)
  PROVE  Frame(r) /\ Kept(r)
<1>0. r # None /\ RunSound(r) /\ FilesSound(r)
  BY RunAssumption DEF StorageSound
<1>1. CASE Begin(r)
  <2>1. Frame(r)
    BY <1>1 DEF Begin, Finish, Continue, Frame, files, TypeOK
  <2>2. /\ UNCHANGED <<files, clean, hurt>> /\ task[r] = "idle" /\ result[r] = "none"
        /\ \/ task'[r] = "reserve" /\ op'[r] = "create" /\ result' = result
           \/ task'[r] = "done" /\ result'[r] = "failed" /\ op' = op
    BY <1>1, <1>0 DEF Begin, Finish, Continue, RunSound, TypeOK
  <2>3. Kept(r)
    BY <2>2, <1>0 DEF Kept, Writing, RunSound, FilesSound, files
  <2>4. QED
    BY <2>1, <2>3
<1>2. CASE Checked(r) \/ CheckFails(r)
  <2>1. /\ UNCHANGED <<files, clean, id, hurt>> /\ Continue(r, "none")
        /\ op[r] = "check"
        /\ \/ Finish(r, "returned") \/ Finish(r, "failed")
           \/ task[r] # "check" /\ UNCHANGED <<task, result>>
    BY <1>2 DEF Checked, CheckFails, ThreadEnds
  <2>2. Frame(r)
    BY <2>1 DEF Continue, Finish, Frame, files, TypeOK
  <2>3. Kept(r)
    BY <2>1, <1>0 DEF Continue, Finish, Kept, Writing, RunSound, FilesSound, files, TypeOK
  <2>4. QED
    BY <2>2, <2>3
<1>3. CASE Cancel(r)
  <2>1. Frame(r)
    BY <1>3 DEF Cancel, StartCleanup, Finish, Frame, files, TypeOK
  <2>2. Kept(r)
    <3>1. CASE task[r] = "write"
      BY <3>1, <1>3, <1>0 DEF Cancel, StartCleanup, Kept, Writing, RunSound, FilesSound,
         files, TypeOK
    <3>2. CASE task[r] # "write"
      BY <3>2, <1>3, <1>0 DEF Cancel, Finish, Kept, Writing, RunSound, FilesSound,
         files, TypeOK
    <3>3. QED
      BY <3>1, <3>2
  <2>3. QED
    BY <2>1, <2>2
<1>4. CASE Crash(r)
  <2>1. Frame(r)
    BY <1>4 DEF Crash, Continue, Frame, files, TypeOK
  <2>2. Kept(r)
    BY <1>4, <1>0 DEF Crash, Continue, Kept, Writing, RunSound, FilesSound, files, TypeOK
  <2>3. QED
    BY <2>1, <2>2
<1>5. CASE CancelQueued(r)
  <2>1. Frame(r)
    BY <1>5 DEF CancelQueued, StartCleanup, Finish, Continue, Frame, files, TypeOK
  <2>2. CASE task[r] = "write"
    <3>1. /\ task'[r] = "cleanup" /\ op'[r] = "none" /\ clean'[r] = "look"
          /\ op[r] = "verify" /\ clean[r] = "none" /\ result[r] = "none"
          /\ UNCHANGED <<files, id, result, hurt>>
      BY <2>2, <1>5, <1>0
      DEF CancelQueued, StartCleanup, Continue, RunSound, TypeOK
    <3>2. RunSound(r)'
      BY <3>1 DEF RunSound
    <3>3. FilesSound(r)'
      BY <3>1, <1>0 DEF FilesSound, files
    <3>4. QED
      BY <2>1, <3>1, <3>2, <3>3 DEF Kept, Writing
  <2>3. CASE task[r] = "cleanup"
    <3>1. /\ Finish(r, "cancelled") /\ clean' = [clean EXCEPT ![r] = "none"]
          /\ hurt' = hurt \cup {r} /\ UNCHANGED <<op, files, id>>
      BY <2>3, <1>5 DEF CancelQueued
    <3>2. /\ task'[r] = "done" /\ clean'[r] = "none" /\ result'[r] = "cancelled"
          /\ r \in hurt' /\ op[r] \notin {"create", "look"}
      BY <2>3, <3>1, <1>0 DEF Finish, RunSound, TypeOK
    <3>3. RunSound(r)'
      BY <3>1, <3>2 DEF RunSound
    <3>4. FilesSound(r)'
      BY <3>1, <3>2, <1>0 DEF FilesSound, files
    <3>5. QED
      BY <2>1, <3>2, <3>3, <3>4 DEF Kept, Writing
  <2>4. CASE task[r] \notin {"write", "cleanup"}
    <3>1. /\ Finish(r, "cancelled") /\ Continue(r, "none")
          /\ op[r] = "create" \/ task[r] = "check"
          /\ task[r] \in {"reserve", "check"}
          /\ UNCHANGED <<clean, hurt, files, id>>
      BY <2>4, <1>5 DEF CancelQueued
    <3>2. /\ task'[r] = "done" /\ op'[r] = "none" /\ result'[r] = "cancelled"
          /\ op[r] \in {"create", "check"} /\ clean[r] = "none"
      BY <3>1, <1>0 DEF Finish, Continue, RunSound, TypeOK
    <3>3. RunSound(r)'
      BY <3>1, <3>2 DEF RunSound
    <3>4. FilesSound(r)'
      BY <2>4, <3>1, <3>2, <1>0 DEF FilesSound, files
    <3>5. QED
      BY <2>1, <3>2, <3>3, <3>4 DEF Kept, Writing
  <2>5. QED
    BY <2>2, <2>3, <2>4
<1>6. QED
  BY <1>1, <1>2, <1>3, <1>4, <1>5

\* A step of the cleanup.
LEMMA CleanSound ==
  ASSUME TypeOK, StorageSound, NEW r \in Run, Clean(r)
  PROVE  Frame(r) /\ Kept(r)
<1>0. /\ r # None /\ id[r] \in Id /\ clean[r] # "none" /\ task[r] \in {"cleanup", "done"}
      /\ RunSound(r) /\ FilesSound(r)
  BY RunAssumption
  DEF StorageSound, RunSound, TypeOK, Clean, CleanLook, CleanVerify, CleanUnlink, CleanFails
<1>a. cause[r] # "returned"
  BY DEF TypeOK
\* What the end of the cleanup leaves.
<1>1. ASSUME CleanupEnds(r, "failed") \/ CleanupEnds(r, cause[r]),
             temp' = temp, final' = final, op' = op, id' = id,
             hurt' = hurt \/ hurt' = hurt \cup {r},
             reserved' = reserved \/ (clean[r] = "unlink" /\ Unlinked(id[r])),
             reserved'[id[r]] = r => r \in hurt'
      PROVE  Frame(r) /\ Kept(r)
  <2>1. /\ clean' = [clean EXCEPT ![r] = "none"]
        /\ \/ Finish(r, "failed") \/ Finish(r, cause[r])
           \/ task[r] # "cleanup" /\ UNCHANGED <<task, result>>
    BY <1>1 DEF CleanupEnds
  <2>2. \A i \in Id : \/ reserved'[i] = reserved[i]
                      \/ reserved'[i] = None /\ (reserved[i] = r \/ final[i] # None)
    BY <1>1, <1>0 DEF Unlinked, FilesSound, TypeOK
  <2>3. Frame(r)
    BY <1>1, <2>1, <2>2 DEF Finish, Frame, TypeOK
  <2>4. clean'[r] = "none" /\ task'[r] = "done"
        /\ \A i \in Id : reserved'[i] = r => reserved[i] = r
    BY <2>1, <2>2, <1>0 DEF Finish, TypeOK
  <2>5. Kept(r)
    BY <1>1, <2>1, <2>4, <1>0, <1>a
    DEF Finish, Kept, Writing, RunSound, FilesSound, TypeOK
  <2>6. QED
    BY <2>3, <2>5
\* What a step within it leaves.
<1>2. ASSUME NEW next \in {"verify", "unlink"}, clean' = [clean EXCEPT ![r] = next],
             UNCHANGED <<files, task, op, id, result, hurt>>,
             next = "unlink" => reserved[id[r]] = r
      PROVE  Frame(r) /\ Kept(r)
  <2>1. Frame(r)
    BY <1>2 DEF Frame, files, TypeOK
  <2>2. Kept(r)
    BY <1>2, <1>0 DEF Kept, Writing, RunSound, FilesSound, files, TypeOK
  <2>3. QED
    BY <2>1, <2>2
<1>3. CASE CleanLook(r)
  <2>1. CASE reserved[id[r]] = None
    <3>1. CleanupEnds(r, cause[r]) /\ UNCHANGED <<reserved, temp, final, op, id, hurt>>
      BY <2>1, <1>3 DEF CleanLook, files
    <3>2. QED
      BY <3>1, <2>1, <1>a, <1>1, <1>0
  <2>2. CASE reserved[id[r]] # None
    BY <2>2, <1>3, <1>2 DEF CleanLook
  <2>3. QED
    BY <2>1, <2>2
<1>4. CASE CleanVerify(r)
  <2>1. CASE reserved[id[r]] = r
    BY <2>1, <1>4, <1>2 DEF CleanVerify
  <2>2. CASE reserved[id[r]] # r
    <3>1. CleanupEnds(r, "failed") /\ UNCHANGED <<reserved, temp, final, op, id, hurt>>
      BY <2>2, <1>4 DEF CleanVerify, files
    <3>2. QED
      BY <3>1, <2>2, <1>1
  <2>3. QED
    BY <2>1, <2>2
<1>5. CASE CleanUnlink(r)
  <2>1. reserved'[id[r]] # r
    BY <1>5, <1>0 DEF CleanUnlink, Unlinked, TypeOK
  <2>2. QED
    BY <2>1, <1>a, <1>5, <1>1 DEF CleanUnlink
<1>6. CASE CleanFails(r)
  <2>1. CleanupEnds(r, "failed") /\ UNCHANGED <<reserved, temp, final, op, id>>
        /\ hurt' = hurt \cup {r}
    BY <1>6 DEF CleanFails, files
  <2>2. QED
    BY <2>1, <1>1
<1>7. QED
  BY <1>3, <1>4, <1>5, <1>6 DEF Clean

\* The invariant holds in every reachable state.
THEOREM SoundStorage == Spec => []StorageSound
<1>1. Init => StorageSound
  BY RunAssumption
  DEF Init, StorageSound, WritersExclusive, RunSound, FilesSound
<1>2. ASSUME TypeOK, StorageSound, [Next]_vars PROVE StorageSound'
  <2>1. ASSUME NEW r \in Run,
               \/ Begin(r) \/ Checked(r) \/ CheckFails(r)
               \/ Cancel(r) \/ CancelQueued(r) \/ Crash(r)
        PROVE  StorageSound'
    BY <1>2, <2>1, TaskSound, StepSound
  <2>2. ASSUME NEW r \in Run, Reserve(r) PROVE StorageSound'
    BY <1>2, <2>2, ReserveSound, ReservedSound, StepSound DEF Reserve
  <2>3. ASSUME NEW r \in Run, Write(r) PROVE StorageSound'
    BY <1>2, <2>3, WriteSound, StepSound
  <2>4. ASSUME NEW r \in Run, Clean(r) PROVE StorageSound'
    BY <1>2, <2>4, CleanSound, StepSound
  <2>5. CASE UNCHANGED vars
    BY <1>2, <2>5
    DEF vars, files, StorageSound, WritersExclusive, RunSound, FilesSound
  <2>6. QED
    BY <1>2, <2>1, <2>2, <2>3, <2>4, <2>5 DEF Next, Finished
<1>3. QED
  BY <1>1, <1>2, StorageTypes, PTL DEF Spec

\* Two tasks that wait for their writes never have the same id.
THEOREM WritersExclude == Spec => []WritersExclusive
<1>1. StorageSound => WritersExclusive
  BY DEF StorageSound
<1>2. QED
  BY <1>1, SoundStorage, PTL

\* A run that is over has left no reservation and no temporary file, unless it
\* crashed, a removal failed, or it was cancelled while it reserved or before
\* its cleanup began.
THEOREM RunsCleanUp == Spec => []NothingLeft
<1>1. ASSUME StorageSound PROVE NothingLeft
  <2>1. ASSUME NEW r \in Run, Over(r), r \notin hurt
        PROVE  r \notin temp /\ \A i \in Id : reserved[i] # r
    <3>1. FilesSound(r) /\ op[r] = "none" /\ clean[r] = "none" /\ task[r] = "done"
      BY <1>1, <2>1 DEF StorageSound, Over
    <3>2. QED
      BY <2>1, <3>1 DEF FilesSound
  <2>2. QED
    BY <2>1 DEF NothingLeft
<1>2. QED
  BY <1>1, SoundStorage, PTL
-----------------------------------------------------------------------------
(* The refinement.                                                         *)

\* Nobody is given a path by a step after which the same runs have returned.
LEMMA SameIssued ==
  ASSUME \A r \in Run : /\ result'[r] = "returned" <=> result[r] = "returned"
                        /\ result[r] = "returned" => id'[r] = id[r]
  PROVE  issued' = issued
BY DEF issued

\* Every step of the storage publishes one PDF, gives one path, or stutters.
LEMMA StorageStep ==
  ASSUME TypeOK, StorageSound, [Next]_vars
  PROVE  [Artifacts!Next]_<<final, issued>>
<1>1. \A r \in Run : result[r] # "none" => task[r] = "done"
  BY DEF StorageSound, RunSound
\* r ends with anything but a path.
<1>2. ASSUME NEW r \in Run, NEW how \in Result, how # "returned",
             Finish(r, how), task[r] # "done", id' = id
      PROVE  issued' = issued
  BY <1>2, <1>1, SameIssued DEF Finish, TypeOK
<1>3. ASSUME NEW r \in Run, Begin(r) PROVE issued' = issued /\ final' = final
  <2>1. /\ final' = final /\ task[r] = "idle"
        /\ \A s \in Run : s # r => id'[s] = id[s]
        /\ result' = result \/ result' = [result EXCEPT ![r] = "failed"]
    BY <1>3 DEF Begin, Finish, files, TypeOK
  <2>2. result[r] = "none"
    BY <2>1, <1>1
  <2>3. QED
    BY <2>1, <2>2, SameIssued DEF TypeOK
<1>4. ASSUME NEW r \in Run, Reserve(r) PROVE issued' = issued /\ final' = final
  <2>1. /\ final' = final /\ id' = id
        /\ \/ result' = result
           \/ task[r] # "done" /\ Finish(r, "exhausted")
           \/ task[r] # "done" /\ Finish(r, "failed")
    BY <1>4 DEF Reserve, CreateReservation, AlreadyReserved, AlreadyFinal, Reserved,
       ReserveFails, RemovalFails, ThreadEnds, files
  <2>2. QED
    BY <2>1, <1>2, SameIssued DEF Result
<1>5. ASSUME NEW r \in Run, Write(r)
      PROVE  issued' = issued /\ (final' = final \/ (Link(r) /\ final[id[r]] = None))
  <2>1. result' = result /\ id' = id
    BY <1>5 DEF Write, VerifyReservation, WriteTemporary, Link, DropTemporary,
       ReleaseReservation, Written, WriteFails, WriteRaises
  <2>2. final' = final \/ (Link(r) /\ final[id[r]] = None)
    <3>1. CASE Link(r)
      <4>1. final[id[r]] # None => final' = final
        BY <3>1 DEF Link
      <4>2. QED
        BY <3>1, <4>1
    <3>2. CASE ~Link(r)
      BY <3>2, <1>5 DEF Write, VerifyReservation, WriteTemporary, DropTemporary,
         ReleaseReservation, Written, WriteFails, files
    <3>3. QED
      BY <3>1, <3>2
  <2>3. QED
    BY <2>1, <2>2, SameIssued
<1>6. ASSUME NEW r \in Run, Clean(r) PROVE issued' = issued /\ final' = final
  <2>1. /\ final' = final /\ id' = id
        /\ \/ result' = result
           \/ task[r] # "done" /\ Finish(r, "failed")
           \/ task[r] # "done" /\ Finish(r, cause[r])
    BY <1>6 DEF Clean, CleanLook, CleanVerify, CleanUnlink, CleanFails, CleanupEnds,
       files
  <2>2. cause[r] \in Result /\ cause[r] # "returned"
    BY DEF TypeOK, Result
  <2>3. QED
    BY <2>1, <2>2, <1>2, SameIssued DEF Result
<1>7. ASSUME NEW r \in Run, CheckFails(r) \/ Cancel(r) \/ CancelQueued(r) \/ Crash(r)
      PROVE  issued' = issued /\ final' = final
  <2>1. /\ final' = final /\ id' = id
        /\ \/ result' = result
           \/ task[r] # "done" /\ Finish(r, "failed")
           \/ task[r] # "done" /\ Finish(r, "cancelled")
    BY <1>7 DEF CheckFails, Cancel, CancelQueued, StartCleanup, Crash, ThreadEnds, files
  <2>2. QED
    BY <2>1, <1>2, SameIssued DEF Result
<1>8. ASSUME NEW r \in Run, Checked(r)
      PROVE  final' = final /\ (issued' = issued \/ Artifacts!Issue(r, id[r]))
  <2>1. /\ final' = final /\ id' = id /\ op[r] = "check"
        /\ \/ task[r] = "check" /\ Finish(r, "returned")
           \/ result' = result
    BY <1>8 DEF Checked, ThreadEnds, files
  <2>2. CASE result' = result
    BY <2>1, <2>2, SameIssued
  <2>3. CASE task[r] = "check" /\ Finish(r, "returned")
    <3>1. final[id[r]] = r /\ id[r] \in Id /\ result[r] = "none"
      BY <2>1, <2>3, <1>1 DEF StorageSound, FilesSound
    <3>2. issued[r] = None /\ issued' = [issued EXCEPT ![r] = id[r]]
      BY <2>1, <2>3, <3>1 DEF issued, Finish, TypeOK
    <3>3. QED
      BY <2>1, <3>1, <3>2 DEF Artifacts!Issue
  <2>4. QED
    BY <2>1, <2>2, <2>3
<1>9. ASSUME NEW r \in Run, Link(r), final[id[r]] = None, issued' = issued
      PROVE  Artifacts!Publish(r, id[r]) /\ id[r] \in Id
  BY <1>9 DEF Link, Artifacts!Publish, TypeOK
<1>10. ASSUME NEW r \in Run, Begin(r) \/ Reserve(r) \/ Write(r) \/ Clean(r) \/ Checked(r)
                             \/ CheckFails(r) \/ Cancel(r) \/ CancelQueued(r)
                             \/ Crash(r)
       PROVE  [Artifacts!Next]_<<final, issued>>
  <2>1. CASE Write(r)
    BY <2>1, <1>5, <1>9 DEF Artifacts!Next
  <2>2. CASE Checked(r)
    <3>1. id[r] \in Id
      BY <2>2 DEF Checked, TypeOK
    <3>2. QED
      BY <2>2, <3>1, <1>8 DEF Artifacts!Next
  <2>3. CASE \/ Begin(r) \/ Reserve(r) \/ Clean(r) \/ CheckFails(r)
             \/ Cancel(r) \/ CancelQueued(r) \/ Crash(r)
    <3>1. issued' = issued /\ final' = final
      BY <2>3, <1>3, <1>4, <1>6, <1>7
    <3>2. QED
      BY <3>1
  <2>4. QED
    BY <1>10, <2>1, <2>2, <2>3
<1>11. CASE UNCHANGED vars
  BY <1>11, SameIssued DEF vars, files
<1>12. QED
  BY <1>10, <1>11 DEF Next, Finished

\* The storage keeps the promise of ArtifactStore.
THEOREM ArtifactsKept == Spec => KeepsArtifacts
<1>1. Init => Artifacts!Init
  BY DEF Init, Artifacts!Init, issued
<1>2. QED
  BY <1>1, StorageStep, StorageTypes, SoundStorage, PTL
  DEF Spec, KeepsArtifacts, Artifacts!Spec
=============================================================================
