-------------------------- MODULE QuotationStorage --------------------------
(***************************************************************************)
(* PDFService.generate_quotation_pdf over LocalQuotationStorage: the files *)
(* of an id (its reservation, a temporary file per run, the final PDF) and *)
(* the runs that create and remove them.                                   *)
(*                                                                         *)
(* Every storage method runs in a thread (asyncio.to_thread), which goes   *)
(* on when the task that waits for it is cancelled, unless its work is     *)
(* still queued for a thread; the task may then start the cleanup in       *)
(* another thread beside it.  Tokens are random: a run stands for its      *)
(* token and for its PDF.                                                  *)
(***************************************************************************)
EXTENDS Naturals

CONSTANTS
  Run,        \* calls of generate_quotation_pdf
  Id,         \* quotation ids
  None,       \* no file, no id
  MaxFaults,  \* bound: crashes and failing file operations
  MaxCancels  \* bound: cancellations

ASSUME RunAssumption == None \notin Run /\ None \notin Id
ASSUME FaultAssumption == MaxFaults \in Nat /\ MaxCancels \in Nat

VARIABLES
  reserved,  \* Id -> the token in <id>.reserve, or None
  temp,      \* runs whose <id>.<token>.tmp exists
  final,     \* Id -> the run whose PDF is <id>.pdf, or None
  task,      \* Run -> what the coroutine waits for
  op,        \* Run -> where its storage thread stands
  clean,     \* Run -> where its cleanup thread stands
  id,        \* Run -> its quotation id, or None
  cause,     \* Run -> what it cleans up after
  result,    \* Run -> how it ended
  hurt,      \* runs that crashed, were cancelled while they reserved or
             \* before their cleanup began, or had a removal fail
  faults, cancels

files == <<reserved, temp, final>>
vars == <<files, task, op, clean, id, cause, result, hurt, faults, cancels>>

Task == {"idle", "reserve", "write", "check", "cleanup", "done"}
Op == {"none", "create", "look", "verify", "temp", "link", "drop", "release",
       "confirm", "check"}
Cleanup == {"none", "look", "verify", "unlink"}
Result == {"none", "returned", "exhausted", "failed", "cancelled"}

Init ==
  /\ reserved = [i \in Id |-> None]
  /\ temp = {}
  /\ final = [i \in Id |-> None]
  /\ task = [r \in Run |-> "idle"]
  /\ op = [r \in Run |-> "none"]
  /\ clean = [r \in Run |-> "none"]
  /\ id = [r \in Run |-> None]
  /\ cause = [r \in Run |-> "none"]
  /\ result = [r \in Run |-> "none"]
  /\ hurt = {}
  /\ faults = 0 /\ cancels = 0

Fault == faults < MaxFaults /\ faults' = faults + 1
Continue(r, next) == op' = [op EXCEPT ![r] = next]
Unlinked(i) == reserved' = [reserved EXCEPT ![i] = None]

\* r's task ends.
Finish(r, how) ==
  /\ task' = [task EXCEPT ![r] = "done"]
  /\ result' = [result EXCEPT ![r] = how]

\* r's thread is done, and its task, if it still waits for it, ends.
ThreadEnds(r, waits, how) ==
  /\ Continue(r, "none")
  /\ IF task[r] = waits THEN Finish(r, how) ELSE UNCHANGED <<task, result>>

\* r's thread is done, and its task, if it still waits, starts the next.
ThreadReturns(r, waits, next, thread) ==
  IF task[r] = waits
  THEN task' = [task EXCEPT ![r] = next] /\ Continue(r, thread)
  ELSE Continue(r, "none") /\ UNCHANGED task

\* The reservation of r is to be removed.
StartCleanup(r, why) ==
  /\ task' = [task EXCEPT ![r] = "cleanup"]
  /\ cause' = [cause EXCEPT ![r] = why]
  /\ clean' = [clean EXCEPT ![r] = "look"]
-----------------------------------------------------------------------------
(* reserve.                                                                *)

\* Mutant: reserve is called without an id.
BeginUnnamed(r) ==
  /\ task[r] = "idle"
  /\ task' = [task EXCEPT ![r] = "reserve"] /\ Continue(r, "create")
  /\ UNCHANGED <<files, clean, id, cause, result, hurt, faults, cancels>>

\* The id is drawn, the PDF rendered, or not, and reserve is called.
Begin(r) ==
  /\ task[r] = "idle"
  /\ \E i \in Id : id' = [id EXCEPT ![r] = i]
  /\ \/ task' = [task EXCEPT ![r] = "reserve"] /\ Continue(r, "create")
        /\ UNCHANGED result
     \/ Finish(r, "failed") /\ UNCHANGED op
  /\ UNCHANGED <<files, clean, cause, hurt, faults, cancels>>

\* O_CREAT | O_EXCL, and the token.
CreateReservation(r) ==
  /\ op[r] = "create"
  /\ reserved[id[r]] = None
  /\ reserved' = [reserved EXCEPT ![id[r]] = r]
  /\ Continue(r, "look")
  /\ UNCHANGED <<temp, final, task, clean, id, cause, result, hurt, faults, cancels>>

\* The id was given by the caller: no other is tried.
AlreadyReserved(r) ==
  /\ op[r] = "create"
  /\ reserved[id[r]] # None
  /\ ThreadEnds(r, "reserve", "exhausted")
  /\ UNCHANGED <<files, clean, id, cause, hurt, faults, cancels>>
AlreadyFinal(r) ==
  /\ op[r] = "look"
  /\ final[id[r]] # None
  /\ Unlinked(id[r])
  /\ ThreadEnds(r, "reserve", "exhausted")
  /\ UNCHANGED <<temp, final, clean, id, cause, hurt, faults, cancels>>

\* A task that was cancelled meanwhile never learns of the reservation.
Reserved(r) ==
  /\ op[r] = "look"
  /\ final[id[r]] = None
  /\ ThreadReturns(r, "reserve", "write", "verify")
  /\ UNCHANGED <<files, clean, id, cause, result, hurt, faults, cancels>>

ReserveFails(r) ==
  /\ op[r] \in {"create", "look"}
  /\ Fault
  /\ IF op[r] = "look" THEN Unlinked(id[r]) ELSE UNCHANGED reserved
  /\ ThreadEnds(r, "reserve", "failed")
  /\ UNCHANGED <<temp, final, clean, id, cause, hurt, cancels>>

\* The removal fails, and the reservation stays.
RemovalFails(r) ==
  /\ op[r] = "look"
  /\ Fault
  /\ ThreadEnds(r, "reserve", "failed")
  /\ hurt' = hurt \cup {r}
  /\ UNCHANGED <<files, clean, id, cause, cancels>>
-----------------------------------------------------------------------------
(* write, exists and read.                                                 *)

\* write raises: the task, if it still waits, cleans up.
WriteRaises(r) ==
  /\ Continue(r, "none")
  /\ IF task[r] = "write" THEN StartCleanup(r, "failed")
     ELSE UNCHANGED <<task, cause, clean>>
  /\ UNCHANGED result

VerifyReservation(r) ==
  /\ op[r] = "verify"
  /\ IF reserved[id[r]] = r
     THEN Continue(r, "temp") /\ UNCHANGED <<task, cause, clean, result>>
     ELSE WriteRaises(r)
  /\ UNCHANGED <<files, id, hurt, faults, cancels>>

WriteTemporary(r) ==
  /\ op[r] = "temp"
  /\ temp' = temp \cup {r}
  /\ Continue(r, "link")
  /\ UNCHANGED <<reserved, final, task, clean, id, cause, result, hurt, faults, cancels>>

\* Mutant: the temporary file replaces what is there.
LinkReplacing(r) ==
  /\ op[r] = "link"
  /\ final' = [final EXCEPT ![id[r]] = r]
  /\ Continue(r, "drop")
  /\ UNCHANGED <<temp, task, cause, clean, result>>
  /\ UNCHANGED <<reserved, id, hurt, faults, cancels>>

\* os.link fails if the final PDF exists.
Link(r) ==
  /\ op[r] = "link"
  /\ IF final[id[r]] = None
     THEN /\ final' = [final EXCEPT ![id[r]] = r]
          /\ Continue(r, "drop")
          /\ UNCHANGED <<temp, task, cause, clean, result>>
     ELSE /\ temp' = temp \ {r}
          /\ UNCHANGED final
          /\ WriteRaises(r)
  /\ UNCHANGED <<reserved, id, hurt, faults, cancels>>

DropTemporary(r) ==
  /\ op[r] = "drop"
  /\ temp' = temp \ {r}
  /\ Continue(r, "release")
  /\ UNCHANGED <<reserved, final, task, clean, id, cause, result, hurt, faults, cancels>>

\* The reservation is removed, whoever's it is by now.
ReleaseReservation(r) ==
  /\ op[r] = "release"
  /\ IF reserved[id[r]] # None
     THEN /\ Unlinked(id[r])
          /\ Continue(r, "confirm")
          /\ UNCHANGED <<task, cause, clean, result>>
     ELSE UNCHANGED reserved /\ WriteRaises(r)
  /\ UNCHANGED <<temp, final, id, hurt, faults, cancels>>

\* write finds the PDF, and the task goes on to check it again.
Written(r) ==
  /\ op[r] = "confirm"
  /\ ThreadReturns(r, "write", "check", "check")
  /\ UNCHANGED <<files, clean, id, cause, result, hurt, faults, cancels>>

\* A file operation of write fails; removing the temporary file may, too.
WriteFails(r) ==
  /\ op[r] \in {"verify", "temp", "link", "drop", "release", "confirm"}
  /\ Fault
  /\ \/ temp' = temp \ {r} /\ UNCHANGED hurt
     \/ op[r] \in {"temp", "link", "drop"} /\ temp' = temp \cup {r}
        /\ hurt' = hurt \cup {r}
  /\ WriteRaises(r)
  /\ UNCHANGED <<reserved, final, id, cancels>>

Checked(r) ==
  /\ op[r] = "check"
  /\ ThreadEnds(r, "check", "returned")
  /\ UNCHANGED <<files, clean, id, cause, hurt, faults, cancels>>
CheckFails(r) ==
  /\ op[r] = "check"
  /\ Fault
  /\ ThreadEnds(r, "check", "failed")
  /\ UNCHANGED <<files, clean, id, cause, hurt, cancels>>
-----------------------------------------------------------------------------
(* Cancellation and cleanup.                                               *)

\* Mutant: a cancelled write is not cleaned up after.
CancelBare(r) ==
  /\ task[r] \in {"reserve", "write", "check", "cleanup"}
  /\ cancels < MaxCancels /\ cancels' = cancels + 1
  /\ Finish(r, "cancelled") /\ UNCHANGED <<cause, clean>>
  /\ hurt' = IF task[r] = "reserve" THEN hurt \cup {r} ELSE hurt
  /\ UNCHANGED <<files, op, id, faults>>

\* The task is cancelled; its threads go on.  A second cancellation ends the
\* wait for a cleanup, too.
Cancel(r) ==
  /\ task[r] \in {"reserve", "write", "check", "cleanup"}
  /\ cancels < MaxCancels /\ cancels' = cancels + 1
  /\ IF task[r] = "write"
     THEN StartCleanup(r, "cancelled") /\ UNCHANGED result
     ELSE Finish(r, "cancelled") /\ UNCHANGED <<cause, clean>>
  /\ hurt' = IF task[r] = "reserve" THEN hurt \cup {r} ELSE hurt
  /\ UNCHANGED <<files, op, id, faults>>

\* No thread has taken up what the task waits for: that is dropped with it.
\* The cleanup after a cancellation is shielded, the one after a failure is
\* not, and without it the reservation stays.
CancelQueued(r) ==
  /\ cancels < MaxCancels /\ cancels' = cancels + 1
  /\ \/ /\ (op[r] = "create" /\ task[r] = "reserve") \/ task[r] = "check"
        /\ Finish(r, "cancelled") /\ Continue(r, "none")
        /\ UNCHANGED <<cause, clean, hurt>>
     \/ /\ op[r] = "verify" /\ task[r] = "write"
        /\ StartCleanup(r, "cancelled") /\ Continue(r, "none")
        /\ UNCHANGED <<result, hurt>>
     \/ /\ clean[r] = "look" /\ task[r] = "cleanup" /\ cause[r] = "failed"
        /\ Finish(r, "cancelled") /\ clean' = [clean EXCEPT ![r] = "none"]
        /\ hurt' = hurt \cup {r}
        /\ UNCHANGED <<op, cause>>
  /\ UNCHANGED <<files, id, faults>>

\* storage.cancel returns or raises; what it raises takes the place of a
\* cancellation.
CleanupEnds(r, how) ==
  /\ clean' = [clean EXCEPT ![r] = "none"]
  /\ IF task[r] = "cleanup" THEN Finish(r, how) ELSE UNCHANGED <<task, result>>

CleanLook(r) ==
  /\ clean[r] = "look"
  /\ IF reserved[id[r]] = None THEN CleanupEnds(r, cause[r])
     ELSE clean' = [clean EXCEPT ![r] = "verify"] /\ UNCHANGED <<task, result>>
  /\ UNCHANGED <<files, op, id, cause, hurt, faults, cancels>>

CleanVerify(r) ==
  /\ clean[r] = "verify"
  /\ IF reserved[id[r]] = r
     THEN clean' = [clean EXCEPT ![r] = "unlink"] /\ UNCHANGED <<task, result>>
     ELSE CleanupEnds(r, "failed")
  /\ UNCHANGED <<files, op, id, cause, hurt, faults, cancels>>

CleanUnlink(r) ==
  /\ clean[r] = "unlink"
  /\ CleanupEnds(r, IF reserved[id[r]] = None THEN "failed" ELSE cause[r])
  /\ Unlinked(id[r])
  /\ UNCHANGED <<temp, final, op, id, cause, hurt, faults, cancels>>

CleanFails(r) ==
  /\ clean[r] # "none"
  /\ Fault
  /\ CleanupEnds(r, "failed")
  /\ hurt' = hurt \cup {r}
  /\ UNCHANGED <<files, op, id, cause, cancels>>

\* r's process dies.
Crash(r) ==
  /\ task[r] \notin {"idle", "done"} \/ op[r] # "none" \/ clean[r] # "none"
  /\ Fault
  /\ task' = [task EXCEPT ![r] = "done"]
  /\ Continue(r, "none")
  /\ clean' = [clean EXCEPT ![r] = "none"]
  /\ hurt' = hurt \cup {r}
  /\ UNCHANGED <<files, id, cause, result, cancels>>
-----------------------------------------------------------------------------
Reserve(r) == CreateReservation(r) \/ AlreadyReserved(r) \/ AlreadyFinal(r)
              \/ Reserved(r) \/ ReserveFails(r) \/ RemovalFails(r)
Write(r) == VerifyReservation(r) \/ WriteTemporary(r) \/ Link(r)
            \/ DropTemporary(r) \/ ReleaseReservation(r) \/ Written(r)
            \/ WriteFails(r)
Clean(r) == CleanLook(r) \/ CleanVerify(r) \/ CleanUnlink(r) \/ CleanFails(r)

\* Every run is over, threads included.
Over(r) == task[r] = "done" /\ op[r] = "none" /\ clean[r] = "none"
Finished == (\A r \in Run : Over(r)) /\ UNCHANGED vars

Next ==
  \/ \E r \in Run : \/ Begin(r) \/ Reserve(r) \/ Write(r)
                    \/ Checked(r) \/ CheckFails(r)
                    \/ Cancel(r) \/ CancelQueued(r) \/ Clean(r) \/ Crash(r)
  \/ Finished

Spec == Init /\ [][Next]_vars
-----------------------------------------------------------------------------
(* Properties.                                                             *)

\* Types; a run that has begun has an id.
TypeOK ==
  /\ reserved \in [Id -> Run \cup {None}]
  /\ temp \subseteq Run
  /\ final \in [Id -> Run \cup {None}]
  /\ task \in [Run -> Task] /\ op \in [Run -> Op] /\ clean \in [Run -> Cleanup]
  /\ id \in [Run -> Id \cup {None}]
  /\ cause \in [Run -> {"none", "failed", "cancelled"}]
  /\ result \in [Run -> Result]
  /\ hurt \subseteq Run
  /\ faults \in Nat /\ cancels \in Nat
  /\ \A r \in Run :
       task[r] # "idle" \/ op[r] # "none" \/ clean[r] # "none" => id[r] \in Id

\* "Atomically finalize a complete PDF without overwriting an artifact": the
\* storage keeps the promise of ArtifactStore, with runs that draw the same id,
\* threads that outlive their tasks, and crashes.
issued == [r \in Run |-> IF result[r] = "returned" THEN id[r] ELSE None]
Artifacts == INSTANCE ArtifactStore
KeepsArtifacts == Artifacts!Spec

\* "Opaque proof that this adapter exclusively reserved one quotation ID": two
\* runs may come to write under one id, but the task of one of them no longer
\* waits for it.
WritersExclusive ==
  \A r, s \in Run :
    /\ r # s /\ id[r] = id[s]
    /\ op[r] \in {"verify", "temp", "link"} /\ op[s] \in {"verify", "temp", "link"}
    => task[r] # "write" \/ task[s] # "write"

\* test_storage_failure_..._cleans_reservation, and "Remove only a matching
\* unfinished reservation": a run that is over has left no reservation and no
\* temporary file, unless it crashed, a removal failed, or it was cancelled
\* while it reserved or before its cleanup began.
NothingLeft ==
  \A r \in Run : Over(r) /\ r \notin hurt
                   => r \notin temp /\ \A i \in Id : reserved[i] # r

\* What carries the proofs.  How a run's task and threads go together:
RunSound(r) ==
  /\ op[r] \in {"create", "look"} =>
       /\ clean[r] = "none"
       /\ task[r] = "reserve" \/ (task[r] = "done" /\ r \in hurt)
  /\ clean[r] # "none" => task[r] \in {"cleanup", "done"}
  /\ task[r] = "idle" => op[r] = "none" /\ r \notin hurt
  /\ task[r] = "reserve" => op[r] \in {"create", "look"}
  /\ task[r] = "write" =>
       op[r] \in {"verify", "temp", "link", "drop", "release", "confirm"}
  /\ task[r] = "check" => op[r] = "check"
  /\ task[r] = "cleanup" => clean[r] # "none"
  /\ result[r] # "none" => task[r] = "done"

\* and its files: its reservation is there until its PDF or another's is, its
\* PDF is there from the link on, and what is there has somebody to remove it.
FilesSound(r) ==
  /\ \/ op[r] = "look" \/ clean[r] = "unlink"
     \/ task[r] = "write" /\ op[r] \in {"verify", "temp", "link"}
     => reserved[id[r]] = r \/ final[id[r]] # None
  /\ \/ op[r] \in {"drop", "release", "confirm", "check"}
     \/ result[r] = "returned"
     => id[r] \in Id /\ final[id[r]] = r
  /\ \A i \in Id : reserved[i] = r =>
       /\ id[r] = i
       /\ \/ op[r] = "look" \/ clean[r] # "none" \/ r \in hurt
          \/ task[r] = "write" /\ op[r] # "confirm"
  /\ r \in temp => op[r] \in {"link", "drop"} \/ r \in hurt

StorageSound == WritersExclusive /\ \A r \in Run : RunSound(r) /\ FilesSound(r)
=============================================================================
