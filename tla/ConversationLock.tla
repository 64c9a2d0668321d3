-------------------------- MODULE ConversationLock --------------------------
(***************************************************************************)
(* The stored session of one sender, and the tasks that load, change and   *)
(* save it: ConversationService.process_message and acknowledge_successful *)
(* _delivery under the sender's Redis lock (_RedisOwnershipLock), and the  *)
(* development route POST /quotes/generate, which takes no lock.           *)
(*                                                                         *)
(* save_session is not fenced: ensure_owned, the comparison of session ids *)
(* and the SET are three requests.  The lock's key expires under a task    *)
(* that stalls or whose renewals do not arrive.                            *)
(***************************************************************************)
EXTENDS Naturals

CONSTANTS
  Task,           \* tasks that take the lock, each with a token of its own
  Generator,      \* runs of POST /quotes/generate
  Free,           \* no key in Redis
  Orphan,         \* a token whose task is gone, or does not know it has it
  MaxCalls,       \* bound: calls
  MaxFaults,      \* bound: crashes, stalls, exceptions and lost replies
  MaxLateWrites,  \* bound: saves whose SET comes after the lock was lost
  MaxExpiries     \* bound: expirations of the session

Worker == Task \cup Generator

ASSUME WorkerAssumption ==
  /\ Task \cap Generator = {} /\ Free # Orphan
  /\ Free \notin Worker /\ Orphan \notin Worker
ASSUME BoundAssumption ==
  MaxCalls \in Nat \ {0} /\ MaxFaults \in Nat /\ MaxLateWrites \in Nat
  /\ MaxExpiries \in Nat

VARIABLES
  lock,      \* gdf:conversation-lock:<sender>: the token, or Free
  session,   \* gdf:session:<sender>
  at,        \* Worker -> where it stands
  op,        \* Task -> "turn" or "acknowledge"
  call,      \* Worker -> the number of the call it works for
  lost,      \* Task -> lost_error
  copy,      \* Worker -> the session it works on
  late,      \* Worker -> a SET it sent and no longer waits for, or NoSession
  calls,     \* calls so far: each has its number
  returned,  \* tasks' calls that returned normally
  expired,   \* calls whose update was in the session when it expired
  unlocked,  \* has a development request saved the session
  faults, lateWrites, expiries

local == <<op, call, lost>>
service == <<at, local, copy>>
outcome == <<returned, expired, unlocked>>
counts == <<faults, lateWrites, expiries>>
vars == <<lock, session, service, late, calls, outcome, counts>>

CallNumber == 0..MaxCalls
Quote == {"none", "prepared", "delivered", "confirmed", "generated"}

\* The updates a session has are the calls that made them.  It is identified
\* by the one that created it, since a session that was never saved is never
\* seen again.
Session == [id : CallNumber, updates : SUBSET CallNumber, quote : Quote]
NoSession == [id |-> 0, updates |-> {}, quote |-> "none"]

Location == {"idle", "waiting", "load", "work", "check", "compare", "write",
             "recheck", "release", "unwind"}

\* The sender is new, or has a session: what was done before counts as call 1.
Init ==
  /\ lock = Free
  /\ \/ session = NoSession /\ calls = 0
     \/ \E quote \in Quote :
          session = [id |-> 1, updates |-> {1}, quote |-> quote] /\ calls = 1
  /\ at = [w \in Worker |-> "idle"]
  /\ op = [w \in Task |-> "turn"]
  /\ call = [w \in Worker |-> 0]
  /\ lost = [w \in Task |-> FALSE]
  /\ copy = [w \in Worker |-> NoSession]
  /\ late = [w \in Worker |-> NoSession]
  /\ returned = session.updates /\ expired = {} /\ unlocked = FALSE
  /\ faults = 0 /\ lateWrites = 0 /\ expiries = 0

Go(w, place) == at' = [at EXCEPT ![w] = place]
Fault == faults < MaxFaults /\ faults' = faults + 1

\* A call begins; a call ends, and with it w's local variables.
Begin(w, place) ==
  /\ at[w] = "idle"
  /\ calls < MaxCalls
  /\ calls' = calls + 1
  /\ call' = [call EXCEPT ![w] = calls + 1]
  /\ Go(w, place)
End(w) ==
  /\ Go(w, "idle")
  /\ call' = [call EXCEPT ![w] = 0]
  /\ lost' = [v \in Task |-> v # w /\ lost[v]]
  /\ copy' = [copy EXCEPT ![w] = NoSession]
  /\ UNCHANGED op
-----------------------------------------------------------------------------
(* _RedisOwnershipLock.                                                    *)

\* process_message, or acknowledge_successful_delivery, with a new token.
Call(w) ==
  /\ Begin(w, "waiting")
  /\ \E o \in {"turn", "acknowledge"} : op' = [op EXCEPT ![w] = o]
  /\ UNCHANGED <<lock, session, lost, copy, late, outcome, counts>>

\* SET NX PX.
Acquire(w) ==
  /\ at[w] = "waiting"
  /\ lock = Free
  /\ lock' = w
  /\ Go(w, "load")
  /\ UNCHANGED <<session, local, copy, late, calls, outcome, counts>>

\* The key is set and the reply is lost: the client's own retry finds the key
\* taken and the task waits on, or the task raises.
AcquireUnnoticed(w) ==
  /\ at[w] = "waiting"
  /\ lock = Free
  /\ Fault
  /\ lock' = Orphan
  /\ UNCHANGED service \/ End(w)
  /\ UNCHANGED <<session, late, calls, outcome, lateWrites, expiries>>

\* lock_wait_seconds have passed, with a last look at the lock.
GiveUp(w) ==
  /\ at[w] = "waiting"
  /\ lock # Free
  /\ End(w)
  /\ UNCHANGED <<lock, session, late, calls, outcome, counts>>

\* Mutant: the token in the key is not looked at.
EnsureOwnedBlindly(w, next) ==
  /\ Go(w, next)
  /\ UNCHANGED <<lost, faults>>

\* ensure_owned: the token is still there and its lease is refreshed; or it is
\* not, or the request fails, and the task raises.
EnsureOwned(w, next) ==
  \/ /\ ~lost[w] /\ lock = w
     /\ Go(w, next)
     /\ UNCHANGED <<lost, faults>>
  \/ /\ lost[w] \/ lock # w \/ faults < MaxFaults
     /\ faults' = IF lost[w] \/ lock # w THEN faults ELSE faults + 1
     /\ lost' = [lost EXCEPT ![w] = TRUE]
     /\ Go(w, "unwind")

\* _RELEASE_LOCK_SCRIPT.
Released(w) == IF lock = w THEN Free ELSE lock

\* The lock once w's task is gone: what it still holds is nobody's.
Abandoned(w) == IF lock = w THEN Orphan ELSE lock

\* __aexit__ of a task that raises.
Unwind(w) ==
  /\ at[w] = "unwind"
  /\ lock' = Released(w)
  /\ End(w)
  /\ UNCHANGED <<session, late, calls, outcome, counts>>

\* __aexit__ of a task that returns: it raises after all when the renewals
\* have noted a loss meanwhile.
Release(w) ==
  /\ at[w] = "release"
  /\ lock' = Released(w)
  /\ End(w)
  /\ returned' = IF lost[w] THEN returned ELSE returned \cup {call[w]}
  /\ UNCHANGED <<session, late, calls, expired, unlocked, counts>>

\* The release request fails, executed or not, and with it the call.
ReleaseFails(w) ==
  /\ at[w] \in {"release", "unwind"}
  /\ Fault
  /\ lock' \in {Released(w), Abandoned(w)}
  /\ End(w)
  /\ UNCHANGED <<session, late, calls, outcome, lateWrites, expiries>>

\* w is stopped where it is: its SET may have been executed, may be, or not.
StopSaving(w) ==
  /\ at[w] = "write"
  /\ \/ /\ session' \in {session, copy[w]}
        /\ UNCHANGED <<late, lateWrites>>
     \/ /\ lateWrites < MaxLateWrites
        /\ lateWrites' = lateWrites + 1
        /\ late' = [late EXCEPT ![w] = copy[w]]
        /\ UNCHANGED session
Stop(w) ==
  \/ at[w] # "write" /\ UNCHANGED <<session, late, lateWrites>>
  \/ StopSaving(w)

\* _renew_loop finds the token gone, notes the loss and cancels the task; one
\* that is in __aexit__ already goes on.
RenewalRefused(w) ==
  /\ at[w] \notin {"idle", "waiting"}
  /\ lock # w /\ ~lost[w]
  /\ lost' = [lost EXCEPT ![w] = TRUE]
  /\ Stop(w)
  /\ Go(w, IF at[w] \in {"release", "unwind"} THEN at[w] ELSE "unwind")
  /\ UNCHANGED <<lock, op, call, copy, calls, outcome, faults, expiries>>

\* A renewal fails, the coordinator's heartbeat cancels the run, or something
\* in the block raises.
Interrupted(w) ==
  /\ at[w] \in {"load", "work", "check", "compare", "write", "recheck"}
  /\ Fault
  /\ lost' \in {lost, [lost EXCEPT ![w] = TRUE]}
  /\ Stop(w)
  /\ Go(w, "unwind")
  /\ UNCHANGED <<lock, op, call, copy, calls, outcome, expiries>>

\* The process dies.
Crash(w) ==
  /\ at[w] # "idle"
  /\ Fault
  /\ lock' = Abandoned(w)
  /\ Stop(w)
  /\ End(w)
  /\ UNCHANGED <<calls, outcome, expiries>>
-----------------------------------------------------------------------------
(* The session.                                                            *)

\* get_session: a fresh one when the key is absent.
Load(w) ==
  /\ at[w] = "load"
  /\ copy' = [copy EXCEPT ![w] = session]
  /\ Go(w, "work")
  /\ UNCHANGED <<lock, session, local, late, calls, outcome, counts>>

\* s with the update of call n, and its quotation as quote.
Updated(s, n, quote) ==
  [id |-> IF s.id = 0 THEN n ELSE s.id,
   updates |-> s.updates \cup {n},
   quote |-> quote]

\* What a turn can make of the quotation: leave it, change it, prepare it,
\* confirm what was delivered and generate what is confirmed.
AfterTurn(quote) ==
  {quote, "none", "prepared"}
  \cup (IF quote = "delivered" THEN {"confirmed", "generated"} ELSE {})
  \cup (IF quote = "confirmed" THEN {"generated"} ELSE {})

Change(w, quote) ==
  copy' = [copy EXCEPT ![w] = Updated(copy[w], call[w], quote)]

\* The agent's turn.
Turn(w) ==
  /\ at[w] = "work" /\ op[w] = "turn"
  /\ \E quote \in AfterTurn(copy[w].quote) : Change(w, quote)
  /\ Go(w, "check")
  /\ UNCHANGED <<lock, session, local, late, calls, outcome, counts>>

\* mark_ready_for_confirmation: of the prepared preview, or it raises.
MarkReady(w) ==
  /\ at[w] = "work" /\ op[w] = "acknowledge"
  /\ \/ copy[w].quote = "prepared" /\ Change(w, "delivered") /\ Go(w, "check")
     \/ Go(w, "unwind") /\ UNCHANGED copy
  /\ UNCHANGED <<lock, session, local, late, calls, outcome, counts>>

CheckOwned(w) ==
  /\ \/ at[w] = "check" /\ EnsureOwned(w, "compare")
     \/ at[w] = "recheck" /\ EnsureOwned(w, "release")
  /\ UNCHANGED <<lock, session, op, call, copy, late, calls, outcome,
                 lateWrites, expiries>>

\* save_session reads the key, and refuses to replace another session.
SameSession(w) ==
  /\ at[w] = "compare"
  /\ session.id \in {0, copy[w].id}
  /\ Go(w, "write")
  /\ UNCHANGED <<lock, session, local, copy, late, calls, outcome, counts>>
OtherSession(w) ==
  /\ at[w] = "compare"
  /\ session.id \notin {0, copy[w].id}
  /\ IF w \in Task THEN Go(w, "unwind") /\ UNCHANGED <<local, copy>> ELSE End(w)
  /\ UNCHANGED <<lock, session, late, calls, outcome, counts>>

\* Mutant: a SET that is not acknowledged counts as a save.
WriteUnconfirmed(w) ==
  /\ at[w] = "write"
  /\ session' \in {session, copy[w]}
  /\ IF w \in Task THEN Go(w, "recheck") /\ UNCHANGED <<local, copy>> ELSE End(w)
  /\ UNCHANGED <<lock, late, calls, outcome, counts>>

\* Mutant: a development request checks a lock it never had.
WriteChecked(w) ==
  /\ at[w] = "write"
  /\ session' = copy[w]
  /\ Go(w, "recheck")
  /\ UNCHANGED <<lock, local, copy, late, calls, outcome, counts>>

\* The SET, acknowledged.
Write(w) ==
  /\ at[w] = "write"
  /\ session' = copy[w]
  /\ IF w \in Task THEN Go(w, "recheck") /\ UNCHANGED <<local, copy>> ELSE End(w)
  /\ unlocked' = (unlocked \/ w \in Generator)
  /\ UNCHANGED <<lock, late, calls, returned, expired, counts>>

\* A SET whose task no longer waits for it reaches Redis after all.
LateWrite(w) ==
  /\ late[w] # NoSession
  /\ session' = late[w]
  /\ late' = [late EXCEPT ![w] = NoSession]
  /\ UNCHANGED <<lock, service, calls, outcome, counts>>

\* POST /quotes/generate: no lock.
CallGenerate(g) ==
  /\ Begin(g, "load")
  /\ UNCHANGED <<lock, session, op, lost, copy, late, outcome, counts>>

\* generate: creates the confirmed quotation, replays the generated one, and
\* raises otherwise.
Generate(g) ==
  /\ at[g] = "work"
  /\ \/ copy[g].quote = "confirmed" /\ Change(g, "generated") /\ UNCHANGED local
     \/ copy[g].quote = "generated" /\ UNCHANGED <<local, copy>>
  /\ Go(g, "compare")
  /\ UNCHANGED <<lock, session, late, calls, outcome, counts>>
RefuseGenerate(g) ==
  /\ at[g] = "work"
  /\ copy[g].quote \notin {"confirmed", "generated"}
  /\ End(g)
  /\ UNCHANGED <<lock, session, late, calls, outcome, counts>>
-----------------------------------------------------------------------------
(* Expiries.                                                               *)

\* The lease passes over a task that still runs: its renewals are late.  For
\* that to happen between ensure_owned, which refreshes the lease, and the SET
\* two requests later, the save itself must be late.
LeasePasses(w) ==
  /\ lock = w
  /\ Fault
  /\ IF at[w] \in {"compare", "write"}
     THEN lateWrites < MaxLateWrites /\ lateWrites' = lateWrites + 1
     ELSE UNCHANGED lateWrites
  /\ lock' = Free
  /\ UNCHANGED <<session, service, late, calls, outcome, expiries>>

\* Mutant: the key is set without an expiry.
KeyStays == FALSE

\* The lease of a token without a task passes.
LeaseRunsOut ==
  /\ lock = Orphan
  /\ lock' = Free
  /\ UNCHANGED <<session, service, late, calls, outcome, counts>>

\* The session expires: session_ttl_seconds after its last save.
SessionExpires ==
  /\ session # NoSession
  /\ expiries < MaxExpiries
  /\ expiries' = expiries + 1
  /\ expired' = expired \cup session.updates
  /\ session' = NoSession
  /\ UNCHANGED <<lock, service, late, calls, returned, unlocked, faults,
                 lateWrites>>
-----------------------------------------------------------------------------
\* The bounded calls have ended, rather than waiting for each other.
Finished ==
  /\ calls = MaxCalls
  /\ \A w \in Worker : at[w] = "idle"
  /\ UNCHANGED vars

\* The steps of a task that is scheduled, and those of a development request.
Step(w) ==
  \/ Acquire(w) \/ GiveUp(w)
  \/ Load(w) \/ Turn(w) \/ MarkReady(w) \/ CheckOwned(w)
  \/ SameSession(w) \/ OtherSession(w) \/ Write(w)
  \/ Release(w) \/ Unwind(w) \/ RenewalRefused(w)
Request(g) ==
  \/ CallGenerate(g) \/ Load(g) \/ Generate(g) \/ RefuseGenerate(g)
  \/ SameSession(g) \/ OtherSession(g) \/ Write(g)

Next ==
  \/ \E w \in Task :
       \/ Call(w) \/ Step(w)
       \/ AcquireUnnoticed(w) \/ ReleaseFails(w) \/ Interrupted(w) \/ Crash(w)
       \/ LeasePasses(w) \/ LateWrite(w)
  \/ \E g \in Generator : Request(g)
  \/ LeaseRunsOut \/ SessionExpires \/ Finished

Spec == Init /\ [][Next]_vars

\* A scheduled task goes on (the agent's requests time out), and so does Redis
\* time.
FairSpec ==
  Spec /\ WF_vars(LeaseRunsOut) /\ \A w \in Task : WF_vars(Step(w))
-----------------------------------------------------------------------------
(* Properties.                                                             *)

\* Types; a development request is never anywhere in the lock.
TypeOK ==
  /\ lock \in Task \cup {Free, Orphan}
  /\ session \in Session
  /\ at \in [Worker -> Location]
  /\ \A g \in Generator : at[g] \in {"idle", "load", "work", "compare", "write"}
  /\ op \in [Task -> {"turn", "acknowledge"}]
  /\ call \in [Worker -> CallNumber]
  /\ lost \in [Task -> BOOLEAN]
  /\ copy \in [Worker -> Session]
  /\ late \in [Worker -> Session]
  /\ calls \in CallNumber
  /\ returned \subseteq CallNumber /\ expired \subseteq CallNumber
  /\ unlocked \in BOOLEAN
  /\ faults \in Nat /\ lateWrites \in Nat /\ expiries \in Nat

\* Every save so far was executed while its task had the lock.
Guarded == lateWrites = 0 /\ ~unlocked

\* "test_same_sender_turns_are_serialized_without_lost_cart_updates": a save
\* under the lock never drops an update that is in the stored session, however
\* often leases pass under a running agent, renewals fail and tasks die.
UpdatesKept ==
  [][Guarded' => session' = NoSession \/ session.updates \subseteq session'.updates]_session

\* The same of every save, also one that is executed late.
EverySaveKeeps ==
  [][session' = NoSession \/ session.updates \subseteq session'.updates]_session

\* process_message, "Persistence completes before the result is returned":
\* what a task has returned stays in the session until that expires.
ReturnedUpdatesStored ==
  Guarded => returned \subseteq session.updates \cup expired

\* A task that lost the lock never frees or writes for the one that has it:
\* of two tasks past the check before their save, only one is to write.
OneSaving ==
  Guarded => \A v, w \in Task :
    v # w /\ at[v] \in {"compare", "write"} => at[w] \notin {"compare", "write"}

\* What carries the proofs: past its check a task has the lock, what it is to
\* save contains what is stored, and what it has saved is still there.
SavingSound(w) ==
  /\ late[w] = NoSession
  /\ at[w] \in {"compare", "write"} => lock = w
  /\ at[w] \in {"work", "check", "compare", "write"} /\ lock = w
       => session.updates \subseteq copy[w].updates
  /\ at[w] \in {"check", "compare", "write"} => call[w] \in copy[w].updates
  /\ at[w] \in {"recheck", "release"} => call[w] \in session.updates \cup expired

SavesSound ==
  /\ Guarded => \A w \in Task : SavingSound(w)
  /\ ReturnedUpdatesStored

\* The lock never stays with a task that ended or died: the sender can always
\* be served again.
LockReturns == []<>(lock = Free)
=============================================================================
