----------------------- MODULE ConversationLockProofs -----------------------
(***************************************************************************)
(* Proofs about ConversationLock: types, and that saves keep what is       *)
(* stored as long as none is late and no development request has saved.    *)
(***************************************************************************)
EXTENDS ConversationLock, TLAPS

LEMMA Numbers == ASSUME NEW n \in CallNumber PROVE n \in Nat /\ n <= MaxCalls
BY BoundAssumption DEF CallNumber

LEMMA SessionShape ==
  ASSUME NEW s \in Session
  PROVE  /\ s.id \in CallNumber /\ s.updates \subseteq CallNumber
         /\ s.quote \in Quote
BY DEF Session

LEMMA NewSessionShape == NoSession \in Session /\ NoSession.updates = {}
BY BoundAssumption DEF NoSession, Session, Quote, CallNumber

LEMMA UpdatedShape ==
  ASSUME NEW s \in Session, NEW n \in CallNumber, NEW quote \in Quote
  PROVE  /\ Updated(s, n, quote) \in Session
         /\ Updated(s, n, quote).updates = s.updates \cup {n}
<1>1. 0 \in CallNumber
  BY BoundAssumption DEF CallNumber
<1>2. QED
  BY <1>1, SessionShape DEF Updated, Session

\* What a change of w's copy leaves.
LEMMA ChangeFacts ==
  ASSUME TypeOK, NEW w \in Worker, NEW quote \in Quote, Change(w, quote)
  PROVE  /\ copy' \in [Worker -> Session]
         /\ copy'[w].updates = copy[w].updates \cup {call[w]}
         /\ \A v \in Worker : v # w => copy'[v] = copy[v]
<1> DEFINE new == Updated(copy[w], call[w], quote)
<1>1. copy \in [Worker -> Session] /\ call[w] \in CallNumber
      /\ copy[w] \in Session
  BY DEF TypeOK
<1>2. /\ new \in Session /\ new.updates = copy[w].updates \cup {call[w]}
  BY <1>1, UpdatedShape
<1>3. copy' = [copy EXCEPT ![w] = new]
  BY DEF Change
<1> HIDE DEF new
<1>4. QED
  BY <1>1, <1>2, <1>3

\* What the end of w's call leaves.
LEMMA EndFacts ==
  ASSUME TypeOK, NEW w \in Worker, End(w)
  PROVE  /\ at' \in [Worker -> Location] /\ at'[w] = "idle"
         /\ call' \in [Worker -> CallNumber]
         /\ lost' \in [Task -> BOOLEAN]
         /\ copy' \in [Worker -> Session]
         /\ op' \in [Task -> {"turn", "acknowledge"}]
         /\ \A v \in Worker : v # w => /\ at'[v] = at[v] /\ copy'[v] = copy[v]
                                       /\ call'[v] = call[v]
<1>1. 0 \in CallNumber
  BY BoundAssumption DEF CallNumber
<1>2. QED
  BY <1>1, NewSessionShape DEF End, Go, TypeOK, Location

\* What stopping w leaves of the session.
LEMMA StopFacts ==
  ASSUME TypeOK, NEW w \in Worker, Stop(w)
  PROVE  /\ session' \in Session /\ late' \in [Worker -> Session]
         /\ lateWrites' \in Nat
         /\ session' # session => at[w] = "write" /\ session' = copy[w]
         /\ lateWrites' = 0 => late' = late
         /\ lateWrites \in Nat /\ lateWrites' \in {lateWrites, lateWrites + 1}
<1>1. CASE at[w] # "write" /\ UNCHANGED <<session, late, lateWrites>>
  BY <1>1 DEF TypeOK
<1>2. CASE /\ at[w] = "write"
           /\ session' \in {session, copy[w]}
           /\ UNCHANGED <<late, lateWrites>>
  BY <1>2 DEF TypeOK
<1>3. CASE /\ at[w] = "write"
           /\ lateWrites < MaxLateWrites
           /\ lateWrites' = lateWrites + 1
           /\ late' = [late EXCEPT ![w] = copy[w]]
           /\ UNCHANGED session
  <2>1. late' \in [Worker -> Session]
    BY <1>3 DEF TypeOK
  <2>2. lateWrites' \in Nat /\ lateWrites' # 0
    BY <1>3 DEF TypeOK
  <2>3. QED
    BY <1>3, <2>1, <2>2 DEF TypeOK
<1>4. QED
  BY <1>1, <1>2, <1>3 DEF Stop, StopSaving

-----------------------------------------------------------------------------
(* Types.                                                                  *)

LEMMA TypeInit == Init => TypeOK
<1>1. 0 \in CallNumber /\ 1 \in CallNumber
  BY BoundAssumption DEF CallNumber
<1>2. Init => /\ unlocked \in BOOLEAN
              /\ lost \in [Task -> BOOLEAN]
  BY DEF Init
<1>3. Init => /\ faults \in Nat /\ lateWrites \in Nat /\ expiries \in Nat
              /\ lock \in Task \cup {Free, Orphan}
              /\ op \in [Task -> {"turn", "acknowledge"}]
              /\ \A g \in Generator : at[g] = "idle"
  BY DEF Init, Worker
<1>4. Init => /\ session \in Session /\ calls \in CallNumber
  <2>1. ASSUME NEW quote \in Quote
        PROVE  [id |-> 1, updates |-> {1}, quote |-> quote] \in Session
    BY <1>1 DEF Session
  <2>2. QED
    BY <1>1, <2>1, NewSessionShape DEF Init
<1>5. Init => /\ at \in [Worker -> Location]
              /\ call \in [Worker -> CallNumber]
              /\ copy \in [Worker -> Session] /\ late \in [Worker -> Session]
              /\ returned = session.updates /\ expired = {}
  BY <1>1, NewSessionShape DEF Init, Location
<1>6. QED
  BY <1>2, <1>3, <1>4, <1>5, SessionShape DEF TypeOK

LEMMA TypeStep == TypeOK /\ [Next]_vars => TypeOK'
<1> SUFFICES ASSUME TypeOK, [Next]_vars PROVE TypeOK'
  OBVIOUS
<1> USE DEF Worker, service, local, outcome, counts
<1>a. ASSUME Fault PROVE faults' \in Nat
  BY <1>a DEF Fault, TypeOK
<1>b. ASSUME NEW w \in Worker, NEW place \in Location, Go(w, place)
      PROVE  at' \in [Worker -> Location]
  BY <1>b DEF Go, TypeOK
<1>c. ASSUME NEW w \in Task, NEW place \in Location, Go(w, place)
      PROVE  \A g \in Generator : at'[g] = at[g]
  BY <1>c, WorkerAssumption DEF Go, TypeOK
<1>d. ASSUME NEW w \in Task, End(w)
      PROVE  \A g \in Generator : at'[g] = at[g]
  BY <1>d, WorkerAssumption DEF End, Go, TypeOK
<1>e. ASSUME NEW w \in Task
      PROVE  /\ Released(w) \in Task \cup {Free, Orphan}
             /\ Abandoned(w) \in Task \cup {Free, Orphan}
  BY DEF Released, Abandoned, TypeOK
<1>f. ASSUME NEW w \in Worker, NEW place, Begin(w, place)
      PROVE  calls' \in CallNumber /\ call' \in [Worker -> CallNumber]
  <2>1. calls \in Nat /\ calls + 1 \in CallNumber
    BY <1>f, BoundAssumption DEF Begin, TypeOK, CallNumber
  <2>2. QED
    BY <1>f, <2>1 DEF Begin, TypeOK
<1>1. ASSUME NEW w \in Task, Call(w) PROVE TypeOK'
  <2>1. /\ at' \in [Worker -> Location]
        /\ \A g \in Generator : at'[g] = at[g]
    BY <1>1, <1>b, <1>c DEF Call, Begin, Location
  <2>2. op' \in [Task -> {"turn", "acknowledge"}]
    BY <1>1 DEF Call, TypeOK
  <2>3. calls' \in CallNumber /\ call' \in [Worker -> CallNumber]
    BY <1>1, <1>f DEF Call
  <2>4. QED
    BY <1>1, <2>1, <2>2, <2>3 DEF Call, TypeOK
<1>2. ASSUME NEW w \in Task, Acquire(w) PROVE TypeOK'
  BY <1>2, <1>b, <1>c DEF Acquire, TypeOK, Location
<1>3. ASSUME NEW w \in Task, GiveUp(w) PROVE TypeOK'
  BY <1>3, EndFacts, <1>d DEF GiveUp, TypeOK
<1>4. ASSUME NEW w \in Task, Load(w) PROVE TypeOK'
  BY <1>4, <1>b, <1>c DEF Load, TypeOK, Location
<1>5. ASSUME NEW w \in Task, Turn(w) PROVE TypeOK'
  <2>1. PICK quote \in AfterTurn(copy[w].quote) : Change(w, quote)
    BY <1>5 DEF Turn
  <2>2. quote \in Quote
    BY <2>1, SessionShape DEF AfterTurn, TypeOK, Quote
  <2>3. copy' \in [Worker -> Session]
    BY <2>1, <2>2, ChangeFacts
  <2>4. QED
    BY <1>5, <2>3, <1>b, <1>c DEF Turn, TypeOK, Location
<1>6. ASSUME NEW w \in Task, MarkReady(w) PROVE TypeOK'
  <2>1. copy' \in [Worker -> Session]
    BY <1>6, ChangeFacts DEF MarkReady, TypeOK, Quote
  <2>2. QED
    BY <1>6, <2>1, <1>b, <1>c DEF MarkReady, TypeOK, Location
<1>7. ASSUME NEW w \in Task, CheckOwned(w) PROVE TypeOK'
  <2>1. ASSUME NEW next \in Location, EnsureOwned(w, next)
        PROVE  /\ at' \in [Worker -> Location]
               /\ \A g \in Generator : at'[g] = at[g]
               /\ lost' \in [Task -> BOOLEAN] /\ faults' \in Nat
    <3>1. /\ at' \in [Worker -> Location]
          /\ \A g \in Generator : at'[g] = at[g]
      <4>1. Go(w, next) \/ Go(w, "unwind")
        BY <2>1 DEF EnsureOwned
      <4>2. "unwind" \in Location
        BY DEF Location
      <4>3. QED
        BY <4>1, <4>2, <1>b, <1>c
    <3>2. lost' \in [Task -> BOOLEAN]
      <4>1. lost' = lost \/ lost' = [lost EXCEPT ![w] = TRUE]
        BY <2>1 DEF EnsureOwned
      <4>2. QED
        BY <4>1 DEF TypeOK
    <3>3. faults' \in Nat
      <4>1. faults' = faults \/ faults' = faults + 1
        BY <2>1 DEF EnsureOwned
      <4>2. QED
        BY <4>1 DEF TypeOK
    <3>4. QED
      BY <3>1, <3>2, <3>3
  <2>2. QED
    BY <1>7, <2>1 DEF CheckOwned, TypeOK, Location
<1>8. ASSUME NEW w \in Task, SameSession(w) PROVE TypeOK'
  BY <1>8, <1>b, <1>c DEF SameSession, TypeOK, Location
<1>9. ASSUME NEW w \in Task, OtherSession(w) PROVE TypeOK'
  BY <1>9, <1>b, <1>c DEF OtherSession, TypeOK, Location
<1>10. ASSUME NEW w \in Task, Write(w) PROVE TypeOK'
  BY <1>10, <1>b, <1>c DEF Write, TypeOK, Location
<1>11. ASSUME NEW w \in Task, Release(w) PROVE TypeOK'
  BY <1>11, EndFacts, <1>d, <1>e DEF Release, TypeOK
<1>12. ASSUME NEW w \in Task, Unwind(w) PROVE TypeOK'
  BY <1>12, EndFacts, <1>d, <1>e DEF Unwind, TypeOK
<1>13. ASSUME NEW w \in Task, RenewalRefused(w) PROVE TypeOK'
  BY <1>13, StopFacts, <1>b, <1>c DEF RenewalRefused, TypeOK, Location
<1>14. ASSUME NEW w \in Task, AcquireUnnoticed(w) PROVE TypeOK'
  BY <1>14, EndFacts, <1>a, <1>d DEF AcquireUnnoticed, TypeOK
<1>15. ASSUME NEW w \in Task, ReleaseFails(w) PROVE TypeOK'
  BY <1>15, EndFacts, <1>a, <1>d, <1>e DEF ReleaseFails, TypeOK
<1>16. ASSUME NEW w \in Task, Interrupted(w) PROVE TypeOK'
  BY <1>16, StopFacts, <1>a, <1>b, <1>c DEF Interrupted, TypeOK, Location
<1>17. ASSUME NEW w \in Task, Crash(w) PROVE TypeOK'
  BY <1>17, StopFacts, EndFacts, <1>a, <1>d, <1>e DEF Crash, TypeOK
<1>18. ASSUME NEW w \in Task, LeasePasses(w) PROVE TypeOK'
  BY <1>18, <1>a DEF LeasePasses, TypeOK
<1>19. ASSUME NEW w \in Task, LateWrite(w) PROVE TypeOK'
  BY <1>19, NewSessionShape DEF LateWrite, TypeOK
<1>20. ASSUME NEW g \in Generator, Request(g) PROVE TypeOK'
  <2>a. ASSUME NEW place \in {"idle", "load", "work", "compare", "write"},
               Go(g, place)
        PROVE  /\ at' \in [Worker -> Location]
               /\ \A h \in Generator :
                    at'[h] \in {"idle", "load", "work", "compare", "write"}
    BY <2>a DEF Go, TypeOK, Location
  <2>b. End(g) => \A h \in Generator :
                    at'[h] \in {"idle", "load", "work", "compare", "write"}
    BY <2>a DEF End
  <2>c. g \notin Task
    BY WorkerAssumption
  <2>1. CASE CallGenerate(g)
    BY <2>1, <2>a, <1>f DEF CallGenerate, Begin, TypeOK
  <2>2. CASE Load(g)
    BY <2>2, <2>a DEF Load, TypeOK
  <2>3. CASE Generate(g)
    <3>1. copy' \in [Worker -> Session]
          /\ UNCHANGED local
      BY <2>3, ChangeFacts DEF Generate, TypeOK, Quote
    <3>2. QED
      BY <2>3, <3>1, <2>a DEF Generate, TypeOK
  <2>4. CASE RefuseGenerate(g)
    BY <2>4, <2>b, EndFacts DEF RefuseGenerate, TypeOK
  <2>5. CASE SameSession(g)
    BY <2>5, <2>a DEF SameSession, TypeOK
  <2>6. CASE OtherSession(g)
    BY <2>6, <2>b, <2>c, EndFacts DEF OtherSession, TypeOK
  <2>7. CASE Write(g)
    BY <2>7, <2>b, <2>c, EndFacts DEF Write, TypeOK
  <2>8. QED
    BY <1>20, <2>1, <2>2, <2>3, <2>4, <2>5, <2>6, <2>7 DEF Request
<1>21. CASE LeaseRunsOut
  BY <1>21 DEF LeaseRunsOut, TypeOK
<1>22. CASE SessionExpires
  BY <1>22, NewSessionShape, SessionShape DEF SessionExpires, TypeOK
<1>23. CASE Finished \/ UNCHANGED vars
  BY <1>23 DEF Finished, vars, TypeOK
<1>24. QED
  BY <1>1, <1>2, <1>3, <1>4, <1>5, <1>6, <1>7, <1>8, <1>9, <1>10, <1>11,
     <1>12, <1>13, <1>14, <1>15, <1>16, <1>17, <1>18, <1>19, <1>20, <1>21,
     <1>22, <1>23 DEF Next, Step

\* The state stays within its types, for any tasks, requests and bounds.
THEOREM LockTypes == Spec => []TypeOK
BY TypeInit, TypeStep, PTL DEF Spec

-----------------------------------------------------------------------------
(* Saves, while none is late and no development request has saved.         *)

\* A step that keeps what is stored.
Kept ==
  /\ session' = NoSession \/ session.updates \subseteq session'.updates
  /\ session.updates \cup expired \subseteq session'.updates \cup expired'

LEMMA SoundInit == Init => SavesSound
BY NewSessionShape DEF Init, SavesSound, SavingSound, ReturnedUpdatesStored, Worker

\* A task that a step of another leaves alone.
LEMMA Frame ==
  ASSUME NEW v \in Task, SavingSound(v), Kept,
         at'[v] = at[v], call'[v] = call[v], copy'[v] = copy[v],
         late'[v] = late[v],
         at[v] \in {"compare", "write"} => lock' = v,
         lock' = v => lock = v,
         lock = v => session'.updates \subseteq session.updates
  PROVE  SavingSound(v)'
BY DEF SavingSound, Kept

\* A task that is not between its load and its release.
LEMMA Outside ==
  ASSUME NEW v \in Task, SavingSound(v), late'[v] = late[v],
         at'[v] \in {"idle", "waiting", "load", "unwind"}
  PROVE  SavingSound(v)'
BY DEF SavingSound

\* A stopped task's SET, if it is executed, is its owner's.
LEMMA StopKeeps ==
  ASSUME TypeOK, NEW w \in Task, SavingSound(w), Stop(w), Guarded',
         UNCHANGED expired
  PROVE  /\ Kept /\ late' = late
         /\ \A v \in Task : v # w /\ lock = v => session' = session
<1>1. /\ late' = late
      /\ session' # session => at[w] = "write" /\ session' = copy[w]
  BY StopFacts DEF Worker, Guarded
<1>2. session' # session => lock = w /\ session.updates \subseteq session'.updates
  BY <1>1 DEF SavingSound
<1>3. QED
  BY <1>1, <1>2 DEF Kept

\* A step of w: it may return, leaves the others alone, and moves the lock only
\* when it is w's or free.
Returns(w) ==
  \/ returned' = returned
  \/ at[w] = "release" /\ returned' = returned \cup {call[w]}
Alone(w) == \A v \in Task : v # w =>
  /\ at'[v] = at[v] /\ call'[v] = call[v] /\ copy'[v] = copy[v]
  /\ lock = v => session'.updates \subseteq session.updates
Holds(w) ==
  \/ lock' = lock
  \/ lock \in {w, Free} /\ lock' \in {w, Free, Orphan}

\* No step takes a late save or a development request's back.
LEMMA GuardedBefore ==
  ASSUME TypeOK, [Next]_vars, Guarded' PROVE Guarded
<1> USE DEF service, local, outcome, counts
<1>1. ASSUME NEW w \in Worker, Stop(w) PROVE lateWrites' \in {lateWrites, lateWrites + 1}
  BY <1>1, StopFacts
<1>2. lateWrites' \in {lateWrites, lateWrites + 1}
  BY <1>1 DEF Next, Step, Request, vars, Call, Acquire, GiveUp, Load, Turn,
     MarkReady, CheckOwned, SameSession, OtherSession, Write, Release, Unwind,
     RenewalRefused, AcquireUnnoticed, ReleaseFails, Interrupted, Crash,
     LeasePasses, LateWrite, CallGenerate, Generate, RefuseGenerate,
     LeaseRunsOut, SessionExpires, Finished, Worker
<1>3. unlocked => unlocked'
  BY DEF Next, Step, Request, vars, Call, Acquire, GiveUp, Load, Turn,
     MarkReady, CheckOwned, SameSession, OtherSession, Write, Release, Unwind,
     RenewalRefused, AcquireUnnoticed, ReleaseFails, Interrupted, Crash,
     LeasePasses, LateWrite, CallGenerate, Generate, RefuseGenerate,
     LeaseRunsOut, SessionExpires, Finished
<1>4. QED
  BY <1>2, <1>3 DEF Guarded, TypeOK

LEMMA SoundStep ==
  ASSUME TypeOK, SavesSound, [Next]_vars, Guarded'
  PROVE  SavesSound' /\ Kept
<1> USE DEF service, local, outcome, counts
<1>0. Guarded
  BY GuardedBefore
<1>a. ASSUME NEW w \in Task PROVE SavingSound(w) /\ w \in Worker
  BY <1>0 DEF SavesSound, Worker
<1>b. Task \subseteq Worker
  BY DEF Worker
\* What remains to be shown of a step of w.
<1>c. ASSUME NEW w \in Task, Kept, SavingSound(w)', late' = late,
             Returns(w), Alone(w), Holds(w)
      PROVE  SavesSound'
  <2>1. ASSUME NEW v \in Task, v # w PROVE SavingSound(v)'
    <3>1. /\ at'[v] = at[v] /\ call'[v] = call[v] /\ copy'[v] = copy[v]
          /\ lock = v => session'.updates \subseteq session.updates
      BY <1>c, <2>1 DEF Alone
    <3>2. /\ at[v] \in {"compare", "write"} => lock' = v
          /\ lock' = v => lock = v
      BY <1>c, <2>1, <1>a, WorkerAssumption DEF SavingSound, Worker, Holds
    <3>3. QED
      BY <3>1, <3>2, <1>c, <1>a, Frame
  <2>2. returned' \subseteq session.updates \cup expired
    BY <1>c, <1>a, <1>0 DEF SavesSound, SavingSound, ReturnedUpdatesStored, Returns
  <2>3. ReturnedUpdatesStored'
    BY <2>2, <1>c DEF ReturnedUpdatesStored, Kept
  <2>4. QED
    BY <1>c, <2>1, <2>3 DEF SavesSound
<1>e. ASSUME UNCHANGED <<session, expired>> PROVE Kept
  BY <1>e DEF Kept
<1>1. ASSUME NEW w \in Task, Call(w) \/ Acquire(w)
      PROVE  SavesSound' /\ Kept
  <2>1. CASE Call(w)
    <3>1. SavingSound(w)'
      BY <2>1, <1>a, <1>b, Outside DEF Call, Begin, Go, TypeOK
    <3>2. Alone(w) /\ Returns(w) /\ Holds(w) /\ Kept /\ late' = late
      BY <2>1, <1>b, <1>e DEF Call, Begin, Go, TypeOK, Alone, Returns, Holds
    <3>3. QED
      BY <3>1, <3>2, <1>c
  <2>2. CASE Acquire(w)
    <3>1. SavingSound(w)'
      BY <2>2, <1>a, <1>b, Outside DEF Acquire, Go, TypeOK
    <3>2. Alone(w) /\ Returns(w) /\ Holds(w) /\ Kept /\ late' = late
      BY <2>2, <1>b, <1>e DEF Acquire, Go, TypeOK, Alone, Returns, Holds
    <3>3. QED
      BY <3>1, <3>2, <1>c
  <2>3. QED
    BY <1>1, <2>1, <2>2
<1>2. ASSUME NEW w \in Task, GiveUp(w) PROVE SavesSound' /\ Kept
  <2>1. SavingSound(w)'
    BY <1>2, <1>a, EndFacts, Outside DEF GiveUp
  <2>2. Alone(w) /\ Returns(w) /\ Holds(w) /\ Kept /\ late' = late
    BY <1>2, <1>b, <1>e, EndFacts DEF GiveUp, Alone, Returns, Holds
  <2>3. QED
    BY <2>1, <2>2, <1>c
<1>3. ASSUME NEW w \in Task, Load(w) PROVE SavesSound' /\ Kept
  <2>1. SavingSound(w)'
    BY <1>3, <1>a, <1>b DEF Load, Go, TypeOK, SavingSound
  <2>2. Alone(w) /\ Returns(w) /\ Holds(w) /\ Kept /\ late' = late
    BY <1>3, <1>b, <1>e DEF Load, Go, TypeOK, Alone, Returns, Holds
  <2>3. QED
    BY <2>1, <2>2, <1>c
<1>4. ASSUME NEW w \in Task, Turn(w) \/ MarkReady(w)
      PROVE  SavesSound' /\ Kept
  <2>1. /\ UNCHANGED <<lock, session, local, late, returned, expired>>
        /\ at[w] = "work"
    BY <1>4 DEF Turn, MarkReady
  <2>2. \/ at' = [at EXCEPT ![w] = "unwind"] /\ copy' = copy
        \/ /\ at' = [at EXCEPT ![w] = "check"]
           /\ \E quote \in Quote : Change(w, quote)
    <3>1. CASE Turn(w)
      <4>1. AfterTurn(copy[w].quote) \subseteq Quote
        BY <1>a, SessionShape DEF AfterTurn, TypeOK, Quote
      <4>2. QED
        BY <3>1, <4>1 DEF Turn, Go
    <3>2. CASE MarkReady(w)
      BY <3>2 DEF MarkReady, Go, Quote
    <3>3. QED
      BY <1>4, <3>1, <3>2
  <2>3. CASE at' = [at EXCEPT ![w] = "unwind"] /\ copy' = copy
    <3>1. SavingSound(w)'
      BY <2>1, <2>3, <1>a, <1>b, Outside DEF TypeOK
    <3>2. Alone(w) /\ Returns(w) /\ Holds(w) /\ Kept /\ late' = late
      BY <2>1, <2>3, <1>b, <1>e DEF TypeOK, Alone, Returns, Holds
    <3>3. QED
      BY <3>1, <3>2, <1>c
  <2>4. CASE /\ at' = [at EXCEPT ![w] = "check"]
             /\ \E quote \in Quote : Change(w, quote)
    <3>1. /\ copy'[w].updates = copy[w].updates \cup {call[w]}
          /\ \A v \in Worker : v # w => copy'[v] = copy[v]
      BY <2>4, <1>a, ChangeFacts
    <3>2. SavingSound(w)'
      BY <2>1, <2>4, <3>1, <1>a, <1>b DEF SavingSound, TypeOK
    <3>3. Alone(w) /\ Returns(w) /\ Holds(w) /\ Kept /\ late' = late
      BY <2>1, <2>4, <3>1, <1>b, <1>e DEF TypeOK, Alone, Returns, Holds
    <3>4. QED
      BY <3>2, <3>3, <1>c
  <2>5. QED
    BY <2>2, <2>3, <2>4
<1>5. ASSUME NEW w \in Task, CheckOwned(w) PROVE SavesSound' /\ Kept
  <2>1. /\ UNCHANGED <<lock, session, call, copy, late, returned, expired>>
        /\ \/ at[w] = "check" /\ lock = w /\ at' = [at EXCEPT ![w] = "compare"]
           \/ at[w] = "recheck" /\ at' = [at EXCEPT ![w] = "release"]
           \/ at' = [at EXCEPT ![w] = "unwind"]
    BY <1>5 DEF CheckOwned, EnsureOwned, Go
  <2>2. SavingSound(w)'
    BY <2>1, <1>a, <1>b DEF SavingSound, TypeOK
  <2>3. Alone(w) /\ Returns(w) /\ Holds(w) /\ Kept /\ late' = late
    BY <2>1, <1>b, <1>e DEF TypeOK, Alone, Returns, Holds
  <2>4. QED
    BY <2>2, <2>3, <1>c
<1>6. ASSUME NEW w \in Task, SameSession(w) \/ OtherSession(w)
      PROVE  SavesSound' /\ Kept
  <2>1. /\ UNCHANGED <<lock, session, call, copy, late, returned, expired>>
        /\ at[w] = "compare"
        /\ \/ at' = [at EXCEPT ![w] = "write"]
           \/ at' = [at EXCEPT ![w] = "unwind"]
    BY <1>6 DEF SameSession, OtherSession, Go
  <2>2. SavingSound(w)'
    BY <2>1, <1>a, <1>b DEF SavingSound, TypeOK
  <2>3. Alone(w) /\ Returns(w) /\ Holds(w) /\ Kept /\ late' = late
    BY <2>1, <1>b, <1>e DEF TypeOK, Alone, Returns, Holds
  <2>4. QED
    BY <2>2, <2>3, <1>c
<1>7. ASSUME NEW w \in Task, Write(w) PROVE SavesSound' /\ Kept
  <2>1. /\ UNCHANGED <<lock, call, copy, late, returned, expired>>
        /\ at[w] = "write" /\ at' = [at EXCEPT ![w] = "recheck"]
        /\ session' = copy[w]
    BY <1>7 DEF Write, Go
  <2>2. lock = w /\ Kept
    BY <2>1, <1>a DEF SavingSound, Kept
  <2>3. SavingSound(w)'
    BY <2>1, <1>a, <1>b DEF SavingSound, TypeOK
  <2>4. Alone(w) /\ Returns(w) /\ Holds(w) /\ Kept /\ late' = late
    BY <2>1, <2>2, <1>b DEF TypeOK, Alone, Returns, Holds
  <2>5. QED
    BY <2>3, <2>4, <1>c
<1>8. ASSUME NEW w \in Task,
             \/ Release(w) \/ Unwind(w) \/ ReleaseFails(w) \/ AcquireUnnoticed(w)
      PROVE  SavesSound' /\ Kept
  <2>1. /\ UNCHANGED <<session, late, expired>>
        /\ Holds(w) /\ Returns(w)
        /\ \/ End(w)
           \/ UNCHANGED service /\ at[w] = "waiting"
    <3>1. CASE Release(w) \/ Unwind(w)
      BY <3>1 DEF Release, Unwind, Released, Holds, Returns
    <3>2. CASE ReleaseFails(w)
      BY <3>2 DEF ReleaseFails, Released, Abandoned, Holds, Returns
    <3>3. CASE AcquireUnnoticed(w)
      BY <3>3 DEF AcquireUnnoticed, Holds, Returns
    <3>4. QED
      BY <1>8, <3>1, <3>2, <3>3
  <2>2. SavingSound(w)'
    <3>1. at'[w] \in {"idle", "waiting"}
      BY <2>1, <1>a, EndFacts
    <3>2. QED
      BY <2>1, <3>1, <1>a, Outside
  <2>3. \A v \in Task : v # w => /\ at'[v] = at[v] /\ call'[v] = call[v]
                                 /\ copy'[v] = copy[v]
    BY <2>1, <1>a, EndFacts DEF Worker
  <2>4. Alone(w) /\ Returns(w) /\ Holds(w) /\ Kept /\ late' = late
    BY <2>1, <2>3, <1>e DEF Alone, Returns, Holds
  <2>5. QED
    BY <2>2, <2>4, <1>c
<1>9. ASSUME NEW w \in Task, RenewalRefused(w) \/ Interrupted(w)
      PROVE  SavesSound' /\ Kept
  <2>1. /\ Stop(w) /\ UNCHANGED <<lock, call, copy, returned, expired>>
        /\ \/ at' = [at EXCEPT ![w] = "unwind"]
           \/ at[w] \in {"release", "unwind"} /\ at' = at
    BY <1>9 DEF RenewalRefused, Interrupted, Go, TypeOK
  <2>2. /\ Kept /\ late' = late
        /\ \A v \in Task : v # w /\ lock = v => session' = session
    BY <2>1, <1>a, StopKeeps
  <2>3. SavingSound(w)'
    BY <2>1, <2>2, <1>a, <1>b DEF SavingSound, Kept, TypeOK
  <2>4. Alone(w) /\ Returns(w) /\ Holds(w) /\ Kept /\ late' = late
    BY <2>1, <2>2, <1>b DEF TypeOK, Alone, Returns, Holds
  <2>5. QED
    BY <2>3, <2>4, <1>c
<1>10. ASSUME NEW w \in Task, Crash(w) PROVE SavesSound' /\ Kept
  <2>1. /\ Stop(w) /\ UNCHANGED <<returned, expired>> /\ End(w)
        /\ Holds(w)
    BY <1>10 DEF Crash, Abandoned, Holds
  <2>2. /\ Kept /\ late' = late
        /\ \A v \in Task : v # w /\ lock = v => session' = session
    BY <2>1, <1>a, StopKeeps
  <2>3. SavingSound(w)'
    BY <2>1, <2>2, <1>a, EndFacts, Outside
  <2>4. \A v \in Task : v # w => /\ at'[v] = at[v] /\ call'[v] = call[v]
                                 /\ copy'[v] = copy[v]
    BY <2>1, <1>a, EndFacts DEF Worker
  <2>5. Alone(w) /\ Returns(w) /\ Holds(w) /\ Kept /\ late' = late
    BY <2>1, <2>2, <2>4 DEF Alone, Returns, Holds
  <2>6. QED
    BY <2>3, <2>5, <1>c
<1>11. ASSUME NEW w \in Task, LeasePasses(w) PROVE SavesSound' /\ Kept
  <2>1. /\ UNCHANGED <<session, service, late, returned, expired>>
        /\ lock = w /\ lock' = Free /\ at[w] \notin {"compare", "write"}
    BY <1>11 DEF LeasePasses, TypeOK, Guarded
  <2>2. SavingSound(w)'
    BY <2>1, <1>a, WorkerAssumption DEF SavingSound
  <2>3. Alone(w) /\ Returns(w) /\ Holds(w) /\ Kept /\ late' = late
    BY <2>1, <1>e DEF Alone, Returns, Holds
  <2>4. QED
    BY <2>2, <2>3, <1>c
<1>12. ASSUME NEW w \in Task, LateWrite(w) PROVE SavesSound' /\ Kept
  BY <1>12, <1>a DEF LateWrite, SavingSound
<1>13. CASE LeaseRunsOut \/ SessionExpires \/ Finished \/ UNCHANGED vars
  <2>1. /\ UNCHANGED <<service, late, returned>>
        /\ \/ UNCHANGED <<lock, session, expired>>
           \/ lock = Orphan /\ lock' = Free /\ UNCHANGED <<session, expired>>
           \/ /\ session' = NoSession /\ expired' = expired \cup session.updates
              /\ UNCHANGED lock
    BY <1>13 DEF LeaseRunsOut, SessionExpires, Finished, vars
  <2>2. Kept /\ session'.updates \subseteq session.updates
    BY <2>1, NewSessionShape DEF Kept
  <2>3. ASSUME NEW v \in Task PROVE SavingSound(v)'
    BY <2>1, <2>2, <1>a, Frame, WorkerAssumption DEF SavingSound, Worker
  <2>4. ReturnedUpdatesStored'
    BY <2>1, <2>2, <1>0 DEF SavesSound, ReturnedUpdatesStored, Kept
  <2>5. QED
    BY <2>2, <2>3, <2>4 DEF SavesSound
<1>14. ASSUME NEW g \in Generator, Request(g) PROVE SavesSound' /\ Kept
  <2>1. ~Write(g)
    BY <1>14, WorkerAssumption DEF Write, Guarded
  <2>2. /\ UNCHANGED <<lock, session, late, returned, expired>>
        /\ \A v \in Task : /\ at'[v] = at[v] /\ call'[v] = call[v]
                           /\ copy'[v] = copy[v]
    <3>1. g \in Worker /\ \A v \in Task : v # g
      BY WorkerAssumption DEF Worker
    <3>2. CASE RefuseGenerate(g) \/ OtherSession(g)
      BY <3>1, <3>2, EndFacts, WorkerAssumption, <1>b
         DEF RefuseGenerate, OtherSession
    <3>3. CASE CallGenerate(g) \/ Load(g) \/ Generate(g) \/ SameSession(g)
      BY <3>1, <3>3, <1>b DEF CallGenerate, Begin, Load, Generate, Change,
         SameSession, Go, TypeOK
    <3>4. QED
      BY <1>14, <2>1, <3>2, <3>3 DEF Request
  <2>3. Kept
    BY <2>2, <1>e
  <2>4. ASSUME NEW v \in Task PROVE SavingSound(v)'
    BY <2>2, <2>3, <1>a, Frame DEF SavingSound
  <2>5. ReturnedUpdatesStored'
    BY <2>2, <1>0 DEF SavesSound, ReturnedUpdatesStored
  <2>6. QED
    BY <2>3, <2>4, <2>5 DEF SavesSound
<1>15. QED
  BY <1>1, <1>2, <1>3, <1>4, <1>5, <1>6, <1>7, <1>8, <1>9, <1>10, <1>11,
     <1>12, <1>13, <1>14 DEF Next, Step

\* Once a save is not guarded, nothing is claimed any more.
LEMMA SoundOrUnguarded ==
  TypeOK /\ SavesSound /\ [Next]_vars => SavesSound'
BY SoundStep DEF SavesSound, ReturnedUpdatesStored

\* The inductive invariant of saves under the lock.
THEOREM SoundSaves == Spec => [](TypeOK /\ SavesSound)
<1>1. Init => TypeOK /\ SavesSound
  BY TypeInit, SoundInit
<1>2. TypeOK /\ SavesSound /\ [Next]_vars => (TypeOK /\ SavesSound)'
  BY TypeStep, SoundOrUnguarded
<1>3. QED
  BY <1>1, <1>2, PTL DEF Spec

\* Saves of tasks that take the lock never drop what is stored.
THEOREM SavesKeepUpdates == Spec => UpdatesKept
<1>1. TypeOK /\ SavesSound /\ [Next]_vars =>
        [Guarded' => session' = NoSession \/ session.updates \subseteq session'.updates]_session
  BY SoundStep DEF Kept
<1>2. QED
  BY <1>1, SoundSaves, PTL DEF Spec, UpdatesKept

\* What a task has returned is stored.
THEOREM ReturnedIsStored == Spec => []ReturnedUpdatesStored
<1>1. SavesSound => ReturnedUpdatesStored
  BY DEF SavesSound
<1>2. QED
  BY <1>1, SoundSaves, PTL

\* Two tasks are never past their checks and before their saves together.
THEOREM SavesExclude == Spec => []OneSaving
<1>1. SavesSound => OneSaving
  BY DEF SavesSound, SavingSound, OneSaving
<1>2. QED
  BY <1>1, SoundSaves, PTL
=============================================================================
