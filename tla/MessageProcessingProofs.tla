----------------------- MODULE MessageProcessingProofs ----------------------
(***************************************************************************)
(* Proofs about MessageProcessing, for any set of runs and messages and    *)
(* any number of faults and expirations.                                   *)
(***************************************************************************)
EXTENDS MessageProcessing, FiniteSetTheorems, TLAPS

(* What the operators of ProcessingRecord return.                          *)

LEMMA RecordShape ==
  ASSUME NEW r \in Record
  PROVE  /\ r.stage \in Stage
         /\ r.owner \in Worker \cup {NoOwner}
         /\ r.leased \in BOOLEAN
         /\ r.replay \in Replay
         /\ r.action \in [Action -> ActionState]
BY DEF Record

LEMMA AbsentShape == Absent \in Record /\ PlainReplay \in Replay
BY DEF Absent, PlainReplay, Record, Replay, Stage, Action, ActionState

LEMMA LeaseOperators ==
  ASSUME NEW r \in Record
  PROVE  /\ [r EXCEPT !.owner = NoOwner] \in Record
         /\ [r EXCEPT !.leased = FALSE] \in Record
BY DEF Record

LEMMA ClaimOperator ==
  ASSUME NEW r \in Record, NEW w \in Worker
  PROVE  ClaimedBy(r, w) \in Record
BY AbsentShape DEF ClaimedBy, Record, Stage

LEMMA StoredOperator ==
  ASSUME NEW r \in Record, NEW w \in Worker
  PROVE  Stored(r, w) \in Record
BY DEF Stored, Record

LEMMA Transitions ==
  ASSUME NEW r \in Record, NEW a \in Action, NEW replay \in Replay
  PROVE  /\ SaveResult(r, replay) \in Record
         /\ BeginExternalAction(r, a) \in Record
         /\ ResetExternalAction(r, a) \in Record
         /\ MarkSucceeded(r, a) \in Record
         /\ MarkProcessed(r) \in Record
<1>1. StageAfter[a] \in Stage
  BY DEF StageAfter, Action, Stage
<1>2. QED
  BY <1>1, RecordShape
     DEF SaveResult, BeginExternalAction, ResetExternalAction, MarkSucceeded,
         MarkProcessed, Record, Stage, ActionState

LEMMA NextLocation ==
  ASSUME NEW stage \in Stage, NEW replay \in Replay
  PROVE  ResumeAt(stage, replay) \in Location /\ NextAction(stage) \in Action
BY DEF ResumeAt, NextAction, Location, Action

-----------------------------------------------------------------------------
(* Types.                                                                  *)

LEMMA TypeStep == TypeOK /\ [Next]_vars => TypeOK'
<1> SUFFICES ASSUME TypeOK, [Next]_vars PROVE TypeOK'
  OBVIOUS
<1> USE DEF TypeOK, run, ghost
<1>a. ASSUME NEW w \in Worker, Raise(w)
      PROVE  /\ at' \in [Worker -> Location]
             /\ view' \in [Worker -> {"none", "fresh", "stale"}]
             /\ msg' \in [Worker -> Message]
             /\ act' \in [Worker -> Action]
             /\ out' \in [Worker -> Replay]
  BY <1>a DEF Raise, Location
<1>b. ASSUME NEW w \in Worker, NEW m \in Message, Overwrite(w, m)
      PROVE  view' \in [Worker -> {"none", "fresh", "stale"}]
  BY <1>b DEF Overwrite
<1>c. ASSUME NEW w \in Worker, MayAccept(w)
      PROVE  accepted' \in [Message -> [Action -> Nat]]
  <2>1. OneMore(accepted[msg[w]], act[w]) \in [Action -> Nat]
    BY DEF OneMore
  <2>2. QED
    BY <1>c, <2>1 DEF MayAccept, Accepts
<1>d. ASSUME Fault PROVE faults' \in Nat
  BY <1>d DEF Fault
<1>e. ASSUME NEW w \in Worker PROVE Disowned(w) \in [Message -> Record]
  <2> SUFFICES ASSUME NEW m \in Message
               PROVE  (IF record[m].owner = w
                       THEN [record[m] EXCEPT !.owner = NoOwner]
                       ELSE record[m]) \in Record
    BY DEF Disowned
  <2>1. record[m] \in Record
    OBVIOUS
  <2>2. QED
    BY <2>1, LeaseOperators
<1>1. ASSUME NEW w \in Worker, NEW m \in Message, Claim(w, m)
      PROVE  TypeOK'
  <2> DEFINE won == ClaimedBy(Disowned(w)[m], w)
  <2>1. won \in Record
    BY <1>e, ClaimOperator
  <2>2. won.stage \in Stage /\ won.replay \in Replay
    BY <2>1 DEF Record
  <2>3. ResumeAt(won.stage, won.replay) \in Location /\ NextAction(won.stage) \in Action
    BY <2>2, NextLocation
  <2> HIDE DEF won
  <2>4. QED
    BY <1>1, <1>b, <1>e, <2>1, <2>2, <2>3 DEF Claim, won, Location
<1>2. ASSUME NEW w \in Worker, NEW m \in Message, ClaimDuplicate(w, m)
      PROVE  TypeOK'
  BY <1>2 DEF ClaimDuplicate
<1>3. ASSUME NEW w \in Worker, AgentTurn(w) \/ AnswerUnsupported(w)
      PROVE  TypeOK'
  <2>1. CASE AgentTurn(w)
    BY <2>1 DEF AgentTurn, Location
  <2>2. CASE AnswerUnsupported(w)
    BY <2>2, AbsentShape DEF AnswerUnsupported, Location
  <2>3. QED
    BY <1>3, <2>1, <2>2
<1>4. ASSUME NEW w \in Worker, ReadRecord(w) PROVE TypeOK'
  BY <1>4, <1>a DEF ReadRecord
<1>5. ASSUME NEW w \in Worker, UpdateRefused(w) PROVE TypeOK'
  BY <1>5, <1>a DEF UpdateRefused
<1>f. ASSUME NEW w \in Worker, NEW next \in Location, NEW r \in Record,
             Update(w, r, next)
      PROVE  /\ record' \in [Message -> Record]
             /\ at' \in [Worker -> Location]
             /\ view' \in [Worker -> {"none", "fresh", "stale"}]
             /\ UNCHANGED <<msg, out, turns, accepted, acked, faults, evictions>>
  <2>1. Stored(r, w) \in Record
    BY StoredOperator
  <2>2. QED
    BY <1>f, <1>b, <2>1 DEF Update
<1>6. ASSUME NEW w \in Worker,
             \/ SaveAgentResult(w) \/ BeginAction(w) \/ ReopenAction(w)
             \/ FinishMessage(w)
      PROVE  TypeOK'
  <2> DEFINE r == record[msg[w]]
  <2>1. /\ SaveResult(r, out[w]) \in Record
        /\ BeginExternalAction(r, act[w]) \in Record
        /\ ResetExternalAction(r, act[w]) \in Record
        /\ MarkProcessed(r) \in Record
    BY Transitions
  <2>2. {"begin", "call", "idle"} \subseteq Location
    BY DEF Location
  <2>3. CASE SaveAgentResult(w)
    BY <2>3, <2>1, <2>2, <1>f DEF SaveAgentResult, Action
  <2>4. CASE BeginAction(w)
    BY <2>4, <2>1, <2>2, <1>f DEF BeginAction
  <2>5. CASE ReopenAction(w)
    BY <2>5, <2>1, <2>2, <1>f DEF ReopenAction
  <2>6. CASE FinishMessage(w)
    BY <2>6, <2>1, <2>2, <1>f DEF FinishMessage
  <2>7. QED
    BY <1>6, <2>3, <2>4, <2>5, <2>6
<1>7. ASSUME NEW w \in Worker, ConfirmAction(w) PROVE TypeOK'
  <2>1. StageAfter[act[w]] \in Stage
    BY DEF StageAfter, Stage, Action
  <2>2. MarkSucceeded(record[msg[w]], act[w]) \in Record
    BY Transitions
  <2>3. /\ ResumeAt(StageAfter[act[w]], out[w]) \in Location
        /\ NextAction(StageAfter[act[w]]) \in Action
    BY <2>1, NextLocation
  <2>4. QED
    BY <1>7, <1>f, <2>2, <2>3 DEF ConfirmAction
<1>8. ASSUME NEW w \in Worker, CallAccepted(w) \/ CallRejected(w)
      PROVE  TypeOK'
  BY <1>8, <1>c, <1>d DEF CallAccepted, CallRejected, MayAccept, Location
<1>9. ASSUME NEW w \in Worker, CallUnclear(w) \/ HeartbeatLost(w) \/ Abort(w)
      PROVE  TypeOK'
  BY <1>9, <1>a, <1>c, <1>d DEF CallUnclear, HeartbeatLost, Abort
<1>10. ASSUME NEW w \in Worker, Acknowledge(w) \/ AcknowledgeFails(w)
       PROVE  TypeOK'
  BY <1>10, <1>a DEF Acknowledge, AcknowledgeFails, Location
<1>11. ASSUME NEW w \in Worker, LateRenewal(w) PROVE TypeOK'
  BY <1>11, <1>d DEF LateRenewal
<1>12. ASSUME NEW m \in Message, OwnerStalls(m) \/ LeaseRunsOut(m)
       PROVE  TypeOK'
  <2> DEFINE r == [record[m] EXCEPT !.leased = FALSE]
  <2>1. r \in Record
    BY LeaseOperators
  <2>2. /\ record' = [record EXCEPT ![m] = r]
        /\ UNCHANGED <<run, ghost, evictions>>
        /\ faults' \in Nat
    BY <1>12, <1>d DEF OwnerStalls, LeaseRunsOut, LeaseExpires
  <2> HIDE DEF r
  <2>3. QED
    BY <2>1, <2>2
<1>13. ASSUME NEW m \in Message, Evict(m) PROVE TypeOK'
  BY <1>13, AbsentShape DEF Evict
<1>14. CASE UNCHANGED vars
  BY <1>14 DEF vars
<1>15. QED
  BY <1>1, <1>2, <1>3, <1>4, <1>5, <1>6, <1>7, <1>8, <1>9, <1>10, <1>11,
     <1>12, <1>13, <1>14 DEF Next, Step, Deliver

LEMMA TypeInit == Init => TypeOK
BY DEF Init, TypeOK, Absent, Record, PlainReplay, Replay, Stage, Action,
       ActionState, Location

\* Every variable keeps its type.
THEOREM TypeCorrectness == Spec => []TypeOK
BY TypeInit, TypeStep, PTL DEF Spec

-----------------------------------------------------------------------------
(* The fields of what the scripts store.                                   *)

LEMMA StageFacts ==
  /\ Rank["absent"] = 0 /\ Rank["claimed"] = 1 /\ Rank["result_saved"] = 2
  /\ Rank["text_sent"] = 3 /\ Rank["document_uploaded"] = 4
  /\ Rank["document_sent"] = 5 /\ Rank["complete"] = 6
  /\ StageBefore["text"] = "result_saved" /\ StageBefore["upload"] = "text_sent"
  /\ StageBefore["document"] = "document_uploaded"
  /\ StageAfter["text"] = "text_sent" /\ StageAfter["upload"] = "document_uploaded"
  /\ StageAfter["document"] = "document_sent"
BY DEF Rank, Stage, StageBefore, StageAfter, Action

LEMMA ClaimedFields ==
  ASSUME NEW r \in Record, NEW w \in Worker, r.stage # "complete"
  PROVE  LET c == ClaimedBy(r, w) IN
         /\ c.owner = w /\ c.leased
         /\ r.stage # "absent" =>
              c.stage = r.stage /\ c.replay = r.replay /\ c.action = r.action
         /\ r.stage = "absent" =>
              /\ c.stage = "claimed" /\ c.replay = PlainReplay
              /\ \A a \in Action : c.action[a] = "not_started"
BY DEF ClaimedBy, Absent, Record

LEMMA StoredFields ==
  ASSUME NEW r \in Record, NEW w \in Worker
  PROVE  LET s == Stored(r, w) IN
         /\ s.stage = r.stage /\ s.replay = r.replay /\ s.action = r.action
         /\ r.stage # "complete" => s.owner = w /\ s.leased
         /\ r.stage = "complete" => s.owner = NoOwner /\ ~s.leased
BY DEF Stored, Record

LEMMA TransitionFields ==
  ASSUME NEW r \in Record, NEW a \in Action, NEW replay \in Replay
  PROVE  /\ SaveResult(r, replay).stage = "result_saved"
         /\ SaveResult(r, replay).replay = replay
         /\ SaveResult(r, replay).action = r.action
         /\ BeginExternalAction(r, a).stage = r.stage
         /\ BeginExternalAction(r, a).replay = r.replay
         /\ BeginExternalAction(r, a).action = [r.action EXCEPT ![a] = "uncertain"]
         /\ ResetExternalAction(r, a).stage = r.stage
         /\ ResetExternalAction(r, a).replay = r.replay
         /\ ResetExternalAction(r, a).action = [r.action EXCEPT ![a] = "not_started"]
         /\ MarkSucceeded(r, a).stage = StageAfter[a]
         /\ MarkSucceeded(r, a).replay = r.replay
         /\ MarkSucceeded(r, a).action = [r.action EXCEPT ![a] = "succeeded"]
         /\ MarkProcessed(r).stage = "complete"
         /\ MarkProcessed(r).replay = r.replay
         /\ MarkProcessed(r).action = r.action
BY DEF SaveResult, BeginExternalAction, ResetExternalAction, MarkSucceeded,
       MarkProcessed, Record

LEMMA BeginTransition ==
  ASSUME NEW r \in Record, NEW a \in Action
  PROVE  /\ BeginExternalAction(r, a) \in Record
         /\ BeginExternalAction(r, a).stage = r.stage
         /\ BeginExternalAction(r, a).replay = r.replay
         /\ BeginExternalAction(r, a).action = [r.action EXCEPT ![a] = "uncertain"]
BY AbsentShape, Transitions, TransitionFields

LEMMA ResetTransition ==
  ASSUME NEW r \in Record, NEW a \in Action
  PROVE  /\ ResetExternalAction(r, a) \in Record
         /\ ResetExternalAction(r, a).stage = r.stage
         /\ ResetExternalAction(r, a).replay = r.replay
         /\ ResetExternalAction(r, a).action = [r.action EXCEPT ![a] = "not_started"]
BY AbsentShape, Transitions, TransitionFields

LEMMA MarkTransition ==
  ASSUME NEW r \in Record, NEW a \in Action
  PROVE  /\ MarkSucceeded(r, a) \in Record
         /\ MarkSucceeded(r, a).stage = StageAfter[a]
         /\ MarkSucceeded(r, a).replay = r.replay
         /\ MarkSucceeded(r, a).action = [r.action EXCEPT ![a] = "succeeded"]
BY AbsentShape, Transitions, TransitionFields

LEMMA CloseTransition ==
  ASSUME NEW r \in Record
  PROVE  /\ MarkProcessed(r) \in Record
         /\ MarkProcessed(r).stage = "complete"
         /\ MarkProcessed(r).replay = r.replay
         /\ MarkProcessed(r).action = r.action
BY AbsentShape, Transitions, TransitionFields DEF Action

-----------------------------------------------------------------------------
(* The invariant of a message or a run survives what does not concern it.  *)

LEMMA RecordFrame ==
  ASSUME NEW m \in Message, RecordSound(m),
         UNCHANGED <<record[m], accepted[m], acked[m], answered[m], evictions[m]>>
  PROVE  RecordSound(m)'
BY DEF RecordSound

LEMMA RunFrame ==
  ASSUME NEW w \in Worker, RunSound(w),
         UNCHANGED <<at[w], msg[w], act[w], out[w], view[w]>>,
         UNCHANGED <<record[msg[w]], accepted[msg[w]], acked[msg[w]],
                     evictions[msg[w]]>>
  PROVE  RunSound(w)'
BY DEF RunSound, Allowed

LEMMA SoundInit == Init => ProcessingSound
<1> SUFFICES ASSUME Init PROVE ProcessingSound
  OBVIOUS
<1>1. ASSUME NEW m \in Message PROVE RecordSound(m)
  BY StageFacts DEF Init, RecordSound, Absent, Incomplete, Action
<1>2. ASSUME NEW w \in Worker PROVE RunSound(w)
  BY DEF Init, RunSound, Attending
<1>3. OneCallerPerMessage
  BY DEF Init, OneCallerPerMessage, Attending
<1>4. QED
  BY <1>1, <1>2, <1>3 DEF ProcessingSound

-----------------------------------------------------------------------------
(* Steps of the provider, and runs that end.                               *)

LEMMA AcceptsFields ==
  ASSUME TypeOK, NEW w \in Worker, Accepts(w)
  PROVE  /\ accepted'[msg[w]][act[w]] = accepted[msg[w]][act[w]] + 1
         /\ \A m \in Message : m # msg[w] => accepted'[m] = accepted[m]
         /\ \A a \in Action :
              a # act[w] => accepted'[msg[w]][a] = accepted[msg[w]][a]
BY DEF Accepts, OneMore, TypeOK

\* A request in flight may be accepted: its action is uncertain, and nobody
\* else attends to its message.
LEMMA AcceptsSound ==
  ASSUME TypeOK, ProcessingSound, NEW w \in Worker, at[w] = "call", Accepts(w),
         UNCHANGED <<record, acked, answered, evictions>>
  PROVE  /\ \A m \in Message : RecordSound(m)'
         /\ \A v \in Worker :
              v # w /\ UNCHANGED <<at[v], msg[v], act[v], out[v], view[v]>>
              => RunSound(v)'
<1> DEFINE n == msg[w]
           b == act[w]
<1>1. n \in Message /\ b \in Action /\ w \in Worker
  BY DEF TypeOK
<1>2. record[n].action[b] = "uncertain" /\ accepted[n][b] <= evictions[n]
  BY DEF ProcessingSound, RunSound, Attending
<1>3. accepted[n] \in [Action -> Nat] /\ evictions[n] \in Nat
  BY <1>1 DEF TypeOK
<1>4. ASSUME NEW m \in Message PROVE RecordSound(m)'
  <2>1. CASE m # n
    BY <2>1, AcceptsFields, RecordFrame DEF ProcessingSound
  <2>2. CASE m = n
    <3>1. RecordSound(n)
      BY <1>1 DEF ProcessingSound
    <3>2. "text" \in Action
      BY DEF Action
    <3>3. QED
      BY <2>2, <1>1, <1>2, <1>3, <3>1, <3>2, AcceptsFields DEF RecordSound
  <2>3. QED
    BY <2>1, <2>2
<1>5. ASSUME NEW v \in Worker, v # w,
             UNCHANGED <<at[v], msg[v], act[v], out[v], view[v]>>
      PROVE  RunSound(v)'
  <2>1. RunSound(v) /\ msg[v] \in Message
    BY DEF ProcessingSound, TypeOK
  <2>2. CASE msg[v] # n
    BY <2>1, <2>2, <1>5, AcceptsFields, RunFrame
  <2>3. CASE msg[v] = n
    <3>1. at[v] \notin Attending
      BY <1>5, <2>3 DEF ProcessingSound, OneCallerPerMessage, Attending
    <3>2. QED
      BY <1>5, <2>1, <3>1 DEF RunSound, Allowed, Attending
  <2>4. QED
    BY <2>2, <2>3
<1>6. QED
  BY <1>4, <1>5

\* A run that ends leaves the rest as sound as it was.
LEMMA RaiseSound ==
  ASSUME TypeOK, ProcessingSound, NEW w \in Worker, Raise(w),
         UNCHANGED <<record, acked, answered, evictions>>,
         accepted' = accepted \/ (at[w] = "call" /\ Accepts(w))
  PROVE  ProcessingSound'
<1>1. /\ at'[w] = "idle" /\ view'[w] = "none"
      /\ msg' = msg
      /\ \A v \in Worker : v # w =>
           UNCHANGED <<at[v], msg[v], act[v], out[v], view[v]>>
  BY DEF Raise, TypeOK
<1>2. RunSound(w)'
  BY <1>1 DEF RunSound, Attending
<1>3. OneCallerPerMessage'
  BY <1>1 DEF ProcessingSound, OneCallerPerMessage, Attending
<1>4. CASE accepted' = accepted
  <2>1. ASSUME NEW m \in Message PROVE RecordSound(m)'
    BY <1>4, RecordFrame DEF ProcessingSound
  <2>2. ASSUME NEW v \in Worker, v # w PROVE RunSound(v)'
    BY <1>1, <1>4, <2>2, RunFrame DEF ProcessingSound
  <2>3. QED
    BY <1>2, <1>3, <2>1, <2>2 DEF ProcessingSound
<1>5. CASE at[w] = "call" /\ Accepts(w)
  BY <1>1, <1>2, <1>3, <1>5, AcceptsSound DEF ProcessingSound
<1>6. QED
  BY <1>4, <1>5

LEMMA CallSound ==
  ASSUME TypeOK, ProcessingSound, NEW w \in Worker,
         CallAccepted(w) \/ CallRejected(w) \/ Acknowledge(w)
  PROVE  ProcessingSound'
<1>1. /\ UNCHANGED <<record, msg, act, out, view, answered, evictions>>
      /\ \A v \in Worker : v # w => at'[v] = at[v]
  BY DEF CallAccepted, CallRejected, Acknowledge, ghost, TypeOK
<1>2. /\ RunSound(w) /\ msg[w] \in Message /\ act[w] \in Action
      /\ accepted[msg[w]] \in [Action -> Nat] /\ evictions[msg[w]] \in Nat
  BY DEF ProcessingSound, TypeOK
<1>3. at[w] \in Attending /\ at'[w] \in Attending /\ view[w] = "none"
  BY <1>2 DEF CallAccepted, CallRejected, Acknowledge, Attending, TypeOK,
              RunSound, Mutation
<1>4. OneCallerPerMessage'
  BY <1>1, <1>3 DEF ProcessingSound, OneCallerPerMessage
<1>5. CASE CallAccepted(w)
  <2>1. \A v \in Worker : v # w => RunSound(v)'
    BY <1>1, <1>5, AcceptsSound DEF CallAccepted
  <2>2. \A m \in Message : RecordSound(m)'
    BY <1>1, <1>5, AcceptsSound DEF CallAccepted
  <2>3. accepted'[msg[w]][act[w]] >= 1
    BY <1>2, <1>5, AcceptsFields DEF CallAccepted
  <2>4. RunSound(w)'
    BY <1>1, <1>2, <1>3, <1>5, <2>3
       DEF CallAccepted, RunSound, Attending, TypeOK
  <2>5. QED
    BY <1>4, <2>1, <2>2, <2>4 DEF ProcessingSound
<1>6. CASE CallRejected(w)
  <2>1. UNCHANGED <<accepted, acked>> /\ at'[w] = "reset" /\ at[w] = "call"
    BY <1>6 DEF CallRejected, ghost, TypeOK
  <2>2. ASSUME NEW m \in Message PROVE RecordSound(m)'
    BY <1>1, <2>1, RecordFrame DEF ProcessingSound
  <2>3. ASSUME NEW v \in Worker, v # w PROVE RunSound(v)'
    BY <1>1, <2>1, <2>3, RunFrame DEF ProcessingSound
  <2>4. RunSound(w)'
    BY <1>1, <1>2, <1>3, <2>1 DEF RunSound, Attending
  <2>5. QED
    BY <1>4, <2>2, <2>3, <2>4 DEF ProcessingSound
<1>7. CASE Acknowledge(w)
  <2>1. /\ UNCHANGED accepted /\ at'[w] = "confirm" /\ at[w] = "ack"
        /\ acked' = [acked EXCEPT ![msg[w]] = TRUE]
    BY <1>7 DEF Acknowledge, TypeOK
  <2>2. ASSUME NEW m \in Message PROVE RecordSound(m)'
    <3>1. RecordSound(m) /\ (acked'[m] = acked[m] \/ acked'[m] = TRUE)
      BY <2>1 DEF ProcessingSound, TypeOK
    <3>2. QED
      BY <1>1, <2>1, <3>1 DEF RecordSound
  <2>3. ASSUME NEW v \in Worker, v # w PROVE RunSound(v)'
    <3>1. RunSound(v) /\ (acked'[msg[v]] = acked[msg[v]] \/ acked'[msg[v]] = TRUE)
      BY <2>1 DEF ProcessingSound, TypeOK
    <3>2. QED
      BY <1>1, <2>1, <2>3, <3>1 DEF RunSound, Allowed
  <2>4. RunSound(w)'
    BY <1>1, <1>2, <1>3, <2>1 DEF RunSound, Attending, TypeOK
  <2>5. QED
    BY <1>4, <2>2, <2>3, <2>4 DEF ProcessingSound
<1>8. QED
  BY <1>5, <1>6, <1>7

-----------------------------------------------------------------------------
(* The agent, the read of a mutation, leases, renewals and expirations.    *)

LEMMA AgentSound ==
  ASSUME TypeOK, ProcessingSound, NEW w \in Worker,
         AgentTurn(w) \/ AnswerUnsupported(w)
  PROVE  ProcessingSound'
<1>1. /\ UNCHANGED <<record, msg, act, view, accepted, acked, answered, evictions>>
      /\ at[w] = "agent" /\ at'[w] = "save"
      /\ \A v \in Worker : v # w => UNCHANGED <<at[v], out[v]>>
  BY DEF AgentTurn, AnswerUnsupported, ghost, TypeOK
<1>2. ASSUME NEW m \in Message PROVE RecordSound(m)'
  BY <1>1, RecordFrame DEF ProcessingSound
<1>3. ASSUME NEW v \in Worker, v # w PROVE RunSound(v)'
  BY <1>1, <1>3, RunFrame DEF ProcessingSound
<1>4. RunSound(w)'
  <2>1. RunSound(w)
    BY DEF ProcessingSound
  <2>2. view[w] = "none"
    BY <1>1, <2>1 DEF RunSound, Mutation, TypeOK
  <2>3. QED
    BY <1>1, <2>1, <2>2 DEF RunSound, Attending
<1>5. OneCallerPerMessage'
  BY <1>1 DEF ProcessingSound, OneCallerPerMessage, Attending
<1>6. QED
  BY <1>2, <1>3, <1>4, <1>5 DEF ProcessingSound

LEMMA ReadSound ==
  ASSUME TypeOK, ProcessingSound, NEW w \in Worker, ReadRecord(w)
  PROVE  ProcessingSound'
<1>1. UNCHANGED <<record, accepted, acked, answered, evictions>>
  BY DEF ReadRecord, ghost
<1>2. CASE Raise(w)
  BY <1>1, <1>2, RaiseSound
<1>3. CASE /\ record[msg[w]].owner = w /\ Allowed(w, record[msg[w]])
           /\ view' = [view EXCEPT ![w] = "fresh"]
           /\ UNCHANGED <<at, msg, act, out>>
  <2>1. ASSUME NEW m \in Message PROVE RecordSound(m)'
    BY <1>1, RecordFrame DEF ProcessingSound
  <2>2. ASSUME NEW v \in Worker, v # w PROVE RunSound(v)'
    BY <1>1, <1>3, <2>2, RunFrame DEF ProcessingSound
  <2>3. RunSound(w)'
    BY <1>1, <1>3 DEF ProcessingSound, RunSound, Allowed, ReadRecord, TypeOK
  <2>4. OneCallerPerMessage'
    BY <1>3 DEF ProcessingSound, OneCallerPerMessage
  <2>5. QED
    BY <2>1, <2>2, <2>3, <2>4 DEF ProcessingSound
<1>4. QED
  BY <1>2, <1>3 DEF ReadRecord

LEMMA RenewalSound ==
  ASSUME TypeOK, ProcessingSound, NEW w \in Worker, LateRenewal(w)
  PROVE  ProcessingSound'
<1>1. /\ UNCHANGED <<record, at, msg, act, out, accepted, acked, answered,
                     evictions>>
      /\ at[w] \in Mutation /\ view'[w] = "stale"
      /\ \A v \in Worker : v # w => view'[v] = view[v]
  BY DEF LateRenewal, ghost, TypeOK, Mutation
<1>2. ASSUME NEW m \in Message PROVE RecordSound(m)'
  BY <1>1, RecordFrame DEF ProcessingSound
<1>3. ASSUME NEW v \in Worker, v # w PROVE RunSound(v)'
  BY <1>1, <1>3, RunFrame DEF ProcessingSound
<1>4. RunSound(w)'
  BY <1>1 DEF ProcessingSound, RunSound
<1>5. OneCallerPerMessage'
  BY <1>1 DEF ProcessingSound, OneCallerPerMessage
<1>6. QED
  BY <1>2, <1>3, <1>4, <1>5 DEF ProcessingSound

LEMMA LeaseSound ==
  ASSUME TypeOK, ProcessingSound, NEW m \in Message, LeaseExpires(m)
  PROVE  ProcessingSound'
<1>1. /\ UNCHANGED <<at, msg, act, out, view, accepted, acked, answered, evictions>>
      /\ record' = [record EXCEPT ![m] = [record[m] EXCEPT !.leased = FALSE]]
      /\ record[m].leased
  BY DEF LeaseExpires, run, ghost
<1>2. ASSUME NEW n \in Message
      PROVE  /\ record'[n].stage = record[n].stage
             /\ record'[n].owner = record[n].owner
             /\ record'[n].replay = record[n].replay
             /\ record'[n].action = record[n].action
             /\ n # m => record'[n] = record[n]
  BY <1>1 DEF TypeOK, Record
<1>3. ASSUME NEW n \in Message PROVE RecordSound(n)'
  <2>1. RecordSound(n)
    BY DEF ProcessingSound
  <2>2. CASE n # m
    BY <1>1, <1>2, <2>1, <2>2, RecordFrame
  <2>3. CASE n = m
    BY <1>1, <1>2, <2>1, <2>3 DEF RecordSound, Incomplete
  <2>4. QED
    BY <2>2, <2>3
<1>4. ASSUME NEW v \in Worker PROVE RunSound(v)'
  <2>1. RunSound(v) /\ msg[v] \in Message
    BY DEF ProcessingSound, TypeOK
  <2>2. QED
    BY <1>1, <1>2, <2>1
       DEF RunSound, Allowed, CanSaveResult, CanBeginExternalAction,
           CanResetExternalAction, CanMarkSucceeded, CanMarkProcessed
<1>5. OneCallerPerMessage'
  BY <1>1 DEF ProcessingSound, OneCallerPerMessage
<1>6. QED
  BY <1>3, <1>4, <1>5 DEF ProcessingSound

LEMMA EvictSound ==
  ASSUME TypeOK, ProcessingSound, NEW m \in Message, Evict(m)
  PROVE  ProcessingSound'
<1>1. /\ UNCHANGED <<at, msg, act, out, view, accepted, acked, answered>>
      /\ record' = [record EXCEPT ![m] = Absent]
      /\ evictions' = [evictions EXCEPT ![m] = @ + 1]
      /\ \A w \in Worker : ~Active(w, m)
  BY DEF Evict, run, ghost
<1>2. ASSUME NEW n \in Message PROVE RecordSound(n)'
  <2>1. RecordSound(n)
    BY DEF ProcessingSound
  <2>2. CASE n # m
    BY <1>1, <2>1, <2>2, RecordFrame DEF TypeOK
  <2>3. CASE n = m
    <3>1. evictions'[m] = evictions[m] + 1 /\ record'[m] = Absent
      BY <1>1 DEF TypeOK
    <3>2. accepted[m] \in [Action -> Nat] /\ evictions[m] \in Nat
      BY DEF TypeOK
    <3>3. \A a \in Action : accepted[m][a] <= 1 + evictions[m]
      BY <2>1, <2>3 DEF RecordSound
    <3>4. QED
      BY <1>1, <2>1, <2>3, <3>1, <3>2, <3>3, StageFacts
         DEF RecordSound, Absent, Incomplete, Action
  <2>4. QED
    BY <2>2, <2>3
<1>3. ASSUME NEW v \in Worker PROVE RunSound(v)'
  <2>1. RunSound(v) /\ msg[v] \in Message
    BY DEF ProcessingSound, TypeOK
  <2>2. CASE msg[v] # m
    BY <1>1, <2>1, <2>2, RunFrame DEF TypeOK
  <2>3. CASE msg[v] = m
    <3>1. at[v] = "idle" /\ view[v] = "none"
      BY <1>1, <2>1, <2>3 DEF Active, RunSound, Mutation, TypeOK
    <3>2. QED
      BY <1>1, <3>1 DEF RunSound, Attending
  <2>4. QED
    BY <2>2, <2>3
<1>4. OneCallerPerMessage'
  BY <1>1 DEF ProcessingSound, OneCallerPerMessage
<1>5. QED
  BY <1>2, <1>3, <1>4 DEF ProcessingSound

-----------------------------------------------------------------------------
(* Claims.                                                                 *)

LEMMA DisownedFields ==
  ASSUME TypeOK, NEW w \in Worker, NEW m \in Message
  PROVE  LET d == Disowned(w)[m] IN
         /\ d \in Record
         /\ d.stage = record[m].stage /\ d.replay = record[m].replay
         /\ d.action = record[m].action /\ d.leased = record[m].leased
         /\ record[m].owner # w => d = record[m]
         /\ record[m].owner = NoOwner => d.owner = NoOwner
<1>1. record[m] \in Record
  BY DEF TypeOK
<1>2. QED
  BY <1>1, LeaseOperators DEF Disowned, Record

LEMMA ClaimSound ==
  ASSUME TypeOK, ProcessingSound, NEW w \in Worker, NEW m \in Message,
         Claim(w, m)
  PROVE  ProcessingSound'
<1> DEFINE d == Disowned(w)
           won == ClaimedBy(d[m], w)
<1>1. /\ at[w] = "idle" /\ d[m].stage # "complete"
      /\ record' = [d EXCEPT ![m] = won]
      /\ at' = [at EXCEPT ![w] = IF HasUncertainExternalAction(won) THEN "idle"
                                 ELSE ResumeAt(won.stage, won.replay)]
      /\ act' = [act EXCEPT ![w] = NextAction(won.stage)]
      /\ out' = [out EXCEPT ![w] = won.replay]
      /\ msg' = [msg EXCEPT ![w] = m]
      /\ Overwrite(w, m)
      /\ UNCHANGED <<accepted, acked, answered, evictions>>
  BY DEF Claim, ClaimDecision, ghost
<1>2. /\ d \in [Message -> Record]
      /\ \A n \in Message : n # m => record'[n] = d[n]
      /\ record'[m] = won
  BY <1>1, DisownedFields DEF Disowned
<1>3. won \in Record /\ d[m] \in Record /\ record[m] \in Record
  BY <1>2, ClaimOperator DEF TypeOK
<1>4. /\ won.owner = w /\ won.leased
      /\ record[m].stage # "absent" =>
           /\ won.stage = record[m].stage /\ won.replay = record[m].replay
           /\ won.action = record[m].action
      /\ record[m].stage = "absent" =>
           /\ won.stage = "claimed" /\ won.replay = PlainReplay
           /\ \A a \in Action : won.action[a] = "not_started"
  BY <1>1, <1>3, ClaimedFields, DisownedFields
<1>5. record[m].stage # "complete"
  BY <1>1, DisownedFields
<1>6. /\ \A v \in Worker : v # w => UNCHANGED <<at[v], msg[v], act[v], out[v]>>
      /\ at'[w] = IF HasUncertainExternalAction(won) THEN "idle"
                  ELSE ResumeAt(won.stage, won.replay)
      /\ out'[w] = won.replay /\ msg'[w] = m
      /\ view'[w] = "none"
      /\ \A v \in Worker : v # w =>
           /\ msg[v] # m => view'[v] = view[v]
           /\ view'[v] = "fresh" => msg[v] # m /\ view[v] = "fresh"
           /\ view'[v] # "none" => view[v] # "none"
  BY <1>1 DEF Overwrite, TypeOK
<1> HIDE DEF d, won
<1>7. ASSUME NEW n \in Message PROVE RecordSound(n)'
  <2>1. RecordSound(n) /\ record[n] \in Record
    BY DEF ProcessingSound, TypeOK
  <2>2. CASE n # m
    <3>1. /\ record'[n].stage = record[n].stage
          /\ record'[n].replay = record[n].replay
          /\ record'[n].action = record[n].action
          /\ record'[n].leased = record[n].leased
          /\ record[n].owner = NoOwner => record'[n].owner = NoOwner
      BY <1>2, <2>2, DisownedFields DEF d
    <3>2. QED
      BY <1>1, <2>1, <3>1 DEF RecordSound, Incomplete
  <2>3. CASE n = m
    <3>1. CASE record[m].stage = "absent"
      <4>1. /\ record'[m].stage = "claimed" /\ record'[m].replay = PlainReplay
            /\ \A a \in Action : record'[m].action[a] = "not_started"
        BY <1>2, <1>4, <3>1
      <4>2. \A a \in Action : record[m].action[a] = "not_started"
        BY <2>1, <2>3, <3>1, StageFacts
           DEF RecordSound, Record, Action, ActionState
      <4>3. "text" \in Action
        BY DEF Action
      <4>4. QED
        BY <1>1, <2>1, <2>3, <4>1, <4>2, <4>3, StageFacts
           DEF RecordSound, Incomplete, Action
    <3>2. CASE record[m].stage # "absent"
      <4>1. /\ record'[m].stage = record[m].stage
            /\ record'[m].replay = record[m].replay
            /\ record'[m].action = record[m].action
        BY <1>2, <1>4, <3>2
      <4>2. QED
        BY <1>1, <1>5, <2>1, <2>3, <3>2, <4>1 DEF RecordSound, Incomplete
    <3>3. QED
      BY <3>1, <3>2
  <2>4. QED
    BY <2>2, <2>3
<1>8. ASSUME NEW v \in Worker, v # w PROVE RunSound(v)'
  <2>1. RunSound(v) /\ msg[v] \in Message
    BY DEF ProcessingSound, TypeOK
  <2>2. CASE msg[v] # m
    <3>1. /\ record'[msg[v]].stage = record[msg[v]].stage
          /\ record'[msg[v]].replay = record[msg[v]].replay
          /\ record'[msg[v]].action = record[msg[v]].action
          /\ record[msg[v]].owner = v => record'[msg[v]].owner = v
      BY <1>2, <1>8, <2>1, <2>2, DisownedFields DEF d
    <3>2. QED
      BY <1>1, <1>6, <1>8, <2>1, <2>2, <3>1
         DEF RunSound, Allowed, CanSaveResult, CanBeginExternalAction,
             CanResetExternalAction, CanMarkSucceeded, CanMarkProcessed
  <2>3. CASE msg[v] = m
    <3>1. CASE at[v] = "idle"
      BY <1>6, <1>8, <2>1, <3>1 DEF RunSound, Attending, Mutation
    <3>2. CASE at[v] # "idle"
      <4>1. record[m].stage # "absent" /\ view'[v] # "fresh"
        BY <1>6, <1>8, <2>1, <2>3, <3>2 DEF RunSound
      <4>2. /\ record'[m].stage = record[m].stage
            /\ record'[m].replay = record[m].replay
            /\ record'[m].action = record[m].action
        BY <1>2, <1>4, <4>1
      <4>3. QED
        BY <1>1, <1>6, <1>8, <2>1, <2>3, <4>1, <4>2 DEF RunSound
    <3>3. QED
      BY <3>1, <3>2
  <2>4. QED
    BY <2>2, <2>3
<1>9. RunSound(w)'
  <2>1. /\ at'[w] \in {"idle", "agent", "begin", "finish"}
        /\ at'[w] \in {"begin", "finish"} => won.stage # "claimed"
    BY <1>6 DEF ResumeAt
  <2>2. won.stage # "absent"
    BY <1>4
  <2>3. QED
    BY <1>2, <1>6, <2>1, <2>2 DEF RunSound, Attending
<1>10. OneCallerPerMessage'
  <2>1. at'[w] \notin Attending
    BY <1>6 DEF ResumeAt, Attending
  <2>2. QED
    BY <1>6, <2>1 DEF ProcessingSound, OneCallerPerMessage
<1>11. QED
  BY <1>7, <1>8, <1>9, <1>10 DEF ProcessingSound

LEMMA DuplicateSound ==
  ASSUME TypeOK, ProcessingSound, NEW w \in Worker, NEW m \in Message,
         ClaimDuplicate(w, m)
  PROVE  ProcessingSound'
<1>1. /\ UNCHANGED <<record, at, msg, act, out, view, accepted, acked, evictions>>
      /\ record[m].stage = "complete"
      /\ answered' = [answered EXCEPT ![m] = TRUE]
  BY DEF ClaimDuplicate, ClaimDecision, run
<1>2. ASSUME NEW n \in Message PROVE RecordSound(n)'
  <2>1. RecordSound(n) /\ (n # m => answered'[n] = answered[n])
    BY <1>1 DEF ProcessingSound, TypeOK
  <2>2. record[n].stage = "complete" => accepted[n]["text"] >= 1
    BY <2>1, StageFacts DEF RecordSound, Action
  <2>3. QED
    BY <1>1, <2>1, <2>2 DEF RecordSound
<1>3. ASSUME NEW v \in Worker PROVE RunSound(v)'
  BY <1>1, RunFrame DEF ProcessingSound
<1>4. OneCallerPerMessage'
  BY <1>1 DEF ProcessingSound, OneCallerPerMessage
<1>5. QED
  BY <1>2, <1>3, <1>4 DEF ProcessingSound

-----------------------------------------------------------------------------
(* Updates.                                                                *)

\* An update is made by the owner, of the record it read.
LEMMA UpdateFacts ==
  ASSUME TypeOK, ProcessingSound, NEW w \in Worker, NEW next \in Location,
         NEW repl \in Record, Update(w, repl, next)
  PROVE  LET m == msg[w] IN
         /\ Allowed(w, record[m]) /\ Incomplete(record[m])
         /\ record'[m].stage = repl.stage /\ record'[m].replay = repl.replay
         /\ record'[m].action = repl.action
         /\ repl.stage = "complete" =>
              record'[m].owner = NoOwner /\ ~record'[m].leased
         /\ \A n \in Message : n # m => record'[n] = record[n]
         /\ at'[w] = next /\ view'[w] = "none"
         /\ \A v \in Worker : v # w =>
              /\ at'[v] = at[v]
              /\ msg[v] # m => view'[v] = view[v]
              /\ msg[v] = m => view'[v] # "fresh"
              /\ view'[v] # "none" => view[v] # "none"
         /\ UNCHANGED <<msg, out, accepted, acked, evictions>>
<1>1. view[w] = "fresh" /\ Incomplete(record[msg[w]]) /\ msg[w] \in Message
  BY DEF Update, Updatable, Renewable, TypeOK
<1>2. Allowed(w, record[msg[w]])
  BY <1>1 DEF ProcessingSound, RunSound
<1>3. /\ record'[msg[w]] = Stored(repl, w)
      /\ \A n \in Message : n # msg[w] => record'[n] = record[n]
      /\ at'[w] = next
      /\ \A v \in Worker : v # w => at'[v] = at[v]
      /\ UNCHANGED <<msg, out, accepted, acked, evictions>>
  BY <1>1 DEF Update, TypeOK
<1>4. /\ view'[w] = "none"
      /\ \A v \in Worker : v # w =>
              /\ msg[v] # msg[w] => view'[v] = view[v]
              /\ msg[v] = msg[w] => view'[v] # "fresh"
              /\ view'[v] # "none" => view[v] # "none"
  BY DEF Update, Overwrite, TypeOK
<1>5. QED
  BY <1>1, <1>2, <1>3, <1>4, StoredFields

\* An update leaves alone what other messages and other runs rely on, when it
\* keeps a saved reply and clears no uncertain action but its own.
LEMMA UpdateOthers ==
  ASSUME TypeOK, ProcessingSound, NEW w \in Worker, NEW next \in Location,
         NEW repl \in Record, Update(w, repl, next),
         \A v \in Worker : v # w => act'[v] = act[v],
         \A n \in Message : n # msg[w] => answered'[n] = answered[n],
         repl.stage \notin {"absent", "claimed"},
         repl.replay = record[msg[w]].replay \/ record[msg[w]].stage = "claimed",
         at[w] \in Attending \/
           \A a \in Action : record[msg[w]].action[a] = "uncertain"
                              => repl.action[a] = "uncertain"
  PROVE  /\ \A n \in Message : n # msg[w] => RecordSound(n)'
         /\ \A v \in Worker : v # w => RunSound(v)'
<1>1. ASSUME NEW n \in Message, n # msg[w] PROVE RecordSound(n)'
  BY <1>1, UpdateFacts, RecordFrame DEF ProcessingSound
<1>2. ASSUME NEW v \in Worker, v # w PROVE RunSound(v)'
  <2>1. RunSound(v) /\ msg[v] \in Message /\ act[v] \in Action
    BY DEF ProcessingSound, TypeOK
  <2>2. CASE msg[v] # msg[w]
    BY <1>2, <2>1, <2>2, UpdateFacts, RunFrame
  <2>3. CASE msg[v] = msg[w]
    <3>1. at[w] \in Attending => at[v] \notin Attending
      BY <1>2, <2>3 DEF ProcessingSound, OneCallerPerMessage
    <3>2. at'[v] \in Attending =>
            record'[msg[v]].action[act[v]] = "uncertain"
      BY <1>2, <2>1, <2>3, <3>1, UpdateFacts DEF RunSound
    <3>3. at'[v] \in Attending \cup {"begin", "finish"} =>
            out[v] = record'[msg[v]].replay
      BY <1>2, <2>1, <2>3, UpdateFacts DEF RunSound
    <3>4. /\ record'[msg[v]].stage \notin {"absent", "claimed"}
          /\ view'[v] # "fresh" /\ (view'[v] # "none" => view[v] # "none")
          /\ UNCHANGED <<at[v], msg[v], act[v], out[v]>>
          /\ UNCHANGED <<accepted, acked, evictions>>
      BY <1>2, <2>3, UpdateFacts
    <3>5. QED
      BY <2>1, <3>2, <3>3, <3>4 DEF RunSound
  <2>4. QED
    BY <2>2, <2>3
<1>3. QED
  BY <1>1, <1>2

LEMMA SaveFacts ==
  ASSUME TypeOK, ProcessingSound, NEW w \in Worker, NEW m \in Message,
         m = msg[w], SaveAgentResult(w)
  PROVE  LET r == record[m]
             b == act[w]
         IN
         /\ r.stage = "claimed" /\ record'[m].stage = "result_saved"
         /\ record'[m].replay = out[w] /\ record'[m].action = r.action
         /\ at'[w] = "begin" /\ view'[w] = "none"
         /\ UNCHANGED <<msg, out, accepted, acked, evictions>>
         /\ \A n \in Message : n # m => record'[n] = record[n]
<1> DEFINE r == record[m]
           repl == SaveResult(r, out[w])
<1>1. /\ r \in Record /\ out[w] \in Replay /\ "begin" \in Location
      /\ RecordSound(m)
  BY DEF TypeOK, Location, ProcessingSound
<1>2. /\ repl \in Record /\ repl.stage = "result_saved" /\ repl.replay = out[w]
      /\ repl.action = r.action
  BY <1>1, Transitions, TransitionFields DEF Action
<1>3. /\ Update(w, repl, "begin") /\ at[w] = "save"
      /\ act' = [act EXCEPT ![w] = "text"] /\ answered' = answered
  BY DEF SaveAgentResult
<1> HIDE DEF repl
<1>4. r.stage = "claimed"
  BY <1>1, <1>2, <1>3, UpdateFacts DEF Allowed, CanSaveResult
<1>5. QED
  BY <1>1, <1>2, <1>3, <1>4, UpdateFacts

LEMMA SaveSound ==
  ASSUME TypeOK, ProcessingSound, NEW w \in Worker, NEW m \in Message,
         m = msg[w], SaveAgentResult(w)
  PROVE  ProcessingSound'
<1> DEFINE r == record[m]
           repl == SaveResult(r, out[w])
<1>1. /\ r \in Record /\ out[w] \in Replay /\ "begin" \in Location
      /\ RecordSound(m)
  BY DEF TypeOK, Location, ProcessingSound
<1>2. /\ repl \in Record /\ repl.stage = "result_saved" /\ repl.replay = out[w]
      /\ repl.action = r.action
  BY <1>1, Transitions, TransitionFields DEF Action
<1>3. /\ Update(w, repl, "begin") /\ at[w] = "save"
      /\ act' = [act EXCEPT ![w] = "text"] /\ answered' = answered
  BY DEF SaveAgentResult
<1> HIDE DEF repl
<1>4. r.stage = "claimed"
  BY SaveFacts
<1>5. /\ \A n \in Message : n # m => RecordSound(n)'
      /\ \A v \in Worker : v # w => RunSound(v)'
  BY <1>1, <1>2, <1>3, <1>4, UpdateOthers DEF TypeOK
<1>6. /\ record'[m].stage = "result_saved" /\ record'[m].action = r.action
      /\ record'[m].replay = out[w] /\ at'[w] = "begin" /\ view'[w] = "none"
      /\ UNCHANGED <<msg, out, accepted, acked, evictions>>
  BY SaveFacts
<1>7. RecordSound(m)'
  <2>1. \A a \in Action : r.action[a] = "not_started"
    BY <1>1, <1>4, StageFacts DEF RecordSound, Record, Action, ActionState
  <2>2. "text" \in Action
    BY DEF Action
  <2>3. QED
    BY <1>1, <1>3, <1>4, <1>6, <2>1, <2>2, StageFacts
       DEF RecordSound, Incomplete, Action
<1>8. RunSound(w)'
  BY <1>6 DEF RunSound, Attending
<1>9. OneCallerPerMessage'
  BY <1>1, <1>2, <1>3, UpdateFacts
     DEF ProcessingSound, OneCallerPerMessage, Attending
<1>10. QED
  BY <1>5, <1>7, <1>8, <1>9 DEF ProcessingSound

LEMMA BeginFacts ==
  ASSUME TypeOK, ProcessingSound, NEW w \in Worker, NEW m \in Message,
         m = msg[w], BeginAction(w)
  PROVE  LET r == record[m]
             b == act[w]
         IN
         /\ r.stage = StageBefore[b] /\ r.stage # "claimed" /\ Incomplete(r)
         /\ r.action[b] = "not_started" /\ CanBeginExternalAction(r, b)
         /\ record'[m].stage = r.stage /\ record'[m].replay = r.replay
         /\ record'[m].action = [r.action EXCEPT ![b] = "uncertain"]
         /\ at'[w] = "call" /\ view'[w] = "none"
         /\ UNCHANGED <<msg, out, accepted, acked, evictions>>
         /\ \A n \in Message : n # m => record'[n] = record[n]
<1> DEFINE r == record[m]
           b == act[w]
           repl == BeginExternalAction(r, b)
<1>1. /\ r \in Record /\ b \in Action /\ "call" \in Location
      /\ RecordSound(m) /\ RunSound(w) /\ r.action \in [Action -> ActionState]
      /\ at[w] = "begin"
  BY DEF TypeOK, Location, ProcessingSound, Record, BeginAction
<1>2. /\ repl \in Record /\ repl.stage = r.stage /\ repl.replay = r.replay
      /\ repl.action = [r.action EXCEPT ![b] = "uncertain"]
  BY <1>1, BeginTransition
<1>3. /\ Update(w, repl, "call") /\ act' = act /\ answered' = answered
  BY DEF BeginAction
<1> HIDE DEF repl
<1>4. CanBeginExternalAction(r, b) /\ Incomplete(r)
  BY <1>1, <1>2, <1>3, UpdateFacts DEF Allowed
<1>5. r.stage = StageBefore[b] /\ r.stage # "claimed" /\ r.action[b] = "not_started"
  BY <1>1, <1>4, StageFacts DEF CanBeginExternalAction, Action
<1>6. QED
  BY <1>1, <1>2, <1>3, <1>4, <1>5, UpdateFacts

LEMMA BeginSound ==
  ASSUME TypeOK, ProcessingSound, NEW w \in Worker, NEW m \in Message,
         m = msg[w], BeginAction(w)
  PROVE  ProcessingSound'
<1> DEFINE r == record[m]
           b == act[w]
           repl == BeginExternalAction(r, b)
<1>1. /\ r \in Record /\ b \in Action /\ "call" \in Location
      /\ RecordSound(m) /\ RunSound(w) /\ r.action \in [Action -> ActionState]
      /\ at[w] = "begin"
  BY DEF TypeOK, Location, ProcessingSound, Record, BeginAction
<1>2. /\ repl \in Record /\ repl.stage = r.stage /\ repl.replay = r.replay
      /\ repl.action = [r.action EXCEPT ![b] = "uncertain"]
  BY <1>1, BeginTransition
<1>3. /\ Update(w, repl, "call") /\ act' = act /\ answered' = answered
  BY DEF BeginAction
<1> HIDE DEF repl
<1>4. CanBeginExternalAction(r, b) /\ Incomplete(r)
  BY BeginFacts
<1>5. r.stage = StageBefore[b] /\ r.stage # "claimed" /\ r.action[b] = "not_started"
  BY <1>1, <1>4, StageFacts DEF CanBeginExternalAction, Action
<1>6. /\ record'[m].stage = r.stage /\ record'[m].replay = r.replay
      /\ record'[m].action = [r.action EXCEPT ![b] = "uncertain"]
      /\ at'[w] = "call" /\ view'[w] = "none"
      /\ UNCHANGED <<msg, out, accepted, acked, evictions>>
  BY BeginFacts
<1>7. \A a \in Action : r.action[a] = "uncertain" => repl.action[a] = "uncertain"
  BY <1>1, <1>2
<1>8. /\ \A n \in Message : n # m => RecordSound(n)'
      /\ \A v \in Worker : v # w => RunSound(v)'
  BY <1>1, <1>2, <1>3, <1>4, <1>5, <1>7, UpdateOthers DEF Incomplete
<1>9. RecordSound(m)'
  BY <1>1, <1>3, <1>4, <1>5, <1>6, StageFacts
     DEF RecordSound, Incomplete, Action, CanBeginExternalAction
<1>10. RunSound(w)'
  <2>1. accepted[m][b] <= evictions[m]
    BY <1>1, <1>5 DEF RecordSound
  <2>2. record'[m].action[b] = "uncertain"
    BY <1>1, <1>6
  <2>3. out[w] = r.replay
    BY <1>1 DEF RunSound
  <2>4. QED
    BY <1>3, <1>4, <1>5, <1>6, <2>1, <2>2, <2>3
       DEF RunSound, Attending, Incomplete
<1>11. OneCallerPerMessage'
  <2>1. ASSUME NEW v \in Worker, v # w, msg[v] = m PROVE at[v] \notin Attending
    <3>1. RunSound(v) /\ act[v] \in Action
      BY DEF ProcessingSound, TypeOK
    <3>2. at[v] \in Attending => r.action[act[v]] = "uncertain"
      BY <2>1, <3>1 DEF RunSound
    <3>3. r.action[act[v]] = "uncertain" => StageBefore[act[v]] = StageBefore[b]
      BY <1>1, <1>5, <3>1 DEF RecordSound
    <3>4. StageBefore[act[v]] = StageBefore[b] => act[v] = b
      BY <1>1, <3>1, StageFacts DEF Action
    <3>5. QED
      BY <1>5, <3>2, <3>3, <3>4
  <2>2. /\ msg' = msg /\ \A v \in Worker : v # w => at'[v] = at[v]
    BY <1>1, <1>2, <1>3, UpdateFacts
  <2>3. QED
    BY <2>1, <2>2 DEF ProcessingSound, OneCallerPerMessage
<1>12. QED
  BY <1>8, <1>9, <1>10, <1>11 DEF ProcessingSound

LEMMA ReopenFacts ==
  ASSUME TypeOK, ProcessingSound, NEW w \in Worker, NEW m \in Message,
         m = msg[w], ReopenAction(w)
  PROVE  LET r == record[m]
             b == act[w]
         IN
         /\ r.stage = StageBefore[b] /\ r.stage # "claimed" /\ Incomplete(r)
         /\ CanResetExternalAction(r, b) /\ accepted[m][b] <= evictions[m]
         /\ record'[m].stage = r.stage /\ record'[m].replay = r.replay
         /\ record'[m].action = [r.action EXCEPT ![b] = "not_started"]
         /\ at'[w] = "idle" /\ view'[w] = "none"
         /\ UNCHANGED <<msg, out, accepted, acked, evictions>>
         /\ \A n \in Message : n # m => record'[n] = record[n]
<1> DEFINE r == record[m]
           b == act[w]
           repl == ResetExternalAction(r, b)
<1>1. /\ r \in Record /\ b \in Action /\ "idle" \in Location
      /\ RecordSound(m) /\ RunSound(w) /\ r.action \in [Action -> ActionState]
      /\ at[w] = "reset" /\ at[w] \in Attending
  BY DEF TypeOK, Location, ProcessingSound, Record, ReopenAction, Attending
<1>2. /\ repl \in Record /\ repl.stage = r.stage /\ repl.replay = r.replay
      /\ repl.action = [r.action EXCEPT ![b] = "not_started"]
  BY <1>1, ResetTransition
<1>3. /\ Update(w, repl, "idle") /\ act' = act /\ answered' = answered
  BY DEF ReopenAction
<1> HIDE DEF repl
<1>4. CanResetExternalAction(r, b) /\ Incomplete(r)
  BY <1>1, <1>2, <1>3, UpdateFacts DEF Allowed
<1>5. r.stage = StageBefore[b] /\ r.stage # "claimed" /\ accepted[m][b] <= evictions[m]
  BY <1>1, <1>4, StageFacts DEF CanResetExternalAction, Action, RunSound
<1>6. QED
  BY <1>1, <1>2, <1>3, <1>4, <1>5, UpdateFacts

LEMMA ReopenSound ==
  ASSUME TypeOK, ProcessingSound, NEW w \in Worker, NEW m \in Message,
         m = msg[w], ReopenAction(w)
  PROVE  ProcessingSound'
<1> DEFINE r == record[m]
           b == act[w]
           repl == ResetExternalAction(r, b)
<1>1. /\ r \in Record /\ b \in Action /\ "idle" \in Location
      /\ RecordSound(m) /\ RunSound(w) /\ r.action \in [Action -> ActionState]
      /\ at[w] = "reset" /\ at[w] \in Attending
  BY DEF TypeOK, Location, ProcessingSound, Record, ReopenAction, Attending
<1>2. /\ repl \in Record /\ repl.stage = r.stage /\ repl.replay = r.replay
      /\ repl.action = [r.action EXCEPT ![b] = "not_started"]
  BY <1>1, ResetTransition
<1>3. /\ Update(w, repl, "idle") /\ act' = act /\ answered' = answered
  BY DEF ReopenAction
<1> HIDE DEF repl
<1>4. CanResetExternalAction(r, b) /\ Incomplete(r)
  BY ReopenFacts
<1>5. r.stage = StageBefore[b] /\ r.stage # "claimed" /\ accepted[m][b] <= evictions[m]
  BY ReopenFacts
<1>6. /\ record'[m].stage = r.stage /\ record'[m].replay = r.replay
      /\ record'[m].action = [r.action EXCEPT ![b] = "not_started"]
      /\ at'[w] = "idle" /\ view'[w] = "none"
      /\ UNCHANGED <<msg, out, accepted, acked, evictions>>
  BY ReopenFacts
<1>7. /\ \A n \in Message : n # m => RecordSound(n)'
      /\ \A v \in Worker : v # w => RunSound(v)'
  BY <1>1, <1>2, <1>3, <1>4, <1>5, UpdateOthers DEF Incomplete
<1>8. RecordSound(m)'
  BY <1>1, <1>3, <1>4, <1>5, <1>6, StageFacts
     DEF RecordSound, Incomplete, Action, CanResetExternalAction
<1>9. RunSound(w)'
  BY <1>6 DEF RunSound, Attending
<1>10. OneCallerPerMessage'
  BY <1>1, <1>2, <1>3, UpdateFacts
     DEF ProcessingSound, OneCallerPerMessage, Attending
<1>11. QED
  BY <1>7, <1>8, <1>9, <1>10 DEF ProcessingSound

LEMMA ConfirmFacts ==
  ASSUME TypeOK, ProcessingSound, NEW w \in Worker, NEW m \in Message,
         m = msg[w], ConfirmAction(w)
  PROVE  LET r == record[m]
             b == act[w]
         IN
         /\ r.stage = StageBefore[b] /\ r.stage # "claimed" /\ Incomplete(r)
         /\ r.action[b] = "uncertain" /\ accepted[m][b] >= 1
         /\ out[w] = r.replay
         /\ b = "text" /\ r.replay.preview => acked[m]
         /\ record'[m].stage = StageAfter[b] /\ record'[m].replay = r.replay
         /\ record'[m].action = [r.action EXCEPT ![b] = "succeeded"]
         /\ at'[w] = ResumeAt(StageAfter[b], out[w]) /\ view'[w] = "none"
         /\ UNCHANGED <<msg, out, accepted, acked, evictions>>
         /\ \A n \in Message : n # m => record'[n] = record[n]
<1> DEFINE r == record[m]
           b == act[w]
           next == ResumeAt(StageAfter[b], out[w])
           repl == MarkSucceeded(r, b)
<1>1. /\ r \in Record /\ b \in Action
      /\ RecordSound(m) /\ RunSound(w) /\ r.action \in [Action -> ActionState]
      /\ at[w] = "confirm" /\ at[w] \in Attending
  BY DEF TypeOK, ProcessingSound, Record, ConfirmAction, Attending
<1>2. /\ repl \in Record /\ repl.stage = StageAfter[b] /\ repl.replay = r.replay
      /\ repl.action = [r.action EXCEPT ![b] = "succeeded"]
  BY <1>1, MarkTransition
<1>3. /\ StageAfter[b] \in {"text_sent", "document_uploaded", "document_sent"}
      /\ next \in {"begin", "finish"} /\ next \in Location
  BY <1>1, StageFacts DEF Action, ResumeAt, Location
<1>4. /\ Update(w, repl, next) /\ answered' = answered
      /\ \A v \in Worker : v # w => act'[v] = act[v]
  BY DEF ConfirmAction, TypeOK
<1> HIDE DEF repl, next
<1>5. CanMarkSucceeded(r, b) /\ Incomplete(r)
  BY <1>1, <1>2, <1>3, <1>4, UpdateFacts DEF Allowed
<1>6. /\ r.stage = StageBefore[b] /\ accepted[m][b] >= 1
      /\ r.stage # "claimed" /\ out[w] = r.replay
      /\ b = "text" /\ r.replay.preview => acked[m]
      /\ r.action[b] = "uncertain"
  BY <1>1, <1>5, StageFacts DEF CanMarkSucceeded, Action, RunSound
<1>7. QED
  BY <1>1, <1>2, <1>3, <1>4, <1>5, <1>6, UpdateFacts DEF next

LEMMA ConfirmSound ==
  ASSUME TypeOK, ProcessingSound, NEW w \in Worker, NEW m \in Message,
         m = msg[w], ConfirmAction(w)
  PROVE  ProcessingSound'
<1> DEFINE r == record[m]
           b == act[w]
           next == ResumeAt(StageAfter[b], out[w])
           repl == MarkSucceeded(r, b)
<1>1. /\ r \in Record /\ b \in Action
      /\ RecordSound(m) /\ RunSound(w) /\ r.action \in [Action -> ActionState]
      /\ at[w] = "confirm" /\ at[w] \in Attending
  BY DEF TypeOK, ProcessingSound, Record, ConfirmAction, Attending
<1>2. /\ repl \in Record /\ repl.stage = StageAfter[b] /\ repl.replay = r.replay
      /\ repl.action = [r.action EXCEPT ![b] = "succeeded"]
  BY <1>1, MarkTransition
<1>3. /\ StageAfter[b] \in {"text_sent", "document_uploaded", "document_sent"}
      /\ next \in {"begin", "finish"} /\ next \in Location
  BY <1>1, StageFacts DEF Action, ResumeAt, Location
<1>4. /\ Update(w, repl, next) /\ answered' = answered
      /\ \A v \in Worker : v # w => act'[v] = act[v]
  BY DEF ConfirmAction, TypeOK
<1> HIDE DEF repl, next
<1>5. CanMarkSucceeded(r, b) /\ Incomplete(r)
  BY <1>1, <1>2, <1>3, <1>4, UpdateFacts DEF Allowed
<1>6. /\ r.stage = StageBefore[b] /\ accepted[m][b] >= 1
      /\ r.stage # "claimed" /\ out[w] = r.replay
      /\ b = "text" /\ r.replay.preview => acked[m]
      /\ r.action[b] = "uncertain"
  BY <1>1, <1>5, StageFacts DEF CanMarkSucceeded, Action, RunSound
<1>7. /\ record'[m].stage = StageAfter[b] /\ record'[m].replay = r.replay
      /\ record'[m].action = [r.action EXCEPT ![b] = "succeeded"]
      /\ at'[w] = next /\ view'[w] = "none"
      /\ UNCHANGED <<msg, out, accepted, acked, evictions>>
  BY ConfirmFacts DEF next
<1>8. /\ \A n \in Message : n # m => RecordSound(n)'
      /\ \A v \in Worker : v # w => RunSound(v)'
  BY <1>1, <1>2, <1>3, <1>4, <1>5, <1>6, UpdateOthers DEF Incomplete
<1>9. RecordSound(m)'
  <2>1. CASE b = "text"
    BY <2>1, <1>1, <1>4, <1>6, <1>7, StageFacts
       DEF RecordSound, Incomplete, Action
  <2>2. CASE b = "upload"
    BY <2>2, <1>1, <1>4, <1>6, <1>7, StageFacts
       DEF RecordSound, Incomplete, Action
  <2>3. CASE b = "document"
    BY <2>3, <1>1, <1>4, <1>6, <1>7, StageFacts
       DEF RecordSound, Incomplete, Action
  <2>4. QED
    BY <1>1, <2>1, <2>2, <2>3 DEF Action
<1>10. RunSound(w)'
  BY <1>3, <1>6, <1>7 DEF RunSound, Attending
<1>11. OneCallerPerMessage'
  BY <1>1, <1>2, <1>3, <1>4, UpdateFacts
     DEF ProcessingSound, OneCallerPerMessage, Attending
<1>12. QED
  BY <1>8, <1>9, <1>10, <1>11 DEF ProcessingSound

LEMMA FinishFacts ==
  ASSUME TypeOK, ProcessingSound, NEW w \in Worker, NEW m \in Message,
         m = msg[w], FinishMessage(w)
  PROVE  LET r == record[m]
             b == act[w]
         IN
         /\ r.stage = IF r.replay.quotation THEN "document_sent" ELSE "text_sent"
         /\ record'[m].stage = "complete" /\ record'[m].replay = r.replay
         /\ record'[m].action = r.action
         /\ record'[m].owner = NoOwner /\ ~record'[m].leased
         /\ at'[w] = "idle" /\ view'[w] = "none"
         /\ UNCHANGED <<msg, out, accepted, acked, evictions>>
         /\ \A n \in Message : n # m => record'[n] = record[n]
<1> DEFINE r == record[m]
           repl == MarkProcessed(r)
<1>1. /\ r \in Record /\ "idle" \in Location /\ "text" \in Action
      /\ RecordSound(m) /\ RunSound(w) /\ at[w] = "finish"
      /\ r.replay \in Replay
  BY DEF TypeOK, Location, ProcessingSound, FinishMessage, Action, Record
<1>2. /\ repl \in Record /\ repl.stage = "complete" /\ repl.replay = r.replay
      /\ repl.action = r.action
  BY <1>1, CloseTransition
<1>3. /\ Update(w, repl, "idle") /\ act' = act
      /\ answered' = [answered EXCEPT ![m] = TRUE]
  BY DEF FinishMessage
<1> HIDE DEF repl
<1>4. CanMarkProcessed(r) /\ Incomplete(r)
  BY <1>1, <1>2, <1>3, UpdateFacts DEF Allowed
<1>5. r.stage = IF r.replay.quotation THEN "document_sent" ELSE "text_sent"
  BY <1>4 DEF CanMarkProcessed
<1>6. QED
  BY <1>1, <1>2, <1>3, <1>4, <1>5, UpdateFacts

LEMMA FinishSound ==
  ASSUME TypeOK, ProcessingSound, NEW w \in Worker, NEW m \in Message,
         m = msg[w], FinishMessage(w)
  PROVE  ProcessingSound'
<1> DEFINE r == record[m]
           repl == MarkProcessed(r)
<1>1. /\ r \in Record /\ "idle" \in Location /\ "text" \in Action
      /\ RecordSound(m) /\ RunSound(w) /\ at[w] = "finish"
      /\ r.replay \in Replay
  BY DEF TypeOK, Location, ProcessingSound, FinishMessage, Action, Record
<1>2. /\ repl \in Record /\ repl.stage = "complete" /\ repl.replay = r.replay
      /\ repl.action = r.action
  BY <1>1, CloseTransition
<1>3. /\ Update(w, repl, "idle") /\ act' = act
      /\ answered' = [answered EXCEPT ![m] = TRUE]
  BY DEF FinishMessage
<1> HIDE DEF repl
<1>5. r.stage = IF r.replay.quotation THEN "document_sent" ELSE "text_sent"
  BY FinishFacts
<1>6. /\ record'[m].stage = "complete" /\ record'[m].replay = r.replay
      /\ record'[m].action = r.action
      /\ record'[m].owner = NoOwner /\ ~record'[m].leased
      /\ at'[w] = "idle" /\ view'[w] = "none"
      /\ UNCHANGED <<msg, out, accepted, acked, evictions>>
  BY FinishFacts
<1>7. \A n \in Message : n # m => answered'[n] = answered[n]
  BY <1>3 DEF TypeOK
<1>8. /\ \A n \in Message : n # m => RecordSound(n)'
      /\ \A v \in Worker : v # w => RunSound(v)'
  <2>1. repl.stage \notin {"absent", "claimed"}
    BY <1>2
  <2>2. \A a \in Action : r.action[a] = "uncertain" => repl.action[a] = "uncertain"
    BY <1>2
  <2>3. QED
    BY <1>1, <1>2, <1>3, <1>7, <2>1, <2>2, UpdateOthers
<1>9. RecordSound(m)'
  <2>1. accepted[m]["text"] >= 1
    BY <1>1, <1>5, StageFacts DEF RecordSound, Action
  <2>2. \A a \in Action : r.action[a] # "uncertain"
    BY <1>1, <1>5, StageFacts DEF RecordSound, Action
  <2>3. \A a \in Action : r.action[a] = "succeeded" \/ (a # "text" /\ ~r.replay.quotation)
    BY <1>1, <1>5, StageFacts DEF RecordSound, Action
  <2>4. QED
    BY <1>1, <1>5, <1>6, <2>1, <2>2, <2>3, StageFacts
       DEF RecordSound, Incomplete, Action
<1>10. RunSound(w)'
  BY <1>6 DEF RunSound, Attending
<1>11. OneCallerPerMessage'
  BY <1>1, <1>2, <1>3, UpdateFacts
     DEF ProcessingSound, OneCallerPerMessage, Attending
<1>12. QED
  BY <1>8, <1>9, <1>10, <1>11 DEF ProcessingSound

-----------------------------------------------------------------------------
(* The invariant, and what follows from it.                                *)

LEMMA SoundStep == TypeOK /\ ProcessingSound /\ [Next]_vars => ProcessingSound'
<1> SUFFICES ASSUME TypeOK, ProcessingSound, [Next]_vars PROVE ProcessingSound'
  OBVIOUS
<1>1. ASSUME NEW w \in Worker, Step(w) PROVE ProcessingSound'
  <2>1. msg[w] \in Message
    BY DEF TypeOK
  <2>2. CASE AgentTurn(w) \/ AnswerUnsupported(w)
    BY <2>2, AgentSound
  <2>3. CASE ReadRecord(w)
    BY <2>3, ReadSound
  <2>4. CASE UpdateRefused(w)
    BY <2>4, RaiseSound DEF UpdateRefused, ghost
  <2>5. CASE SaveAgentResult(w)
    BY <2>1, <2>5, SaveSound
  <2>6. CASE BeginAction(w)
    BY <2>1, <2>6, BeginSound
  <2>7. CASE ReopenAction(w)
    BY <2>1, <2>7, ReopenSound
  <2>8. CASE ConfirmAction(w)
    BY <2>1, <2>8, ConfirmSound
  <2>9. CASE FinishMessage(w)
    BY <2>1, <2>9, FinishSound
  <2>10. CASE CallAccepted(w) \/ Acknowledge(w)
    BY <2>10, CallSound
  <2>11. CASE CallUnclear(w)
    BY <2>11, RaiseSound DEF CallUnclear, MayAccept
  <2>12. CASE AcknowledgeFails(w)
    BY <2>12, RaiseSound DEF AcknowledgeFails, ghost
  <2>13. CASE HeartbeatLost(w)
    BY <2>13, RaiseSound DEF HeartbeatLost, MayAccept
  <2>14. QED
    BY <1>1, <2>2, <2>3, <2>4, <2>5, <2>6, <2>7, <2>8, <2>9, <2>10, <2>11,
       <2>12, <2>13 DEF Step
<1>2. ASSUME NEW w \in Worker, CallRejected(w) PROVE ProcessingSound'
  BY <1>2, CallSound
<1>3. ASSUME NEW w \in Worker, Abort(w) PROVE ProcessingSound'
  BY <1>3, RaiseSound DEF Abort, MayAccept
<1>4. ASSUME NEW w \in Worker, LateRenewal(w) PROVE ProcessingSound'
  BY <1>4, RenewalSound
<1>5. ASSUME NEW m \in Message, Deliver(m) PROVE ProcessingSound'
  BY <1>5, ClaimSound, DuplicateSound DEF Deliver
<1>6. ASSUME NEW m \in Message, OwnerStalls(m) \/ LeaseRunsOut(m)
      PROVE  ProcessingSound'
  BY <1>6, LeaseSound DEF OwnerStalls, LeaseRunsOut
<1>7. ASSUME NEW m \in Message, Evict(m) PROVE ProcessingSound'
  BY <1>7, EvictSound
<1>8. CASE UNCHANGED vars
  <2>1. ASSUME NEW m \in Message PROVE RecordSound(m)'
    BY <1>8, RecordFrame DEF ProcessingSound, vars, ghost
  <2>2. ASSUME NEW w \in Worker PROVE RunSound(w)'
    BY <1>8, RunFrame DEF ProcessingSound, vars, ghost, run
  <2>3. OneCallerPerMessage'
    BY <1>8 DEF ProcessingSound, OneCallerPerMessage, vars, run
  <2>4. QED
    BY <2>1, <2>2, <2>3 DEF ProcessingSound
<1>9. QED
  BY <1>1, <1>2, <1>3, <1>4, <1>5, <1>6, <1>7, <1>8 DEF Next

\* The inductive invariant holds of every reachable state.
THEOREM SoundProcessing == Spec => [](TypeOK /\ ProcessingSound)
<1>1. Init => TypeOK /\ ProcessingSound
  BY TypeInit, SoundInit
<1>2. TypeOK /\ ProcessingSound /\ [Next]_vars => (TypeOK /\ ProcessingSound)'
  BY TypeStep, SoundStep
<1>3. QED
  BY <1>1, <1>2, PTL DEF Spec

\* Each part of a reply is accepted at most once in the lifetime of a record.
THEOREM AtMostOnce == Spec => []AtMostOnceDelivery
<1>1. ProcessingSound => AtMostOnceDelivery
  BY DEF ProcessingSound, RecordSound, AtMostOnceDelivery
<1>2. QED
  BY <1>1, SoundProcessing, PTL

\* No two runs attend to calls of one message at the same time.
THEOREM OneCaller == Spec => []OneCallerPerMessage
<1>1. ProcessingSound => OneCallerPerMessage
  BY DEF ProcessingSound
<1>2. QED
  BY <1>1, SoundProcessing, PTL

\* A completed or answered message has been delivered.
THEOREM CompletionIsDelivery == Spec => []CompleteMeansDelivered
<1>1. TypeOK /\ ProcessingSound => CompleteMeansDelivered
  <2> SUFFICES ASSUME TypeOK, ProcessingSound, NEW m \in Message
               PROVE  /\ answered[m] => accepted[m]["text"] >= 1
                      /\ record[m].stage = "complete" =>
                           /\ accepted[m]["text"] >= 1
                           /\ record[m].replay.preview => acked[m]
                           /\ record[m].replay.quotation =>
                                /\ accepted[m]["upload"] >= 1
                                /\ accepted[m]["document"] >= 1
    BY DEF CompleteMeansDelivered
  <2>1. RecordSound(m)
    BY DEF ProcessingSound
  <2>2. QED
    BY <2>1, StageFacts DEF RecordSound, Action
<1>2. QED
  BY <1>1, SoundProcessing, PTL

\* Every record the scripts leave in Redis passes the model validator.
THEOREM RecordsValid == Spec => []StoredRecordsValid
<1>1. TypeOK /\ ProcessingSound => StoredRecordsValid
  <2> SUFFICES ASSUME TypeOK, ProcessingSound, NEW m \in Message
               PROVE  ValidRecord(record[m])
    BY DEF StoredRecordsValid
  <2>1. RecordSound(m) /\ record[m] \in Record
    BY DEF ProcessingSound, TypeOK
  <2>2. record[m].stage \in Stage
    BY <2>1, RecordShape
  <2>3. QED
    BY <2>1, <2>2, StageFacts DEF RecordSound, ValidRecord, Stage, Action
<1>2. QED
  BY <1>1, SoundProcessing, PTL

-----------------------------------------------------------------------------
(* Agent turns are paid for.  RerunsNeedFaults is not inductive: a turn is  *)
(* counted when it has been taken, and a fault when an owner is lost, while *)
(* the rerun comes later.  What a message may still cost is therefore       *)
(* counted with what it has cost: the runs about to take their turn, and    *)
(* one more when its record can be claimed for a first result.              *)

AtAgent(m) == {w \in Worker : at[w] = "agent" /\ msg[w] = m}

\* w works on the first result of m under a lease, and will store it unless
\* a fault comes between.
WorksFor(w, m) ==
  /\ record[m].owner = w /\ record[m].leased
  /\ msg[w] = m
  /\ (at[w] = "agent" \/ (at[w] = "save" /\ view[w] # "stale"))

\* A delivery of m may take, or take over, the work on its first result.
Vacant(m) ==
  \/ record[m].stage = "absent"
  \/ record[m].stage = "claimed" /\ ~ \E w \in Worker : WorksFor(w, m)
Vacancy(m) == IF Vacant(m) THEN 1 ELSE 0

TurnsPaid(m) ==
  /\ IsFiniteSet(AtAgent(m))
  /\ turns[m] + Cardinality(AtAgent(m)) + Vacancy(m) <= 1 + faults + evictions[m]

LEMMA PaidTypes ==
  ASSUME TypeOK, NEW m \in Message, TurnsPaid(m)
  PROVE  /\ turns[m] \in Nat /\ faults \in Nat /\ evictions[m] \in Nat
         /\ Cardinality(AtAgent(m)) \in Nat
         /\ Vacancy(m) \in {0, 1}
BY FS_CardinalityType DEF TypeOK, TurnsPaid, Vacancy

\* A step that starts no turn keeps the account, unless it makes the message
\* vacant without a fault.
LEMMA PaidFrame ==
  ASSUME TypeOK, TypeOK', NEW m \in Message, TurnsPaid(m), NEW w,
         AtAgent(m)' = AtAgent(m) \/ AtAgent(m)' = AtAgent(m) \ {w},
         turns'[m] = turns[m], evictions'[m] = evictions[m],
         faults' = faults \/ faults' = faults + 1,
         Vacant(m)' => Vacant(m) \/ faults' = faults + 1
  PROVE  TurnsPaid(m)'
<1>1. /\ IsFiniteSet(AtAgent(m)')
      /\ Cardinality(AtAgent(m)') \in Nat
      /\ Cardinality(AtAgent(m)') <= Cardinality(AtAgent(m))
  <2>1. IsFiniteSet(AtAgent(m)) /\ Cardinality(AtAgent(m)) \in Nat
    BY FS_CardinalityType DEF TurnsPaid
  <2>2. CASE AtAgent(m)' = AtAgent(m)
    BY <2>1, <2>2
  <2>3. CASE AtAgent(m)' = AtAgent(m) \ {w}
    <3>1. /\ IsFiniteSet(AtAgent(m) \ {w})
          /\ Cardinality(AtAgent(m) \ {w}) =
               IF w \in AtAgent(m) THEN Cardinality(AtAgent(m)) - 1
               ELSE Cardinality(AtAgent(m))
      BY <2>1, FS_RemoveElement
    <3>2. Cardinality(AtAgent(m) \ {w}) \in Nat
      BY <3>1, FS_CardinalityType
    <3>3. QED
      BY <2>1, <2>3, <3>1, <3>2
  <2>4. QED
    BY <2>2, <2>3
<1>2. Vacancy(m)' <= Vacancy(m) + (faults' - faults) /\ Vacancy(m)' \in {0, 1}
  <2>1. faults \in Nat
    BY DEF TypeOK
  <2>2. Vacancy(m)' \in {0, 1} /\ Vacancy(m) \in {0, 1}
    BY DEF Vacancy
  <2>3. Vacancy(m)' <= Vacancy(m) \/ faults' = faults + 1
    BY DEF Vacancy
  <2>4. QED
    BY <2>1, <2>2, <2>3
<1>3. turns'[m] + Cardinality(AtAgent(m)') + Vacancy(m)' <= 1 + faults' + evictions'[m]
  <2>1. turns[m] + Cardinality(AtAgent(m)) + Vacancy(m) <= 1 + faults + evictions[m]
    BY DEF TurnsPaid
  <2>2. turns'[m] = turns[m] /\ evictions'[m] = evictions[m] /\ faults' \in Nat
    BY DEF TypeOK
  <2>3. QED
    BY <1>1, <1>2, <2>1, <2>2, PaidTypes
<1>4. QED
  BY <1>1, <1>3 DEF TurnsPaid

\* A run at work on the first result of a message has its record claimed.
LEMMA WorkedFor ==
  ASSUME TypeOK, ProcessingSound, NEW w \in Worker, NEW m \in Message,
         WorksFor(w, m), record[m].stage = "claimed"
  PROVE  /\ Renewable(record[m], w) /\ msg[w] = m
         /\ at[w] \in {"agent", "save"}
         /\ view[w] # "none" =>
              view[w] = "fresh" /\ Updatable(record[m], w, TRUE) /\ at[w] = "save"
<1>1. view[w] # "none" => at[w] \in Mutation
  BY DEF ProcessingSound, RunSound
<1>2. QED
  BY <1>1 DEF WorksFor, Renewable, Incomplete, Updatable, Mutation, TypeOK

\* A run that ends without having lost its message to a fault or to another
\* delivery would leave it vacant for nothing.
LEMMA RaisePaid ==
  ASSUME TypeOK, TypeOK', NEW w \in Worker, Raise(w),
         UNCHANGED <<record, turns, evictions>>,
         faults' = faults \/ faults' = faults + 1,
         \/ faults' = faults + 1
         \/ record[msg[w]].stage = "claimed" => ~WorksFor(w, msg[w]),
         NEW m \in Message, TurnsPaid(m)
  PROVE  TurnsPaid(m)'
<1>1. /\ at'[w] = "idle" /\ msg' = msg
      /\ \A v \in Worker : v # w => UNCHANGED <<at[v], view[v]>>
  BY DEF Raise, TypeOK
<1>2. AtAgent(m)' = AtAgent(m) \ {w}
  BY <1>1 DEF AtAgent
<1>3. ASSUME NEW v \in Worker, v # w, WorksFor(v, m) PROVE WorksFor(v, m)'
  BY <1>1, <1>3 DEF WorksFor
<1>4. Vacant(m)' => Vacant(m) \/ faults' = faults + 1
  <2> SUFFICES ASSUME Vacant(m)', ~Vacant(m), faults' # faults + 1 PROVE FALSE
    OBVIOUS
  <2>1. record[m].stage = "claimed" /\ ~ \E v \in Worker : WorksFor(v, m)'
    BY DEF Vacant
  <2>2. PICK v \in Worker : WorksFor(v, m)
    BY <2>1 DEF Vacant
  <2>3. v = w
    BY <1>3, <2>1, <2>2
  <2>4. QED
    BY <2>1, <2>2, <2>3 DEF WorksFor
<1>5. QED
  BY <1>2, <1>4, PaidFrame

\* A step that neither raises nor claims, and leaves the record and the reads
\* as they are: no run at work stops.
LEMMA CallPaid ==
  ASSUME TypeOK, TypeOK', NEW w \in Worker,
         CallAccepted(w) \/ CallRejected(w) \/ Acknowledge(w),
         NEW m \in Message, TurnsPaid(m)
  PROVE  TurnsPaid(m)'
<1>1. /\ UNCHANGED <<record, msg, view, turns, evictions>>
      /\ faults' = faults \/ faults' = faults + 1
      /\ \A v \in Worker : v # w => at'[v] = at[v]
      /\ at[w] \in {"call", "ack"} /\ at'[w] \in {"ack", "confirm", "reset"}
  BY DEF CallAccepted, CallRejected, Acknowledge, Fault, ghost, TypeOK
<1>2. AtAgent(m)' = AtAgent(m)
  BY <1>1 DEF AtAgent
<1>3. \A v \in Worker : WorksFor(v, m) => WorksFor(v, m)'
  BY <1>1 DEF WorksFor
<1>4. Vacant(m)' => Vacant(m)
  BY <1>1, <1>3 DEF Vacant
<1>5. QED
  BY <1>1, <1>2, <1>4, PaidFrame

\* An update leaves a record that is past its first result.
LEMMA UpdatePaid ==
  ASSUME TypeOK, TypeOK', NEW w \in Worker, NEW r, NEW next,
         Update(w, r, next), at[w] # "agent", next # "agent", r \in Record,
         r.stage \notin {"absent", "claimed"},
         NEW m \in Message, TurnsPaid(m)
  PROVE  TurnsPaid(m)'
<1>1. /\ UNCHANGED <<msg, turns, evictions, faults>>
      /\ at'[w] = next /\ \A v \in Worker : v # w => at'[v] = at[v]
      /\ \A v \in Worker : v # w /\ msg[v] # msg[w] => view'[v] = view[v]
      /\ record'[msg[w]].stage = r.stage
      /\ m # msg[w] => record'[m] = record[m]
  BY StoredFields DEF Update, Overwrite, TypeOK
<1>2. AtAgent(m)' = AtAgent(m)
  BY <1>1 DEF AtAgent
<1>3. m # msg[w] => \A v \in Worker : WorksFor(v, m) => WorksFor(v, m)'
  BY <1>1 DEF WorksFor
<1>4. Vacant(m)' => Vacant(m)
  BY <1>1, <1>3 DEF Vacant
<1>5. QED
  BY <1>1, <1>2, <1>4, PaidFrame

\* The turn a run has taken is the one it was counted for.
LEMMA AgentPaid ==
  ASSUME TypeOK, TypeOK', ProcessingSound, NEW w \in Worker,
         AgentTurn(w) \/ AnswerUnsupported(w),
         NEW m \in Message, TurnsPaid(m)
  PROVE  TurnsPaid(m)'
<1>1. /\ UNCHANGED <<record, msg, view, evictions, faults>>
      /\ at[w] = "agent" /\ at'[w] = "save"
      /\ \A v \in Worker : v # w => at'[v] = at[v]
      /\ turns'[m] = turns[m] \/ (msg[w] = m /\ turns'[m] = turns[m] + 1)
  BY DEF AgentTurn, AnswerUnsupported, ghost, TypeOK
<1>2. view[w] # "stale"
  BY <1>1 DEF ProcessingSound, RunSound, Mutation
<1>3. AtAgent(m)' = AtAgent(m) \ {w}
  BY <1>1 DEF AtAgent
<1>4. \A v \in Worker : WorksFor(v, m) => WorksFor(v, m)'
  BY <1>1, <1>2 DEF WorksFor
<1>5. Vacant(m)' => Vacant(m)
  BY <1>1, <1>4 DEF Vacant
<1>6. CASE turns'[m] = turns[m]
  BY <1>1, <1>3, <1>5, <1>6, PaidFrame
<1>7. CASE msg[w] = m /\ turns'[m] = turns[m] + 1
  <2>1. w \in AtAgent(m) /\ IsFiniteSet(AtAgent(m))
    BY <1>1, <1>7 DEF AtAgent, TurnsPaid
  <2>2. /\ IsFiniteSet(AtAgent(m)')
        /\ Cardinality(AtAgent(m)') = Cardinality(AtAgent(m)) - 1
    BY <1>3, <2>1, FS_RemoveElement
  <2>3. Vacancy(m)' <= Vacancy(m) /\ Vacancy(m)' \in {0, 1}
    BY <1>5 DEF Vacancy
  <2>4. turns[m] + Cardinality(AtAgent(m)) + Vacancy(m) <= 1 + faults + evictions[m]
    BY DEF TurnsPaid
  <2>5. turns'[m] + Cardinality(AtAgent(m)') + Vacancy(m)' <= 1 + faults' + evictions'[m]
    BY <1>1, <1>7, <2>2, <2>3, <2>4, PaidTypes
  <2>6. QED
    BY <2>2, <2>5 DEF TurnsPaid
<1>8. QED
  BY <1>1, <1>6, <1>7

\* Only a message that is vacant can be claimed for a first result, and it is
\* taken with the claim.
LEMMA ClaimPaid ==
  ASSUME TypeOK, TypeOK', ProcessingSound,
         NEW w \in Worker, NEW n \in Message, Claim(w, n),
         NEW m \in Message, TurnsPaid(m)
  PROVE  TurnsPaid(m)'
<1> DEFINE d == Disowned(w)
           won == ClaimedBy(d[n], w)
<1>1. /\ at[w] = "idle" /\ d[n].stage # "complete"
      /\ record' = [d EXCEPT ![n] = won]
      /\ at'[w] = IF HasUncertainExternalAction(won) THEN "idle"
                  ELSE ResumeAt(won.stage, won.replay)
      /\ msg'[w] = n
      /\ \A v \in Worker : v # w => UNCHANGED <<at[v], msg[v]>>
      /\ \A v \in Worker : v # w /\ msg[v] # n => view'[v] = view[v]
      /\ view'[w] = "none"
      /\ UNCHANGED <<turns, evictions, faults>>
  BY DEF Claim, ClaimDecision, Overwrite, ghost, TypeOK
<1>2. /\ d \in [Message -> Record]
      /\ \A k \in Message : k # n => record'[k] = d[k]
      /\ record'[n] = won
  BY <1>1, DisownedFields DEF Disowned
<1>3. /\ won.owner = w /\ won.leased
      /\ record[n].stage # "absent" =>
           won.stage = record[n].stage /\ won.action = record[n].action
      /\ record[n].stage = "absent" =>
           /\ won.stage = "claimed"
           /\ \A a \in Action : won.action[a] = "not_started"
  BY <1>1, <1>2, ClaimedFields, DisownedFields
<1>4. d[n].owner = w \/ ~d[n].leased \/ d[n].stage = "absent"
  BY <1>1 DEF Claim, ClaimDecision
<1>5. d[n].owner # w
  BY NoOwnerAssumption DEF Disowned, TypeOK, Record
<1>6. record[n].leased => record[n].stage = "absent"
  BY <1>4, <1>5, DisownedFields
<1> HIDE DEF d, won
<1>7. CASE m # n
  <2>1. AtAgent(m)' = AtAgent(m)
    BY <1>1, <1>7 DEF AtAgent
  <2>2. /\ record'[m].stage = record[m].stage
        /\ record'[m].leased = record[m].leased
        /\ record[m].owner # w => record'[m].owner = record[m].owner
    BY <1>2, <1>7, DisownedFields DEF d
  <2>3. \A v \in Worker : WorksFor(v, m) => WorksFor(v, m)'
    BY <1>1, <1>7, <2>2 DEF WorksFor
  <2>4. Vacant(m)' => Vacant(m)
    BY <2>2, <2>3 DEF Vacant
  <2>5. QED
    BY <1>1, <2>1, <2>4, PaidFrame
<1>8. CASE m = n /\ record[n].stage \in {"absent", "claimed"}
  <2>1. Vacant(m)
    BY <1>6, <1>8 DEF Vacant, WorksFor
  <2>2. won.stage = "claimed" /\ ~HasUncertainExternalAction(won)
    <3>1. RecordSound(n)
      BY DEF ProcessingSound
    <3>2. QED
      BY <1>3, <1>8, <3>1, StageFacts
         DEF RecordSound, HasUncertainExternalAction, Action
  <2>3. at'[w] = "agent"
    BY <1>1, <2>2 DEF ResumeAt
  <2>4. WorksFor(w, m)'
    BY <1>1, <1>2, <1>3, <1>8, <2>3 DEF WorksFor
  <2>5. ~Vacant(m)'
    BY <1>2, <1>8, <2>2, <2>4 DEF Vacant
  <2>6. AtAgent(m)' = AtAgent(m) \cup {w} /\ w \notin AtAgent(m)
    BY <1>1, <1>8, <2>3 DEF AtAgent
  <2>7. /\ IsFiniteSet(AtAgent(m)')
        /\ Cardinality(AtAgent(m)') = Cardinality(AtAgent(m)) + 1
    BY <2>6, FS_AddElement DEF TurnsPaid
  <2>8. Vacancy(m) = 1 /\ Vacancy(m)' = 0
    BY <2>1, <2>5 DEF Vacancy
  <2>9. turns[m] + Cardinality(AtAgent(m)) + Vacancy(m) <= 1 + faults + evictions[m]
    BY DEF TurnsPaid
  <2>10. turns'[m] + Cardinality(AtAgent(m)') + Vacancy(m)' <= 1 + faults' + evictions'[m]
    BY <1>1, <2>7, <2>8, <2>9, PaidTypes
  <2>11. QED
    BY <2>7, <2>10 DEF TurnsPaid
<1>9. CASE m = n /\ record[n].stage \notin {"absent", "claimed"}
  <2>1. won.stage \notin {"absent", "claimed"}
    BY <1>3, <1>9
  <2>2. at'[w] # "agent"
    BY <1>1, <2>1 DEF ResumeAt
  <2>3. AtAgent(m)' = AtAgent(m)
    BY <1>1, <2>2 DEF AtAgent
  <2>4. ~Vacant(m)'
    BY <1>2, <1>9, <2>1 DEF Vacant
  <2>5. QED
    BY <1>1, <2>3, <2>4, PaidFrame
<1>10. QED
  BY <1>7, <1>8, <1>9

\* A stalled owner loses its message to a fault; a lease that runs out has no
\* run at work under it.
LEMMA LeasePaid ==
  ASSUME TypeOK, TypeOK', NEW n \in Message, OwnerStalls(n) \/ LeaseRunsOut(n),
         NEW m \in Message, TurnsPaid(m)
  PROVE  TurnsPaid(m)'
<1>1. /\ UNCHANGED <<at, msg, view, turns, evictions>>
      /\ record' = [record EXCEPT ![n] = [record[n] EXCEPT !.leased = FALSE]]
      /\ faults' = faults + 1 \/ (faults' = faults /\ ~OwnerActive(n))
  BY DEF OwnerStalls, LeaseRunsOut, LeaseExpires, Fault, run, ghost
<1>2. AtAgent(m)' = AtAgent(m)
  BY <1>1 DEF AtAgent
<1>3. /\ record'[m].stage = record[m].stage
      /\ m # n => record'[m] = record[m]
  BY <1>1 DEF TypeOK, Record
<1>4. m # n => \A w \in Worker : WorksFor(w, m) => WorksFor(w, m)'
  BY <1>1, <1>3 DEF WorksFor
<1>5. ~OwnerActive(n) => \A w \in Worker : ~WorksFor(w, n)
  BY DEF OwnerActive, Active, WorksFor
<1>6. Vacant(m)' => Vacant(m) \/ faults' = faults + 1
  BY <1>1, <1>3, <1>4, <1>5 DEF Vacant
<1>7. QED
  BY <1>1, <1>2, <1>6, PaidFrame

\* A key that expires has no run left, and starts the message over.
LEMMA EvictPaid ==
  ASSUME TypeOK, TypeOK', NEW n \in Message, Evict(n),
         NEW m \in Message, TurnsPaid(m)
  PROVE  TurnsPaid(m)'
<1>1. /\ UNCHANGED <<at, msg, view, turns, faults>>
      /\ record' = [record EXCEPT ![n] = Absent]
      /\ evictions' = [evictions EXCEPT ![n] = @ + 1]
      /\ record[n].stage # "absent"
  BY DEF Evict, run, ghost
<1>2. AtAgent(m)' = AtAgent(m)
  BY <1>1 DEF AtAgent
<1>3. CASE m # n
  <2>1. record'[m] = record[m] /\ evictions'[m] = evictions[m]
    BY <1>1, <1>3 DEF TypeOK
  <2>2. \A w \in Worker : WorksFor(w, m) => WorksFor(w, m)'
    BY <1>1, <2>1 DEF WorksFor
  <2>3. Vacant(m)' => Vacant(m)
    BY <2>1, <2>2 DEF Vacant
  <2>4. QED
    BY <1>1, <1>2, <2>1, <2>3, PaidFrame
<1>4. CASE m = n
  <2>1. evictions'[m] = evictions[m] + 1
    BY <1>1, <1>4 DEF TypeOK
  <2>2. Vacancy(m)' \in {0, 1}
    BY DEF Vacancy
  <2>3. turns[m] + Cardinality(AtAgent(m)) + Vacancy(m) <= 1 + faults + evictions[m]
    BY DEF TurnsPaid
  <2>4. turns'[m] + Cardinality(AtAgent(m)') + Vacancy(m)' <= 1 + faults' + evictions'[m]
    BY <1>1, <1>2, <2>1, <2>2, <2>3, PaidTypes
  <2>5. IsFiniteSet(AtAgent(m)')
    BY <1>2 DEF TurnsPaid
  <2>6. QED
    BY <2>4, <2>5 DEF TurnsPaid
<1>5. QED
  BY <1>3, <1>4

LEMMA UpdatesPaid ==
  ASSUME TypeOK, TypeOK', ProcessingSound, NEW w \in Worker,
         \/ SaveAgentResult(w) \/ BeginAction(w) \/ ReopenAction(w)
         \/ ConfirmAction(w) \/ FinishMessage(w),
         NEW m \in Message, TurnsPaid(m)
  PROVE  TurnsPaid(m)'
<1> DEFINE n == msg[w]
           r == record[n]
<1>1. n \in Message /\ r \in Record /\ act[w] \in Action /\ out[w] \in Replay
  BY DEF TypeOK
<1>2. CASE SaveAgentResult(w)
  <2>1. SaveResult(r, out[w]) \in Record /\ SaveResult(r, out[w]).stage = "result_saved"
    BY <1>1, Transitions, TransitionFields
  <2>2. QED
    BY <1>2, <2>1, UpdatePaid DEF SaveAgentResult
<1>3. CASE BeginAction(w)
  <2>1. r.stage \notin {"absent", "claimed"}
    BY <1>3 DEF ProcessingSound, RunSound, BeginAction
  <2>2. /\ BeginExternalAction(r, act[w]) \in Record
        /\ BeginExternalAction(r, act[w]).stage = r.stage
    BY <1>1, BeginTransition
  <2>3. QED
    BY <1>3, <2>1, <2>2, UpdatePaid DEF BeginAction
<1>4. CASE ReopenAction(w)
  <2>1. r.stage \notin {"absent", "claimed"}
    BY <1>4 DEF ProcessingSound, RunSound, ReopenAction, Attending
  <2>2. /\ ResetExternalAction(r, act[w]) \in Record
        /\ ResetExternalAction(r, act[w]).stage = r.stage
    BY <1>1, ResetTransition
  <2>3. QED
    BY <1>4, <2>1, <2>2, UpdatePaid DEF ReopenAction
<1>5. CASE ConfirmAction(w)
  <2>1. StageAfter[act[w]] \notin {"absent", "claimed"}
    BY <1>1, StageFacts DEF Action
  <2>2. /\ MarkSucceeded(r, act[w]) \in Record
        /\ MarkSucceeded(r, act[w]).stage = StageAfter[act[w]]
    BY <1>1, MarkTransition
  <2>3. ResumeAt(StageAfter[act[w]], out[w]) # "agent"
    BY <2>1 DEF ResumeAt
  <2>4. QED
    BY <1>5, <2>1, <2>2, <2>3, UpdatePaid DEF ConfirmAction
<1>6. CASE FinishMessage(w)
  <2>1. MarkProcessed(r) \in Record /\ MarkProcessed(r).stage = "complete"
    BY <1>1, CloseTransition
  <2>2. QED
    BY <1>6, <2>1, UpdatePaid DEF FinishMessage
<1>7. QED
  BY <1>2, <1>3, <1>4, <1>5, <1>6

\* What ends a run that works for its message is a fault.
LEMMA RunsEndPaid ==
  ASSUME TypeOK, TypeOK', ProcessingSound, NEW w \in Worker,
         \/ ReadRecord(w) \/ UpdateRefused(w) \/ CallUnclear(w)
         \/ AcknowledgeFails(w) \/ HeartbeatLost(w) \/ Abort(w),
         NEW m \in Message, TurnsPaid(m)
  PROVE  TurnsPaid(m)'
<1> DEFINE n == msg[w]
           working == record[n].stage = "claimed" /\ WorksFor(w, n)
<1>1. n \in Message
  BY DEF TypeOK
<1>2. UNCHANGED <<record, turns, evictions>>
  BY DEF ReadRecord, UpdateRefused, CallUnclear, AcknowledgeFails,
         HeartbeatLost, Abort, ghost
<1>3. CASE Abort(w)
  BY <1>2, <1>3, RaisePaid DEF Abort, Fault
<1>4. CASE HeartbeatLost(w)
  <2>1. ~working
    BY <1>1, <1>4, WorkedFor DEF HeartbeatLost
  <2>2. QED
    BY <1>2, <1>4, <2>1, RaisePaid DEF HeartbeatLost
<1>5. CASE CallUnclear(w) \/ AcknowledgeFails(w)
  <2>1. ~working
    BY <1>1, <1>5, WorkedFor DEF CallUnclear, AcknowledgeFails
  <2>2. QED
    BY <1>2, <1>5, <2>1, RaisePaid DEF CallUnclear, AcknowledgeFails
<1>6. CASE UpdateRefused(w)
  <2>1. ~working
    BY <1>1, <1>6, WorkedFor DEF UpdateRefused
  <2>2. QED
    BY <1>2, <1>6, <2>1, RaisePaid DEF UpdateRefused
<1>7. CASE ReadRecord(w) /\ Raise(w)
  <2>1. ~(record[n].owner = w /\ Incomplete(record[n]) /\ Allowed(w, record[n]))
        \/ view'[w] = "fresh"
    BY <1>7 DEF ReadRecord, TypeOK
  <2>2. view'[w] = "none"
    BY <1>7 DEF Raise, TypeOK
  <2>3. working => at[w] = "save" /\ Allowed(w, record[n])
    <3>1. at[w] # "agent"
      BY <1>7 DEF ReadRecord, Mutation
    <3>2. working => at[w] = "save"
      BY <1>1, <3>1, WorkedFor
    <3>3. QED
      BY <3>2 DEF Allowed, CanSaveResult
  <2>4. working => record[n].owner = w /\ Incomplete(record[n])
    BY DEF WorksFor, Incomplete
  <2>5. ~working
    BY <2>1, <2>2, <2>3, <2>4
  <2>6. QED
    BY <1>2, <1>7, <2>5, RaisePaid DEF ReadRecord
<1>8. CASE ReadRecord(w) /\ ~Raise(w)
  <2>1. /\ UNCHANGED <<record, at, msg, turns, evictions, faults>>
        /\ view' = [view EXCEPT ![w] = "fresh"]
    BY <1>8 DEF ReadRecord, ghost
  <2>2. AtAgent(m)' = AtAgent(m)
    BY <2>1 DEF AtAgent
  <2>3. \A v \in Worker : WorksFor(v, m) => WorksFor(v, m)'
    BY <2>1 DEF WorksFor, TypeOK
  <2>4. Vacant(m)' => Vacant(m)
    BY <2>1, <2>3 DEF Vacant
  <2>5. QED
    BY <2>1, <2>2, <2>4, PaidFrame
<1>9. QED
  BY <1>3, <1>4, <1>5, <1>6, <1>7, <1>8

LEMMA PaidStep ==
  ASSUME TypeOK, TypeOK', ProcessingSound, [Next]_vars,
         NEW m \in Message, TurnsPaid(m)
  PROVE  TurnsPaid(m)'
<1>1. ASSUME NEW w \in Worker, Step(w) PROVE TurnsPaid(m)'
  BY <1>1, AgentPaid, RunsEndPaid, UpdatesPaid, CallPaid DEF Step
<1>2. ASSUME NEW w \in Worker, CallRejected(w) \/ Abort(w) PROVE TurnsPaid(m)'
  BY <1>2, CallPaid, RunsEndPaid
<1>3. ASSUME NEW w \in Worker, LateRenewal(w) PROVE TurnsPaid(m)'
  <2>1. /\ UNCHANGED <<record, at, msg, turns, evictions>>
        /\ faults' = faults + 1
    BY <1>3 DEF LateRenewal, Fault, ghost
  <2>2. AtAgent(m)' = AtAgent(m)
    BY <2>1 DEF AtAgent
  <2>3. QED
    BY <2>1, <2>2, PaidFrame
<1>4. ASSUME NEW n \in Message, Deliver(n) PROVE TurnsPaid(m)'
  <2>1. PICK w \in Worker : Claim(w, n) \/ ClaimDuplicate(w, n)
    BY <1>4 DEF Deliver
  <2>2. CASE Claim(w, n)
    BY <2>2, ClaimPaid
  <2>3. CASE ClaimDuplicate(w, n)
    <3>1. UNCHANGED <<record, at, msg, view, turns, evictions, faults>>
      BY <2>3 DEF ClaimDuplicate, run
    <3>2. AtAgent(m)' = AtAgent(m) /\ Vacant(m)' = Vacant(m)
      BY <3>1 DEF AtAgent, Vacant, WorksFor
    <3>3. QED
      BY <3>1, <3>2, PaidFrame
  <2>4. QED
    BY <2>1, <2>2, <2>3
<1>5. ASSUME NEW n \in Message, OwnerStalls(n) \/ LeaseRunsOut(n) \/ Evict(n)
      PROVE  TurnsPaid(m)'
  BY <1>5, LeasePaid, EvictPaid
<1>6. CASE UNCHANGED vars
  <2>1. UNCHANGED <<record, at, msg, view, turns, evictions, faults>>
    BY <1>6 DEF vars, run, ghost
  <2>2. AtAgent(m)' = AtAgent(m) /\ Vacant(m)' = Vacant(m)
    BY <2>1 DEF AtAgent, Vacant, WorksFor
  <2>3. QED
    BY <2>1, <2>2, PaidFrame
<1>7. QED
  BY <1>1, <1>2, <1>3, <1>4, <1>5, <1>6 DEF Next

LEMMA PaidInit == ASSUME Init, NEW m \in Message PROVE TurnsPaid(m)
<1>1. AtAgent(m) = {} /\ turns[m] = 0 /\ faults = 0 /\ evictions[m] = 0
  BY DEF Init, AtAgent
<1>2. Vacancy(m) \in {0, 1}
  BY DEF Vacancy
<1>3. QED
  BY <1>1, <1>2, FS_EmptySet DEF TurnsPaid

\* The agent repeats a turn only after a fault or an expiry of the key: for
\* any number of deliveries, messages and faults.
THEOREM RerunsPaid == Spec => []RerunsNeedFaults
<1> DEFINE AllPaid == \A m \in Message : TurnsPaid(m)
<1>1. Init => AllPaid
  BY PaidInit
<1>2. TypeOK /\ ProcessingSound /\ TypeOK' /\ AllPaid /\ [Next]_vars => AllPaid'
  BY PaidStep
<1>3. TypeOK /\ AllPaid => RerunsNeedFaults
  <2> SUFFICES ASSUME TypeOK, AllPaid, NEW m \in Message
               PROVE  turns[m] <= 1 + faults + evictions[m]
    BY DEF RerunsNeedFaults
  <2>1. turns[m] + Cardinality(AtAgent(m)) + Vacancy(m) <= 1 + faults + evictions[m]
    BY DEF TurnsPaid
  <2>2. QED
    BY <2>1, PaidTypes
<1> HIDE DEF AllPaid
<1>4. QED
  BY <1>1, <1>2, <1>3, SoundProcessing, PTL DEF Spec

-----------------------------------------------------------------------------
(* What a step can do to the record of a message: the eight changes the     *)
(* action properties and the refinement are proved from.                    *)

Kept(m) ==
  /\ record'[m].stage = record[m].stage /\ record'[m].replay = record[m].replay
  /\ record'[m].action = record[m].action
Created(m) ==
  /\ record[m].stage = "absent" /\ record'[m].stage = "claimed"
  /\ \A a \in Action : record[m].action[a] = "not_started"
Decided(m) ==
  /\ record[m].stage = "claimed" /\ record'[m].stage = "result_saved"
  /\ record'[m].action = record[m].action
Begun(m, a) ==
  /\ record'[m].stage = record[m].stage /\ record'[m].replay = record[m].replay
  /\ record[m].action[a] = "not_started"
  /\ record'[m].action = [record[m].action EXCEPT ![a] = "uncertain"]
Reopened(m, a) ==
  /\ record'[m].stage = record[m].stage /\ record'[m].replay = record[m].replay
  /\ record[m].action[a] = "uncertain" /\ accepted[m][a] <= evictions[m]
  /\ record'[m].action = [record[m].action EXCEPT ![a] = "not_started"]
Confirmed(m, a) ==
  /\ record[m].stage = StageBefore[a] /\ record'[m].stage = StageAfter[a]
  /\ record'[m].replay = record[m].replay
  /\ record'[m].action = [record[m].action EXCEPT ![a] = "succeeded"]
Completed(m) ==
  /\ record[m].stage = IF record[m].replay.quotation THEN "document_sent"
                       ELSE "text_sent"
  /\ record'[m].stage = "complete" /\ record'[m].replay = record[m].replay
  /\ record'[m].action = record[m].action
Forgotten(m) ==
  /\ record'[m] = Absent
  /\ evictions' = [evictions EXCEPT ![m] = @ + 1]

Advanced(m) ==
  \/ Created(m) \/ Decided(m) \/ Completed(m)
  \/ \E a \in Action : Begun(m, a) \/ Reopened(m, a) \/ Confirmed(m, a)

\* A claim changes no more of a record than its owner and its lease, unless
\* it creates it.
LEMMA ClaimChange ==
  ASSUME TypeOK, ProcessingSound, NEW w \in Worker, NEW n \in Message, Claim(w, n)
  PROVE  /\ \A m \in Message : m # n => Kept(m)
         /\ Kept(n) \/ Created(n)
<1> DEFINE d == Disowned(w)
           won == ClaimedBy(d[n], w)
<1>1. d[n].stage # "complete" /\ record' = [d EXCEPT ![n] = won]
  BY DEF Claim, ClaimDecision
<1>2. /\ d \in [Message -> Record]
      /\ \A k \in Message : k # n => record'[k] = d[k]
      /\ record'[n] = won
  BY <1>1, DisownedFields DEF Disowned
<1>3. /\ record[n].stage # "absent" =>
           /\ won.stage = record[n].stage /\ won.replay = record[n].replay
           /\ won.action = record[n].action
      /\ record[n].stage = "absent" => won.stage = "claimed"
  BY <1>1, <1>2, ClaimedFields, DisownedFields
<1> HIDE DEF d, won
<1>4. ASSUME NEW m \in Message, m # n PROVE Kept(m)
  BY <1>2, <1>4, DisownedFields DEF d, Kept
<1>5. record[n].stage = "absent" => \A a \in Action : record[n].action[a] = "not_started"
  <2>1. RecordSound(n) /\ record[n].action \in [Action -> ActionState]
    BY RecordShape DEF ProcessingSound, TypeOK
  <2>2. QED
    BY <2>1, StageFacts DEF RecordSound, Action, ActionState
<1>6. Kept(n) \/ Created(n)
  BY <1>2, <1>3, <1>5 DEF Kept, Created
<1>7. QED
  BY <1>4, <1>6

\* An update moves the record of its message one step on.
LEMMA UpdateChange ==
  ASSUME TypeOK, ProcessingSound, NEW w \in Worker, NEW n \in Message, n = msg[w],
         \/ SaveAgentResult(w) \/ BeginAction(w) \/ ReopenAction(w)
         \/ ConfirmAction(w) \/ FinishMessage(w)
  PROVE  /\ \A m \in Message : m # n => Kept(m)
         /\ Advanced(n)
         /\ UNCHANGED <<accepted, evictions>>
<1>1. act[w] \in Action
  BY DEF TypeOK
<1>2. CASE SaveAgentResult(w)
  <2>1. Decided(n)
    BY <1>2, SaveFacts DEF Decided
  <2>2. QED
    BY <1>2, <2>1, SaveFacts DEF Advanced, Kept
<1>3. CASE BeginAction(w)
  <2>1. Begun(n, act[w])
    BY <1>3, BeginFacts DEF Begun
  <2>2. Advanced(n)
    BY <1>1, <2>1 DEF Advanced
  <2>3. /\ \A m \in Message : m # n => record'[m] = record[m]
        /\ UNCHANGED <<accepted, evictions>>
    BY <1>3 DEF BeginAction, Update, TypeOK
  <2>4. QED
    BY <2>2, <2>3 DEF Kept
<1>4. CASE ReopenAction(w)
  <2>1. Reopened(n, act[w])
    BY <1>4, ReopenFacts DEF Reopened, CanResetExternalAction
  <2>2. Advanced(n)
    BY <1>1, <2>1 DEF Advanced
  <2>3. /\ \A m \in Message : m # n => record'[m] = record[m]
        /\ UNCHANGED <<accepted, evictions>>
    BY <1>4 DEF ReopenAction, Update, TypeOK
  <2>4. QED
    BY <2>2, <2>3 DEF Kept
<1>5. CASE ConfirmAction(w)
  <2>1. Confirmed(n, act[w])
    BY <1>5, ConfirmFacts DEF Confirmed
  <2>2. Advanced(n)
    BY <1>1, <2>1 DEF Advanced
  <2>3. /\ \A m \in Message : m # n => record'[m] = record[m]
        /\ UNCHANGED <<accepted, evictions>>
    BY <1>5 DEF ConfirmAction, Update, TypeOK
  <2>4. QED
    BY <2>2, <2>3 DEF Kept
<1>6. CASE FinishMessage(w)
  <2>1. Completed(n)
    BY <1>6, FinishFacts DEF Completed
  <2>2. QED
    BY <1>6, <2>1, FinishFacts DEF Advanced, Kept
<1>7. QED
  BY <1>2, <1>3, <1>4, <1>5, <1>6

\* Every step: the provider accepts a part, or the record of at most one
\* message changes in one of these ways.
LEMMA RecordSteps ==
  ASSUME TypeOK, ProcessingSound, [Next]_vars
  PROVE  \/ /\ \E w \in Worker : at[w] = "call" /\ Accepts(w)
            /\ UNCHANGED <<record, evictions>>
         \/ /\ UNCHANGED <<accepted, evictions>>
            /\ \A m \in Message : Kept(m)
         \/ /\ accepted' = accepted
            /\ \E n \in Message :
                 /\ \A m \in Message : m # n => Kept(m)
                 /\ (Advanced(n) /\ evictions' = evictions) \/ Forgotten(n)
<1> DEFINE Delivered == /\ \E w \in Worker : at[w] = "call" /\ Accepts(w)
                        /\ UNCHANGED <<record, evictions>>
           Idle == UNCHANGED <<accepted, evictions>> /\ \A m \in Message : Kept(m)
           Goal == \/ Delivered
                   \/ Idle
                   \/ /\ accepted' = accepted
                      /\ \E n \in Message :
                           /\ \A m \in Message : m # n => Kept(m)
                           /\ (Advanced(n) /\ evictions' = evictions) \/ Forgotten(n)
<1>1. UNCHANGED <<record, accepted, evictions>> => Idle
  BY DEF Kept
<1>2. ASSUME NEW w \in Worker,
             \/ AgentTurn(w) \/ AnswerUnsupported(w) \/ ReadRecord(w)
             \/ UpdateRefused(w) \/ CallAccepted(w) \/ CallRejected(w)
             \/ CallUnclear(w) \/ Acknowledge(w) \/ AcknowledgeFails(w)
             \/ HeartbeatLost(w) \/ Abort(w) \/ LateRenewal(w)
      PROVE  Delivered \/ Idle
  <2>1. UNCHANGED <<record, evictions>>
    BY <1>2 DEF AgentTurn, AnswerUnsupported, ReadRecord, UpdateRefused,
                CallAccepted, CallRejected, CallUnclear, Acknowledge,
                AcknowledgeFails, HeartbeatLost, Abort, LateRenewal, ghost
  <2>2. accepted' = accepted \/ (at[w] = "call" /\ Accepts(w))
    BY <1>2 DEF AgentTurn, AnswerUnsupported, ReadRecord, UpdateRefused,
                CallAccepted, CallRejected, CallUnclear, Acknowledge,
                AcknowledgeFails, HeartbeatLost, Abort, LateRenewal, ghost,
                MayAccept
  <2>3. QED
    BY <1>1, <2>1, <2>2
<1>3. ASSUME NEW w \in Worker,
             \/ SaveAgentResult(w) \/ BeginAction(w) \/ ReopenAction(w)
             \/ ConfirmAction(w) \/ FinishMessage(w)
      PROVE  Goal
  <2>1. msg[w] \in Message
    BY DEF TypeOK
  <2>2. /\ \A m \in Message : m # msg[w] => Kept(m)
        /\ Advanced(msg[w])
        /\ UNCHANGED <<accepted, evictions>>
    BY <1>3, <2>1, UpdateChange
  <2>3. QED
    BY <2>1, <2>2
<1>4. ASSUME NEW n \in Message, Deliver(n) PROVE Goal
  <2>1. PICK w \in Worker : Claim(w, n) \/ ClaimDuplicate(w, n)
    BY <1>4 DEF Deliver
  <2>2. CASE Claim(w, n)
    <3>1. UNCHANGED <<accepted, evictions>>
      BY <2>2 DEF Claim, ghost
    <3>2. QED
      BY <2>2, <3>1, ClaimChange DEF Advanced
  <2>3. CASE ClaimDuplicate(w, n)
    BY <2>3, <1>1 DEF ClaimDuplicate
  <2>4. QED
    BY <2>1, <2>2, <2>3
<1>5. ASSUME NEW n \in Message, OwnerStalls(n) \/ LeaseRunsOut(n) PROVE Idle
  <2>1. /\ UNCHANGED <<accepted, evictions>>
        /\ record' = [record EXCEPT ![n] = [record[n] EXCEPT !.leased = FALSE]]
    BY <1>5 DEF OwnerStalls, LeaseRunsOut, LeaseExpires, ghost
  <2>2. QED
    BY <2>1 DEF Kept, TypeOK, Record
<1>6. ASSUME NEW n \in Message, Evict(n) PROVE Goal
  <2>1. /\ accepted' = accepted /\ record' = [record EXCEPT ![n] = Absent]
        /\ evictions' = [evictions EXCEPT ![n] = @ + 1]
    BY <1>6 DEF Evict, ghost
  <2>2. Forgotten(n) /\ \A m \in Message : m # n => Kept(m)
    BY <2>1 DEF Forgotten, Kept, TypeOK
  <2>3. QED
    BY <2>1, <2>2
<1>7. ASSUME UNCHANGED vars PROVE Idle
  BY <1>1, <1>7 DEF vars, ghost
<1>8. Delivered \/ Idle => Goal
  OBVIOUS
<1> HIDE DEF Delivered, Idle, Goal
<1>9. ASSUME NEW w \in Worker, Step(w) PROVE Goal
  BY <1>2, <1>3, <1>8, <1>9 DEF Step
<1>10. ASSUME NEW w \in Worker, CallRejected(w) \/ Abort(w) \/ LateRenewal(w)
       PROVE  Goal
  BY <1>2, <1>8, <1>10
<1>11. ASSUME NEW n \in Message,
              Deliver(n) \/ OwnerStalls(n) \/ LeaseRunsOut(n) \/ Evict(n)
       PROVE  Goal
  BY <1>4, <1>5, <1>6, <1>8, <1>11
<1>12. Goal
  <2>1. CASE UNCHANGED vars
    BY <1>7, <1>8, <2>1
  <2>2. CASE Next
    <3>1. CASE \E w \in Worker : \/ Step(w) \/ CallRejected(w) \/ Abort(w)
                                \/ LateRenewal(w)
      BY <1>9, <1>10, <3>1
    <3>2. CASE \E n \in Message : \/ Deliver(n) \/ OwnerStalls(n)
                                 \/ LeaseRunsOut(n) \/ Evict(n)
      BY <1>11, <3>2
    <3>3. QED
      BY <2>2, <3>1, <3>2 DEF Next
  <2>3. QED
    BY <2>1, <2>2
<1>13. QED
  BY <1>12 DEF Goal, Delivered, Idle

\* One record: what each of the changes leaves standing.
LEMMA ChangeAdvances ==
  ASSUME TypeOK, NEW m \in Message, Kept(m) \/ Advanced(m)
  PROVE  /\ Rank[record[m].stage] <= Rank[record'[m].stage]
         /\ Rank[record[m].stage] >= 2 => record'[m].replay = record[m].replay
         /\ \A a \in Action : record[m].action[a] = "succeeded" =>
                                record'[m].action[a] = "succeeded"
         /\ \A a \in Action :
              record[m].action[a] = "uncertain" /\ record'[m].action[a] = "not_started"
              => accepted[m][a] <= evictions[m]
<1>1. /\ record[m].stage \in Stage /\ record[m].action \in [Action -> ActionState]
      /\ Rank[record[m].stage] \in Nat
  BY RecordShape DEF TypeOK, Rank, Stage
<1>2. CASE Kept(m)
  BY <1>1, <1>2 DEF Kept
<1>3. CASE Created(m)
  BY <1>1, <1>3, StageFacts DEF Created
<1>4. CASE Decided(m)
  BY <1>1, <1>4, StageFacts DEF Decided
<1>5. CASE Completed(m)
  BY <1>1, <1>5, StageFacts DEF Completed
<1>6. ASSUME NEW b \in Action, Begun(m, b) \/ Reopened(m, b)
      PROVE  /\ record'[m].stage = record[m].stage
             /\ record'[m].replay = record[m].replay
             /\ \A a \in Action : record[m].action[a] = "succeeded" =>
                                    record'[m].action[a] = "succeeded"
             /\ \A a \in Action :
                  /\ record[m].action[a] = "uncertain"
                  /\ record'[m].action[a] = "not_started"
                  => accepted[m][a] <= evictions[m]
  BY <1>1, <1>6 DEF Begun, Reopened
<1>7. ASSUME NEW b \in Action, Confirmed(m, b)
      PROVE  /\ Rank[record[m].stage] <= Rank[record'[m].stage]
             /\ record'[m].replay = record[m].replay
             /\ \A a \in Action : record[m].action[a] = "succeeded" =>
                                    record'[m].action[a] = "succeeded"
             /\ \A a \in Action :
                  ~ (/\ record[m].action[a] = "uncertain"
                     /\ record'[m].action[a] = "not_started")
  <2>1. Rank[StageBefore[b]] <= Rank[StageAfter[b]]
    BY StageFacts DEF Action
  <2>2. QED
    BY <1>1, <1>7, <2>1 DEF Confirmed
<1>8. QED
  BY <1>1, <1>2, <1>3, <1>4, <1>5, <1>6, <1>7 DEF Advanced

\* Until its key expires a record only moves forward, whoever writes it.
THEOREM RecordsOnlyAdvance == Spec => RecordsAdvance
<1> DEFINE Forward ==
      \A m \in Message :
        \/ record'[m].stage = "absent"
        \/ /\ Rank[record[m].stage] <= Rank[record'[m].stage]
           /\ Rank[record[m].stage] >= 2 => record'[m].replay = record[m].replay
           /\ \A a \in Action : record[m].action[a] = "succeeded" =>
                                  record'[m].action[a] = "succeeded"
<1>1. TypeOK /\ ProcessingSound /\ [Next]_vars => Forward
  <2> SUFFICES ASSUME TypeOK, ProcessingSound, [Next]_vars, NEW m \in Message
               PROVE  \/ record'[m].stage = "absent"
                      \/ /\ Rank[record[m].stage] <= Rank[record'[m].stage]
                         /\ Rank[record[m].stage] >= 2 =>
                              record'[m].replay = record[m].replay
                         /\ \A a \in Action :
                              record[m].action[a] = "succeeded" =>
                                record'[m].action[a] = "succeeded"
    OBVIOUS
  <2>1. Kept(m) \/ Advanced(m) \/ Forgotten(m)
    BY RecordSteps DEF Kept
  <2>2. CASE Kept(m) \/ Advanced(m)
    BY <2>2, ChangeAdvances
  <2>3. CASE Forgotten(m)
    BY <2>3 DEF Forgotten, Absent
  <2>4. QED
    BY <2>1, <2>2, <2>3
<1>2. QED
  BY <1>1, SoundProcessing, PTL DEF Spec, RecordsAdvance

\* An action is reopened only when the provider has not accepted it since the
\* record was created, whichever run attempted it.
THEOREM ReopenedIfRejected == Spec => ReopenedOnlyIfNotAccepted
<1> DEFINE OnlyIfRejected ==
      \A m \in Message, a \in Action :
        /\ record[m].action[a] = "uncertain"
        /\ record'[m].action[a] = "not_started"
        => \/ record'[m].stage = "absent"
           \/ accepted[m][a] <= evictions[m]
<1>1. TypeOK /\ ProcessingSound /\ [Next]_vars => OnlyIfRejected
  <2> SUFFICES ASSUME TypeOK, ProcessingSound, [Next]_vars,
                      NEW m \in Message, NEW a \in Action,
                      record[m].action[a] = "uncertain",
                      record'[m].action[a] = "not_started"
               PROVE  \/ record'[m].stage = "absent"
                      \/ accepted[m][a] <= evictions[m]
    OBVIOUS
  <2>1. Kept(m) \/ Advanced(m) \/ Forgotten(m)
    BY RecordSteps DEF Kept
  <2>2. CASE Kept(m) \/ Advanced(m)
    BY <2>2, ChangeAdvances
  <2>3. CASE Forgotten(m)
    BY <2>3 DEF Forgotten, Absent
  <2>4. QED
    BY <2>1, <2>2, <2>3
<1>2. QED
  BY <1>1, SoundProcessing, PTL DEF Spec, ReopenedOnlyIfNotAccepted

-----------------------------------------------------------------------------
(* The refinement of ReplyDelivery.                                         *)

\* The reply of a message, and whether it is complete, as its record shows them.
Owed(r) ==
  IF r.stage \in {"absent", "claimed"} THEN {}
  ELSE IF r.replay.quotation THEN Action ELSE {"text"}
IsClosed(r) == r.stage = "complete"

LEMMA MappedState ==
  /\ Reply!vars = <<[m \in Message |-> Owed(record[m])], accepted,
                    [m \in Message |-> IsClosed(record[m])], evictions>>
  /\ Reply!Part = Action
  /\ Reply!Earlier = [text |-> {}, upload |-> {"text"},
                      document |-> {"text", "upload"}]
BY DEF Reply!vars, Reply!Part, Reply!Earlier, Owed, IsClosed, Action

\* What ReplyDelivery sees of a change of one record.
LEMMA MappedChange ==
  ASSUME TypeOK, NEW m \in Message, Kept(m) \/ Advanced(m)
  PROVE  \/ /\ Owed(record'[m]) = Owed(record[m])
            /\ IsClosed(record'[m]) = IsClosed(record[m])
         \/ /\ Decided(m)
            /\ Owed(record[m]) = {} /\ Owed(record'[m]) \in {{"text"}, Action}
            /\ ~IsClosed(record[m]) /\ ~IsClosed(record'[m])
         \/ /\ Completed(m)
            /\ Owed(record'[m]) = Owed(record[m]) /\ Owed(record[m]) # {}
            /\ ~IsClosed(record[m]) /\ IsClosed(record'[m])
<1>1. CASE Kept(m)
  BY <1>1 DEF Kept, Owed, IsClosed
<1>2. CASE Created(m)
  BY <1>2 DEF Created, Owed, IsClosed
<1>3. CASE Decided(m)
  BY <1>3 DEF Decided, Owed, IsClosed
<1>4. CASE Completed(m)
  BY <1>4 DEF Completed, Owed, IsClosed, Action
<1>5. ASSUME NEW a \in Action, Begun(m, a) \/ Reopened(m, a)
      PROVE  /\ Owed(record'[m]) = Owed(record[m])
             /\ IsClosed(record'[m]) = IsClosed(record[m])
  BY <1>5 DEF Begun, Reopened, Owed, IsClosed
<1>6. ASSUME NEW a \in Action, Confirmed(m, a)
      PROVE  /\ Owed(record'[m]) = Owed(record[m])
             /\ IsClosed(record'[m]) = IsClosed(record[m])
  BY <1>6, StageFacts DEF Confirmed, Owed, IsClosed, Action
<1>7. QED
  BY <1>1, <1>2, <1>3, <1>4, <1>5, <1>6 DEF Advanced

\* A part the provider accepts is one that is owed and due.
LEMMA AcceptIsDeliver ==
  ASSUME TypeOK, ProcessingSound, NEW w \in Worker, at[w] = "call", Accepts(w),
         UNCHANGED <<record, evictions>>
  PROVE  Reply!Deliver(msg[w], act[w])
<1> DEFINE n == msg[w]
           b == act[w]
           r == record[n]
<1>1. n \in Message /\ b \in Action
  BY DEF TypeOK
<1>2. /\ RecordSound(n) /\ r.action[b] = "uncertain"
      /\ accepted[n][b] <= evictions[n]
  BY <1>1 DEF ProcessingSound, RunSound, Attending
<1>3. r.stage = StageBefore[b]
  BY <1>1, <1>2 DEF RecordSound
<1>4. b \in Owed(r) /\ ~IsClosed(r)
  BY <1>1, <1>2, <1>3, StageFacts DEF RecordSound, Owed, IsClosed, Action
<1>5. \A q \in Reply!Earlier[b] : accepted[n][q] >= 1
  <2>1. CASE b = "text"
    BY <2>1 DEF Reply!Earlier
  <2>2. CASE b = "upload"
    BY <1>2, <1>3, <2>2, StageFacts DEF RecordSound, Reply!Earlier, Action
  <2>3. CASE b = "document"
    BY <1>2, <1>3, <2>3, StageFacts DEF RecordSound, Reply!Earlier, Action
  <2>4. QED
    BY <1>1, <2>1, <2>2, <2>3 DEF Action
<1>6. accepted' = [accepted EXCEPT ![n][b] = @ + 1]
  BY DEF Accepts, OneMore
<1>7. QED
  BY <1>1, <1>2, <1>4, <1>5, <1>6 DEF Reply!Deliver, Owed, IsClosed

LEMMA StepIsReplyStep ==
  ASSUME TypeOK, ProcessingSound, [Next]_vars
  PROVE  [Reply!Next]_(Reply!vars)
<1> DEFINE owed == [m \in Message |-> Owed(record[m])]
           closed == [m \in Message |-> IsClosed(record[m])]
<1>1. CASE /\ \E w \in Worker : at[w] = "call" /\ Accepts(w)
           /\ UNCHANGED <<record, evictions>>
  <2>1. PICK w \in Worker : at[w] = "call" /\ Accepts(w)
    BY <1>1
  <2>2. msg[w] \in Message /\ act[w] \in Reply!Part
    BY MappedState DEF TypeOK
  <2>3. QED
    BY <1>1, <2>1, <2>2, AcceptIsDeliver DEF Reply!Next
<1>2. CASE UNCHANGED <<accepted, evictions>> /\ \A m \in Message : Kept(m)
  <2>1. \A m \in Message : /\ Owed(record'[m]) = Owed(record[m])
                           /\ IsClosed(record'[m]) = IsClosed(record[m])
    BY <1>2 DEF Kept, Owed, IsClosed
  <2>2. owed' = owed /\ closed' = closed
    BY <2>1
  <2>3. UNCHANGED Reply!vars
    BY <1>2, <2>2 DEF Reply!vars, Owed, IsClosed
  <2>4. QED
    BY <2>3
<1>3. ASSUME NEW n \in Message, \A m \in Message : m # n => Kept(m),
             accepted' = accepted, evictions' = evictions, Advanced(n)
      PROVE  [Reply!Next]_(Reply!vars)
  <2>1. \A m \in Message : m # n => /\ Owed(record'[m]) = Owed(record[m])
                                    /\ IsClosed(record'[m]) = IsClosed(record[m])
    BY <1>3 DEF Kept, Owed, IsClosed
  <2>2. CASE /\ Owed(record'[n]) = Owed(record[n])
             /\ IsClosed(record'[n]) = IsClosed(record[n])
    <3>1. owed' = owed /\ closed' = closed
      BY <2>1, <2>2
    <3>2. UNCHANGED Reply!vars
      BY <1>3, <3>1 DEF Reply!vars, Owed, IsClosed
    <3>3. QED
      BY <3>2
  <2>3. CASE /\ Owed(record[n]) = {} /\ Owed(record'[n]) \in {{"text"}, Action}
             /\ ~IsClosed(record[n]) /\ ~IsClosed(record'[n])
    <3>1. /\ owed' = [owed EXCEPT ![n] = Owed(record'[n])]
          /\ closed' = closed /\ owed[n] = {} /\ ~closed[n]
      <4>1. owed' = [owed EXCEPT ![n] = Owed(record'[n])] /\ owed[n] = {}
        BY <2>1, <2>3
      <4>2. \A m \in Message : IsClosed(record'[m]) = IsClosed(record[m])
        BY <2>1, <2>3 DEF IsClosed
      <4>3. QED
        BY <2>3, <4>1, <4>2
    <3>2. Owed(record'[n]) \in {{"text"}, Reply!Part}
      BY <2>3, MappedState
    <3>3. Reply!Decide(n)
      BY <1>3, <3>1, <3>2 DEF Reply!Decide, Owed, IsClosed
    <3>4. QED
      BY <3>3 DEF Reply!Next
  <2>4. CASE /\ Completed(n)
             /\ Owed(record'[n]) = Owed(record[n]) /\ Owed(record[n]) # {}
             /\ ~IsClosed(record[n]) /\ IsClosed(record'[n])
    <3>1. /\ owed' = owed /\ closed' = [closed EXCEPT ![n] = TRUE]
          /\ owed[n] # {} /\ ~closed[n]
      BY <2>1, <2>4
    <3>2. \A p \in Owed(record[n]) : accepted[n][p] >= 1
      <4>1. RecordSound(n)
        BY DEF ProcessingSound
      <4>2. QED
        BY <2>4, <4>1, StageFacts DEF Completed, RecordSound, Owed, Action
    <3>3. Reply!Close(n)
      BY <1>3, <3>1, <3>2 DEF Reply!Close, Owed, IsClosed
    <3>4. QED
      BY <3>3 DEF Reply!Next
  <2>5. QED
    BY <1>3, <2>2, <2>3, <2>4, MappedChange
<1>4. ASSUME NEW n \in Message, \A m \in Message : m # n => Kept(m),
             accepted' = accepted, Forgotten(n)
      PROVE  [Reply!Next]_(Reply!vars)
  <2>1. \A m \in Message : m # n => /\ Owed(record'[m]) = Owed(record[m])
                                    /\ IsClosed(record'[m]) = IsClosed(record[m])
    BY <1>4 DEF Kept, Owed, IsClosed
  <2>2. Owed(record'[n]) = {} /\ IsClosed(record'[n]) = FALSE
    BY <1>4 DEF Forgotten, Absent, Owed, IsClosed
  <2>3. /\ owed' = [owed EXCEPT ![n] = {}]
        /\ closed' = [closed EXCEPT ![n] = FALSE]
    BY <2>1, <2>2
  <2>4. Reply!Forget(n)
    BY <1>4, <2>3 DEF Reply!Forget, Forgotten, Owed, IsClosed
  <2>5. QED
    BY <2>4 DEF Reply!Next
<1>5. QED
  BY <1>1, <1>2, <1>3, <1>4, RecordSteps

\* Deliveries racing with owners, leases, checkpoints and retries implement
\* ReplyDelivery: a reply is decided once, delivered in order, at most once a
\* part, and closed only when whole.
THEOREM RepliesDelivered == Spec => DeliversReplies
<1>1. Init => Reply!Init
  <2> SUFFICES ASSUME Init PROVE Reply!Init
    OBVIOUS
  <2>1. \A m \in Message : record[m].stage = "absent"
    BY DEF Init, Absent
  <2>2. QED
    BY <2>1, MappedState DEF Init, Reply!Init
<1>2. TypeOK /\ ProcessingSound /\ [Next]_vars => [Reply!Next]_(Reply!vars)
  BY StepIsReplyStep
<1>3. QED
  BY <1>1, <1>2, SoundProcessing, PTL DEF Spec, DeliversReplies, Reply!Spec
=============================================================================
