-------------------------- MODULE MessageProcessing -------------------------
(***************************************************************************)
(* WhatsAppProcessingCoordinator over MessageDeduplicationService: the     *)
(* webhook deliveries of inbound messages, each a run of process_outcome   *)
(* with an owner token of its own, racing for the Redis record of the      *)
(* message and taking its reply through the agent, the text send, the PDF  *)
(* upload and the document send.                                           *)
(*                                                                         *)
(* Redis scripts are atomic.  A mutation is a read (get_record) and later  *)
(* a script run; between the two another token may take the record over,   *)
(* the lease may pass, or a cancelled heartbeat renewal may still land.    *)
(* The revision number is compared for equality only and every write       *)
(* increments it, so a run's view of the record is a flag: "fresh" until   *)
(* the next write of that record, then "stale".                            *)
(***************************************************************************)
EXTENDS Naturals, ProcessingRecord

CONSTANTS
  Message,       \* inbound message ids
  Unsupported,   \* those answered with the fixed unsupported-media text
  MaxFaults,     \* bound: crashes, stalls, lost replies and rejections
  MaxEvictions   \* bound: key expirations, per message

ASSUME MessageAssumption == Unsupported \subseteq Message
ASSUME BoundAssumption == MaxFaults \in Nat /\ MaxEvictions \in Nat

VARIABLES
  record,     \* Message -> Record: the keys gdf:processed-message:<id>
  at,         \* Worker -> where its run of process_outcome stands
  msg,        \* Worker -> the message of that run
  act,        \* Worker -> the provider action it is about
  out,        \* Worker -> its local variable replay
  view,       \* Worker -> its read of the record, in a mutation
  turns,      \* Message -> agent turns whose session was saved
  accepted,   \* Message -> Action -> times the provider accepted it
  acked,      \* Message -> has the conversation recorded the preview's delivery
  answered,   \* Message -> has a delivery been answered with HTTP 200
  faults,     \* faults so far
  evictions   \* Message -> expirations so far

run == <<at, msg, act, out, view>>
ghost == <<turns, accepted, acked, answered>>
vars == <<record, run, ghost, faults, evictions>>

Location == {"idle", "agent", "save", "begin", "call", "reset",
             "ack", "confirm", "finish"}
Mutation == {"save", "begin", "reset", "confirm", "finish"}
Heartbeat == {"agent", "call", "ack"}
Attending == {"call", "reset", "ack", "confirm"}

Init ==
  /\ record = [m \in Message |-> Absent]
  /\ at = [w \in Worker |-> "idle"]
  /\ msg \in [Worker -> Message]
  /\ act = [w \in Worker |-> "text"]
  /\ out = [w \in Worker |-> PlainReplay]
  /\ view = [w \in Worker |-> "none"]
  /\ turns = [m \in Message |-> 0]
  /\ accepted = [m \in Message |-> [a \in Action |-> 0]]
  /\ acked = [m \in Message |-> FALSE]
  /\ answered = [m \in Message |-> FALSE]
  /\ faults = 0
  /\ evictions = [m \in Message |-> 0]

-----------------------------------------------------------------------------
(* Shared by the actions.                                                  *)

\* Is some run working on m, and does one of them hold its record?
Active(w, m) == at[w] # "idle" /\ msg[w] = m
OwnerActive(m) == \E w \in Worker : record[m].owner = w /\ Active(w, m)

\* A write of m's record, by w: no other run's read of it is current.
Overwrite(w, m) ==
  view' = [v \in Worker |->
             IF v = w THEN "none"
             ELSE IF msg[v] = m /\ view[v] = "fresh" THEN "stale" ELSE view[v]]

\* w's run raises: the owner stays in the record until its lease has passed.
Raise(w) ==
  /\ at' = [at EXCEPT ![w] = "idle"]
  /\ view' = [view EXCEPT ![w] = "none"]
  /\ UNCHANGED <<msg, act, out>>

Fault == faults < MaxFaults /\ faults' = faults + 1

\* Mutant: the chain falls through with the stage itself.
ResumeAtStage(stage, replay) ==
  IF stage \in {"claimed", "document_sent"} THEN stage ELSE "begin"

\* The stage chain of process_outcome: where a run goes with a record at this
\* stage, and the provider action it turns to.
ResumeAt(stage, replay) ==
  IF stage = "claimed" THEN "agent"
  ELSE IF stage = "document_sent" \/ (stage = "text_sent" /\ ~replay.quotation)
       THEN "finish" ELSE "begin"
NextAction(stage) ==
  IF stage = "text_sent" THEN "upload"
  ELSE IF stage = "document_uploaded" THEN "document" ELSE "text"

\* The provider accepts w's request; or may have, when w will never know.
OneMore(count, a) == [count EXCEPT ![a] = @ + 1]
Accepts(w) ==
  accepted' = [accepted EXCEPT ![msg[w]] = OneMore(@, act[w])]
MayAccept(w) == Accepts(w) \/ UNCHANGED accepted

-----------------------------------------------------------------------------
(* process_outcome: claim, then resume where the record stands.            *)

\* A new run has a new token: what w's last run still owns is nobody's.
Disowned(w) == [m \in Message |->
  IF record[m].owner = w THEN [record[m] EXCEPT !.owner = NoOwner]
  ELSE record[m]]

\* The claim script makes w the owner.  An uncertain action in the record is
\* raised at once, with the lease just taken left to pass.
Claim(w, m) ==
  /\ at[w] = "idle"
  /\ LET rec == Disowned(w)
         won == ClaimedBy(rec[m], w)
     IN /\ ClaimDecision(rec[m], w) \in {"acquired", "resumed"}
        /\ record' = [rec EXCEPT ![m] = won]
        /\ at' = [at EXCEPT ![w] = IF HasUncertainExternalAction(won) THEN "idle"
                                   ELSE ResumeAt(won.stage, won.replay)]
        /\ act' = [act EXCEPT ![w] = NextAction(won.stage)]
        /\ out' = [out EXCEPT ![w] = won.replay]
  /\ msg' = [msg EXCEPT ![w] = m]
  /\ Overwrite(w, m)
  /\ UNCHANGED <<ghost, faults, evictions>>

\* The message was completed: COMPLETED_DUPLICATE, HTTP 200.
ClaimDuplicate(w, m) ==
  /\ at[w] = "idle"
  /\ ClaimDecision(record[m], w) = "complete"
  /\ answered' = [answered EXCEPT ![m] = TRUE]
  /\ UNCHANGED <<record, run, turns, accepted, acked, faults, evictions>>

-----------------------------------------------------------------------------
(* _create_replay, under the heartbeat.                                    *)

\* conversation.process_message saves the session and returns a reply.
AgentTurn(w) ==
  /\ at[w] = "agent"
  /\ msg[w] \notin Unsupported
  /\ \E replay \in Replay : out' = [out EXCEPT ![w] = replay]
  /\ turns' = [turns EXCEPT ![msg[w]] = @ + 1]
  /\ at' = [at EXCEPT ![w] = "save"]
  /\ UNCHANGED <<record, msg, act, view, accepted, acked, answered,
                 faults, evictions>>

AnswerUnsupported(w) ==
  /\ at[w] = "agent"
  /\ msg[w] \in Unsupported
  /\ out' = [out EXCEPT ![w] = PlainReplay]
  /\ at' = [at EXCEPT ![w] = "save"]
  /\ UNCHANGED <<record, msg, act, view, ghost, faults, evictions>>

-----------------------------------------------------------------------------
(* _mutate_owned: read, check, compute; then the update script.            *)

\* The transition's requirements on the record it read.
Allowed(w, r) ==
  \/ at[w] = "save" /\ CanSaveResult(r)
  \/ at[w] = "begin" /\ CanBeginExternalAction(r, act[w])
  \/ at[w] = "reset" /\ CanResetExternalAction(r, act[w])
  \/ at[w] = "confirm" /\ CanMarkSucceeded(r, act[w])
  \/ at[w] = "finish" /\ CanMarkProcessed(r)

ReadRecord(w) ==
  /\ at[w] \in Mutation
  /\ view[w] = "none"
  /\ LET r == record[msg[w]] IN
       IF r.owner = w /\ Incomplete(r) /\ Allowed(w, r)
       THEN /\ view' = [view EXCEPT ![w] = "fresh"]
            /\ UNCHANGED <<at, msg, act, out>>
       ELSE Raise(w)
  /\ UNCHANGED <<record, ghost, faults, evictions>>

\* The script refuses: not_owner, expired, missing, complete or changed.
UpdateRefused(w) ==
  /\ view[w] # "none"
  /\ ~Updatable(record[msg[w]], w, view[w] = "fresh")
  /\ Raise(w)
  /\ UNCHANGED <<record, ghost, faults, evictions>>

\* The script stores the replacement, and the run goes on at next.
Update(w, replacement, next) ==
  /\ view[w] # "none"
  /\ Updatable(record[msg[w]], w, view[w] = "fresh")
  /\ record' = [record EXCEPT ![msg[w]] = Stored(replacement, w)]
  /\ Overwrite(w, msg[w])
  /\ at' = [at EXCEPT ![w] = next]
  /\ UNCHANGED <<msg, out, turns, accepted, acked, faults, evictions>>

SaveAgentResult(w) ==
  /\ at[w] = "save"
  /\ Update(w, SaveResult(record[msg[w]], out[w]), "begin")
  /\ act' = [act EXCEPT ![w] = "text"]
  /\ UNCHANGED answered

BeginAction(w) ==
  /\ at[w] = "begin"
  /\ Update(w, BeginExternalAction(record[msg[w]], act[w]), "call")
  /\ UNCHANGED <<act, answered>>

\* After a definite rejection the run raises: a later delivery may retry.
ReopenAction(w) ==
  /\ at[w] = "reset"
  /\ Update(w, ResetExternalAction(record[msg[w]], act[w]), "idle")
  /\ UNCHANGED <<act, answered>>

ConfirmAction(w) ==
  /\ at[w] = "confirm"
  /\ LET stage == StageAfter[act[w]] IN
       /\ Update(w, MarkSucceeded(record[msg[w]], act[w]),
                 ResumeAt(stage, out[w]))
       /\ act' = [act EXCEPT ![w] = NextAction(stage)]
  /\ UNCHANGED answered

\* COMPLETED, HTTP 200.
FinishMessage(w) ==
  /\ at[w] = "finish"
  /\ Update(w, MarkProcessed(record[msg[w]]), "idle")
  /\ answered' = [answered EXCEPT ![msg[w]] = TRUE]
  /\ UNCHANGED act

-----------------------------------------------------------------------------
(* The provider call, under the heartbeat.                                 *)

\* Mutant: the preview's delivery is not acknowledged.
CallAcceptedUnacked(w) ==
  /\ at[w] = "call"
  /\ Accepts(w)
  /\ at' = [at EXCEPT ![w] = "confirm"]
  /\ UNCHANGED <<record, msg, act, out, view, turns, acked, answered,
                 faults, evictions>>

\* Accepted, and w learns it.  A text that carried a preview is then
\* acknowledged to the conversation before it is confirmed.
CallAccepted(w) ==
  /\ at[w] = "call"
  /\ Accepts(w)
  /\ at' = [at EXCEPT ![w] =
              IF act[w] = "text" /\ out[w].preview THEN "ack" ELSE "confirm"]
  /\ UNCHANGED <<record, msg, act, out, view, turns, acked, answered,
                 faults, evictions>>

\* Definitely not accepted: an error status before any part was delivered, or
\* a failure before the request (validation, a missing PDF).
CallRejected(w) ==
  /\ at[w] = "call"
  /\ Fault
  /\ at' = [at EXCEPT ![w] = "reset"]
  /\ UNCHANGED <<record, msg, act, out, view, ghost, evictions>>

\* Mutant: an unclear outcome is taken for a rejection.
CallUnclearReopens(w) ==
  /\ at[w] = "call"
  /\ MayAccept(w)
  /\ at' = [at EXCEPT ![w] = "reset"]
  /\ UNCHANGED <<record, msg, act, out, view, turns, acked, answered,
                 faults, evictions>>

\* A timeout, a network error, a malformed success, or an error status after
\* some of a text's parts were delivered: the record stays uncertain.
CallUnclear(w) ==
  /\ at[w] = "call"
  /\ MayAccept(w)
  /\ Raise(w)
  /\ UNCHANGED <<record, turns, acked, answered, faults, evictions>>

\* acknowledge_successful_delivery: it marks the session ready, or fails.
Acknowledge(w) ==
  /\ at[w] = "ack"
  /\ acked' = [acked EXCEPT ![msg[w]] = TRUE]
  /\ at' = [at EXCEPT ![w] = "confirm"]
  /\ UNCHANGED <<record, msg, act, out, view, turns, accepted, answered,
                 faults, evictions>>

AcknowledgeFails(w) ==
  /\ at[w] = "ack"
  /\ Raise(w)
  /\ UNCHANGED <<record, ghost, faults, evictions>>

-----------------------------------------------------------------------------
(* What can go wrong around a run.                                         *)

\* A renewal fails, _ClaimHeartbeat cancels the run; its request is on its way.
HeartbeatLost(w) ==
  /\ at[w] \in Heartbeat
  /\ ~Renewable(record[msg[w]], w)
  /\ IF at[w] = "call" THEN MayAccept(w) ELSE UNCHANGED accepted
  /\ Raise(w)
  /\ UNCHANGED <<record, turns, acked, answered, faults, evictions>>

\* The worker dies, or a dependency raises.
Abort(w) ==
  /\ at[w] # "idle"
  /\ Fault
  /\ IF at[w] = "call" THEN MayAccept(w) ELSE UNCHANGED accepted
  /\ Raise(w)
  /\ UNCHANGED <<record, turns, acked, answered, evictions>>

\* A renewal cancelled with its heartbeat reaches Redis between the read and
\* the update of the mutation that follows.  Left out is one so late that this
\* mutation's own requests overtake it: it would refuse a later mutation just so.
LateRenewal(w) ==
  /\ at[w] \in {"save", "reset", "confirm"}
  /\ view[w] = "fresh"
  /\ Renewable(record[msg[w]], w)
  /\ Fault
  /\ view' = [view EXCEPT ![w] = "stale"]
  /\ UNCHANGED <<record, at, msg, act, out, ghost, evictions>>

\* The lease passes: over a stalled owner, or over one that is gone.
LeaseExpires(m) ==
  /\ record[m].leased
  /\ record' = [record EXCEPT ![m] = [@ EXCEPT !.leased = FALSE]]
  /\ UNCHANGED <<run, ghost, evictions>>
OwnerStalls(m) == OwnerActive(m) /\ Fault /\ LeaseExpires(m)
LeaseRunsOut(m) == ~OwnerActive(m) /\ LeaseExpires(m) /\ UNCHANGED faults

\* The key expires: 24 hours after its last write, or seven days after
\* completion.  No run of process_outcome lasts that long.
Evict(m) ==
  /\ record[m].stage # "absent"
  /\ \A w \in Worker : ~Active(w, m)
  /\ evictions[m] < MaxEvictions
  /\ record' = [record EXCEPT ![m] = Absent]
  /\ evictions' = [evictions EXCEPT ![m] = @ + 1]
  /\ UNCHANGED <<run, ghost, faults>>

-----------------------------------------------------------------------------
\* The steps of a run that is scheduled.
Step(w) ==
  \/ AgentTurn(w) \/ AnswerUnsupported(w)
  \/ ReadRecord(w) \/ UpdateRefused(w)
  \/ SaveAgentResult(w) \/ BeginAction(w) \/ ReopenAction(w)
  \/ ConfirmAction(w) \/ FinishMessage(w)
  \/ CallAccepted(w) \/ CallUnclear(w)
  \/ Acknowledge(w) \/ AcknowledgeFails(w)
  \/ HeartbeatLost(w)

Deliver(m) == \E w \in Worker : Claim(w, m) \/ ClaimDuplicate(w, m)

Next ==
  \/ \E w \in Worker : Step(w) \/ CallRejected(w) \/ Abort(w) \/ LateRenewal(w)
  \/ \E m \in Message :
       Deliver(m) \/ OwnerStalls(m) \/ LeaseRunsOut(m) \/ Evict(m)

Spec == Init /\ [][Next]_vars

\* A scheduled run makes progress, a lease without an owner passes, and Meta
\* redelivers until it is answered 200.  Faults are finitely many.
Fairness ==
  /\ \A w \in Worker : WF_vars(Step(w))
  /\ \A m \in Message : WF_vars(LeaseRunsOut(m)) /\ WF_vars(Deliver(m))

FairSpec == Spec /\ Fairness
-----------------------------------------------------------------------------
(* Properties.                                                             *)

\* Types; a run stands at one of the places of process_outcome.
TypeOK ==
  /\ record \in [Message -> Record]
  /\ at \in [Worker -> Location]
  /\ msg \in [Worker -> Message]
  /\ act \in [Worker -> Action]
  /\ out \in [Worker -> Replay]
  /\ view \in [Worker -> {"none", "fresh", "stale"}]
  /\ turns \in [Message -> Nat]
  /\ accepted \in [Message -> [Action -> Nat]]
  /\ acked \in [Message -> BOOLEAN]
  /\ answered \in [Message -> BOOLEAN]
  /\ faults \in Nat
  /\ evictions \in [Message -> Nat]

\* An outbound call is journalled as uncertain before it starts and reopened
\* only on a definite rejection, so whatever crashes, stalls, takeovers and
\* lost replies happen, the provider accepts each part of a reply at most once
\* in the lifetime of its record.
AtMostOnceDelivery ==
  \A m \in Message, a \in Action : accepted[m][a] <= 1 + evictions[m]

\* Two runs are never between the start of a provider call for one message
\* and the note of its outcome, even when one has lost its lease meanwhile.
OneCallerPerMessage ==
  \A v, w \in Worker :
    v # w /\ msg[v] = msg[w] /\ at[v] \in Attending => at[w] \notin Attending

\* HTTP 200 makes Meta forget a message and a complete record makes every
\* later delivery a duplicate: neither happens before the text, the preview's
\* acknowledgement and, with a quotation, the PDF have all gone through.
CompleteMeansDelivered ==
  \A m \in Message :
    /\ answered[m] => accepted[m]["text"] >= 1
    /\ record[m].stage = "complete" =>
         /\ accepted[m]["text"] >= 1
         /\ record[m].replay.preview => acked[m]
         /\ record[m].replay.quotation =>
              accepted[m]["upload"] >= 1 /\ accepted[m]["document"] >= 1

\* The model validator of MessageProcessingRecord accepts every record the
\* scripts can leave in Redis: one it refused could never be resumed.
StoredRecordsValid == \A m \in Message : ValidRecord(record[m])

\* Without a fault or an expiry, no interleaving of deliveries runs the agent
\* twice; each repetition of a turn takes a crash, a stall or a forgotten key.
RerunsNeedFaults ==
  \A m \in Message : turns[m] <= 1 + faults + evictions[m]

\* Until its key expires a record only moves forward: no stage is undone, a
\* reply once saved is not replaced, a confirmed action stays confirmed.  A
\* run that lost the record and comes back late cannot set it back.
RecordsAdvance ==
  [][\A m \in Message :
       \/ record'[m].stage = "absent"
       \/ /\ Rank[record[m].stage] <= Rank[record'[m].stage]
          /\ Rank[record[m].stage] >= 2 => record'[m].replay = record[m].replay
          /\ \A a \in Action : record[m].action[a] = "succeeded" =>
                                 record'[m].action[a] = "succeeded"]_vars

\* mark_..._not_accepted: an action is reopened only when the provider has not
\* accepted it in the lifetime of this record, whoever attempted it.
ReopenedOnlyIfNotAccepted ==
  [][\A m \in Message, a \in Action :
       /\ record[m].action[a] = "uncertain"
       /\ record'[m].action[a] = "not_started"
       => \/ record'[m].stage = "absent"
          \/ accepted[m][a] <= evictions[m]]_vars

\* A call whose outcome nobody will note any more: no delivery goes further
\* with the message until its key expires.
Parked(m) ==
  /\ HasUncertainExternalAction(record[m])
  /\ \A w \in Worker : Active(w, m) => at[w] \notin Attending

\* Crashes, stalls, takeovers and rejections, finitely many, cannot leave a
\* message half way: it is answered with 200, or parked as uncertain.
EveryMessageSettles ==
  \A m \in Message : <>[](answered[m] \/ Parked(m))

\* The invariant that carries the proofs.  A record's actions agree with its
\* stage, and with what the provider and the conversation have seen; a run that
\* attends to a call is about the action its record has uncertain, even when
\* the record has been taken over; and a fresh view still shows what it read.
RecordSound(m) ==
  LET r == record[m] IN
    /\ ~Incomplete(r) => r.owner = NoOwner /\ ~r.leased
    /\ r.stage \in {"absent", "claimed"} => r.replay = PlainReplay
    /\ r.stage \in {"document_uploaded", "document_sent"} => r.replay.quotation
    /\ \A a \in Action :
         /\ r.action[a] = "uncertain" => r.stage = StageBefore[a]
         /\ r.action[a] = "uncertain" /\ a = "upload" => r.replay.quotation
         /\ r.action[a] = "succeeded" =>
              Rank[r.stage] > Rank[StageBefore[a]] /\ accepted[m][a] >= 1
         /\ Rank[r.stage] > Rank[StageBefore[a]] =>
              \/ r.action[a] = "succeeded"
              \/ r.stage = "complete" /\ a # "text" /\ ~r.replay.quotation
         /\ r.action[a] = "not_started" => accepted[m][a] <= evictions[m]
         /\ accepted[m][a] <= 1 + evictions[m]
    /\ r.action["text"] = "succeeded" /\ r.replay.preview => acked[m]
    /\ answered[m] => accepted[m]["text"] >= 1

RunSound(w) ==
  LET m == msg[w]
      a == act[w]
      r == record[m]
  IN /\ at[w] # "idle" => r.stage # "absent"
     /\ at[w] \in Attending \cup {"begin", "finish"} =>
          r.stage # "claimed" /\ out[w] = r.replay
     /\ at[w] \in Attending => r.action[a] = "uncertain"
     /\ at[w] \in {"call", "reset"} => accepted[m][a] <= evictions[m]
     /\ at[w] \in {"ack", "confirm"} => accepted[m][a] >= 1
     /\ at[w] = "confirm" /\ a = "text" /\ out[w].preview => acked[m]
     /\ view[w] # "none" => at[w] \in Mutation
     /\ view[w] = "fresh" => r.owner = w /\ Allowed(w, r)

ProcessingSound ==
  /\ \A m \in Message : RecordSound(m)
  /\ \A w \in Worker : RunSound(w)
  /\ OneCallerPerMessage

\* implementation-contract.md, "Atomic message claim": a duplicate cannot
\* repeat agent actions.
AgentRunsOnce == \A m \in Message : turns[m] <= 1

-----------------------------------------------------------------------------
(* The abstract specification this one implements.                         *)

Reply == INSTANCE ReplyDelivery WITH
  owed <- [m \in Message |->
             IF record[m].stage \in {"absent", "claimed"} THEN {}
             ELSE IF record[m].replay.quotation THEN Action ELSE {"text"}],
  copies <- accepted,
  closed <- [m \in Message |-> record[m].stage = "complete"],
  epoch <- evictions

\* Owners, leases, checkpoints and retries together deliver what ReplyDelivery
\* promises: a reply decided once, delivered in order, at most once a part,
\* and closed only when whole.
DeliversReplies == Reply!Spec
=============================================================================
