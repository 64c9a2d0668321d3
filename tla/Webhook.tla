------------------------------ MODULE Webhook ------------------------------
(***************************************************************************)
(* The WhatsApp webhook: Meta posts a request of nested entries, changes   *)
(* and messages, and posts it again until it is answered 200; the route    *)
(* checks and parses it, and process_webhook takes its messages in order   *)
(* through process_outcome.                                                *)
(*                                                                         *)
(* A message is told by its id.  Its text, sender and timestamp, and what  *)
(* is wrong with a malformed part, are left out.  process_outcome is       *)
(* reduced to what a batch depends on: the claim, a provider call that is  *)
(* in doubt while it is made, the delivery and the completion; module      *)
(* MessageProcessing has all of it.                                        *)
(***************************************************************************)
EXTENDS Naturals, SequencesExt

CONSTANTS
  Message,      \* message ids
  Unclaimable,  \* ids claim_message raises ValueError for: overlong, unprintable
  Batch,        \* requests Meta has to deliver
  Attempt,      \* posts of one request that may overlap
  Posted,       \* what the requests may hold: functions from Batch to payloads
  Nobody,       \* no owner
  MaxFaults     \* bound: crashes, stalls and failed calls

ASSUME UnclaimableAssumption == Unclaimable \subseteq Message
ASSUME NobodyAssumption == Nobody \notin Batch \X Attempt
ASSUME FaultAssumption == MaxFaults \in Nat

Delivery == Batch \X Attempt

VARIABLES
  payload,     \* Batch -> its request body
  messages,    \* Batch -> what every parse of that body hands to process_webhook
  configured,  \* is there a coordinator
  stage,       \* Message -> how far its record is
  owner,       \* Message -> the delivery that claimed it last
  leased,      \* Message -> does the owner's lease run
  at,          \* Delivery -> where the request's handler stands
  pos,         \* Delivery -> the message of the batch it is about
  acked,       \* requests that were answered 200
  faults

records == <<stage, owner, leased>>
request == <<payload, messages, configured>>
handlers == <<at, pos, acked>>
vars == <<request, records, handlers, faults>>
-----------------------------------------------------------------------------
(* parse_whatsapp_webhook, as operators.  A part is malformed or has the   *)
(* parts below it; a change of another field has none that matter.         *)

Issue(kind) == [kind |-> kind, message |-> Nobody]

ParseMessage(raw) ==
  IF raw.form = "malformed" THEN Issue("invalid")
  ELSE [kind |-> IF raw.form = "text" THEN "text_message" ELSE "unsupported_message",
        message |-> raw.id]

\* The messages of a change, then its statuses, and one outcome if neither
\* gave any.
ParseMessages(change) ==
  CASE change.messages = "absent" -> <<>>
    [] change.messages = "malformed" -> <<Issue("invalid")>>
    [] OTHER -> [i \in DOMAIN change.raw |-> ParseMessage(change.raw[i])]
ParseStatuses(change) ==
  CASE change.statuses \in {"absent", "empty"} -> <<>>
    [] change.statuses = "malformed" -> <<Issue("invalid")>>
    [] OTHER -> <<Issue("ignored")>>
ParseChange(change) ==
  CASE change.form = "malformed" -> <<Issue("invalid")>>
    [] change.form = "other" -> <<Issue("ignored")>>
    [] OTHER ->
         LET outcomes == ParseMessages(change) \o ParseStatuses(change) IN
         IF outcomes = <<>> THEN <<Issue("ignored")>> ELSE outcomes

\* Mutant: the first part that is malformed ends the entry.
ParseEntryFailFast(entry) ==
  IF entry.form = "malformed" \/ \E i \in DOMAIN entry.changes : entry.changes[i].form = "malformed"
  THEN <<Issue("invalid")>>
  ELSE FlattenSeq([i \in DOMAIN entry.changes |-> ParseChange(entry.changes[i])])

ParseEntry(entry) ==
  IF entry.form = "malformed" \/ entry.changes = <<>> THEN <<Issue("invalid")>>
  ELSE FlattenSeq([i \in DOMAIN entry.changes |-> ParseChange(entry.changes[i])])

Parse(body) ==
  IF body.form = "malformed" \/ body.entries = <<>> THEN <<Issue("invalid")>>
  ELSE FlattenSeq([i \in DOMAIN body.entries |-> ParseEntry(body.entries[i])])

\* What process_webhook acts upon.
MessagesOf(outcome) ==
  IF outcome.kind \in {"text_message", "unsupported_message"} THEN <<outcome.message>> ELSE <<>>
Actionable(body) ==
  LET outcomes == Parse(body)
  IN  FlattenSeq([i \in DOMAIN outcomes |-> MessagesOf(outcomes[i])])

\* What Meta may post.
RawMessages == [form : {"malformed", "text", "media"}, id : Message]
Changes == [form : {"malformed", "other", "messages"}, raw : Seq(RawMessages),
            messages : {"absent", "malformed", "array"},
            statuses : {"absent", "empty", "malformed", "array"}]
Entries == [form : {"malformed", "object"}, changes : Seq(Changes)]
Requests == [form : {"oversized", "unsigned", "unreadable", "malformed", "object"},
             entries : Seq(Entries)]

ASSUME PostedAssumption == \A bodies \in Posted : \A b \in Batch : bodies[b] \in Requests
-----------------------------------------------------------------------------
Init ==
  /\ payload \in Posted
  /\ messages = [b \in Batch |-> Actionable(payload[b])]
  /\ configured \in BOOLEAN
  /\ stage = [m \in Message |-> "open"]
  /\ owner = [m \in Message |-> Nobody]
  /\ leased = [m \in Message |-> FALSE]
  /\ at = [d \in Delivery |-> "idle"]
  /\ pos = [d \in Delivery |-> 1]
  /\ acked = {}
  /\ faults = 0

Fault == faults < MaxFaults /\ faults' = faults + 1
Current(d) == messages[d[1]][pos[d]]
Go(d, place) == at' = [at EXCEPT ![d] = place]
Owns(d) == owner[Current(d)] = d /\ leased[Current(d)]

\* Mutant: the next post goes on where the last one stopped.
AnswerInPlace(d, status) ==
  /\ Go(d, "idle")
  /\ UNCHANGED pos
  /\ acked' = IF status = 200 THEN acked \cup {d[1]} ELSE acked

\* The request is answered, with status 0 if its process died.
Answer(d, status) ==
  /\ Go(d, "idle")
  /\ pos' = [pos EXCEPT ![d] = 1]
  /\ acked' = IF status = 200 THEN acked \cup {d[1]} ELSE acked

\* process_outcome has returned: the next message, if there is one.
NextMessage(d) ==
  IF pos[d] < Len(messages[d[1]])
  THEN /\ pos' = [pos EXCEPT ![d] = @ + 1]
       /\ Go(d, "claim")
       /\ UNCHANGED acked
  ELSE Answer(d, 200)

Post(d) ==
  /\ at[d] = "idle"
  /\ d[1] \notin acked
  /\ Go(d, "received")
  /\ UNCHANGED <<request, records, pos, acked, faults>>

\* Too large, no valid signature, no JSON.
Refuse(d) ==
  /\ at[d] = "received"
  /\ LET form == payload[d[1]].form IN
     \/ form = "oversized" /\ Answer(d, 413)
     \/ form = "unsigned" /\ Answer(d, 403)
     \/ form = "unreadable" /\ Answer(d, 400)
  /\ UNCHANGED <<request, records, faults>>

Receive(d) ==
  /\ at[d] = "received"
  /\ payload[d[1]].form \in {"malformed", "object"}
  /\ IF messages[d[1]] = <<>> THEN Answer(d, 200)
     ELSE IF ~configured THEN Answer(d, 503)
     ELSE Go(d, "claim") /\ UNCHANGED <<pos, acked>>
  /\ UNCHANGED <<request, records, faults>>
-----------------------------------------------------------------------------
(* process_outcome.                                                        *)

\* claim_message raises ValueError, which the route does not catch.
RefuseId(d) ==
  /\ at[d] = "claim"
  /\ Current(d) \in Unclaimable
  /\ Answer(d, 500)
  /\ UNCHANGED <<request, records, faults>>

\* Mutant: a message another run has is taken for a duplicate.
PassOverBusy(d) ==
  /\ at[d] = "claim" /\ Current(d) \notin Unclaimable
  /\ stage[Current(d)] = "complete" \/ leased[Current(d)]
  /\ NextMessage(d)
  /\ UNCHANGED <<request, records, faults>>

\* A complete message is passed over.
PassOver(d) ==
  /\ at[d] = "claim" /\ Current(d) \notin Unclaimable
  /\ stage[Current(d)] = "complete"
  /\ NextMessage(d)
  /\ UNCHANGED <<request, records, faults>>

\* Mutant: a record that has an owner is busy, whatever its lease.
BusyWhenOwned(d) ==
  /\ at[d] = "claim" /\ Current(d) \notin Unclaimable
  /\ stage[Current(d)] # "complete" /\ owner[Current(d)] # Nobody
  /\ Answer(d, 503)
  /\ UNCHANGED <<request, records, faults>>

\* Another run has the message.
Busy(d) ==
  /\ at[d] = "claim" /\ Current(d) \notin Unclaimable
  /\ stage[Current(d)] # "complete" /\ leased[Current(d)]
  /\ Answer(d, 503)
  /\ UNCHANGED <<request, records, faults>>

\* The claim is d's, new or taken over.
Acquire(d) ==
  /\ at[d] = "claim" /\ Current(d) \notin Unclaimable
  /\ stage[Current(d)] # "complete" /\ ~leased[Current(d)]
  /\ owner' = [owner EXCEPT ![Current(d)] = d]
  /\ leased' = [leased EXCEPT ![Current(d)] = TRUE]
  /\ UNCHANGED <<request, stage, faults>>

\* The run goes on where the record stands, unless a call is in doubt.
Resume(d) ==
  /\ Acquire(d)
  /\ stage[Current(d)] # "uncertain"
  /\ Go(d, IF stage[Current(d)] = "delivered" THEN "finish" ELSE "process")
  /\ UNCHANGED <<pos, acked>>
InDoubt(d) ==
  /\ Acquire(d)
  /\ stage[Current(d)] = "uncertain"
  /\ Answer(d, 503)

\* The reply is stored and a provider call journalled before it is made.
BeginCall(d) ==
  /\ at[d] = "process" /\ Owns(d)
  /\ stage' = [stage EXCEPT ![Current(d)] = "uncertain"]
  /\ Go(d, "call")
  /\ UNCHANGED <<request, owner, leased, pos, acked, faults>>

\* Its outcome is noted: accepted, or not accepted and so open again.
Delivered(d) ==
  /\ at[d] = "call" /\ Owns(d)
  /\ stage' = [stage EXCEPT ![Current(d)] = "delivered"]
  /\ Go(d, "finish")
  /\ UNCHANGED <<request, owner, leased, pos, acked, faults>>
NotAccepted(d) ==
  /\ at[d] = "call" /\ Owns(d)
  /\ Fault
  /\ stage' = [stage EXCEPT ![Current(d)] = "open"]
  /\ Answer(d, 503)
  /\ UNCHANGED <<request, owner, leased>>

\* Mutant: a failing message does not stop the batch.
FailedGoesOn(d) ==
  /\ at[d] \in {"process", "call", "finish"}
  /\ IF Owns(d) THEN Fault ELSE UNCHANGED faults
  /\ NextMessage(d)
  /\ UNCHANGED <<request, records>>

\* The agent, the call or its note fails, or the record is no longer the run's.
Failed(d) ==
  /\ at[d] \in {"process", "call", "finish"}
  /\ IF Owns(d) THEN Fault ELSE UNCHANGED faults
  /\ Answer(d, 503)
  /\ UNCHANGED <<request, records>>

\* mark_message_processed.
Complete(d) ==
  /\ at[d] = "finish" /\ Owns(d)
  /\ stage' = [stage EXCEPT ![Current(d)] = "complete"]
  /\ owner' = [owner EXCEPT ![Current(d)] = Nobody]
  /\ leased' = [leased EXCEPT ![Current(d)] = FALSE]
  /\ NextMessage(d)
  /\ UNCHANGED <<request, faults>>

Crash(d) ==
  /\ at[d] # "idle"
  /\ Fault
  /\ Answer(d, 0)
  /\ UNCHANGED <<request, records>>

\* The heartbeat keeps the lease of a run that attends to the message; it
\* passes by itself when the run is gone, and under a stalled run as a fault.
Attended(m) == \E d \in Delivery :
  at[d] \in {"process", "call", "finish"} /\ owner[m] = d /\ Current(d) = m
Expire(m) ==
  /\ leased[m]
  /\ leased' = [leased EXCEPT ![m] = FALSE]
  /\ UNCHANGED <<request, stage, owner, handlers>>
LeaseExpires(m) == ~Attended(m) /\ Expire(m) /\ UNCHANGED faults
OwnerStalls(m) == Attended(m) /\ Expire(m) /\ Fault
-----------------------------------------------------------------------------
Step(d) == Refuse(d) \/ Receive(d) \/ RefuseId(d)
           \/ PassOver(d) \/ Busy(d) \/ Resume(d) \/ InDoubt(d) \/ BeginCall(d)
           \/ Delivered(d) \/ NotAccepted(d) \/ Failed(d) \/ Complete(d)

Next ==
  \/ \E d \in Delivery : Post(d) \/ Step(d) \/ Crash(d)
  \/ \E m \in Message : LeaseExpires(m) \/ OwnerStalls(m)
  \/ (\A d \in Delivery : at[d] = "idle" /\ d[1] \in acked) /\ UNCHANGED vars

\* A handler goes on, leases pass, and Meta posts again what was not answered
\* 200.
Fairness ==
  /\ \A d \in Delivery : WF_vars(Step(d))
  /\ \A m \in Message : WF_vars(LeaseExpires(m))
  /\ \A b \in Batch : WF_vars(\E k \in Attempt : Post(<<b, k>>))

Spec == Init /\ [][Next]_vars /\ Fairness
-----------------------------------------------------------------------------
(* Properties.                                                             *)

\* Types; a handler past the parser is about a message of its batch.
TypeOK ==
  /\ payload \in Posted /\ configured \in BOOLEAN
  /\ messages \in [Batch -> Seq(Message)]
  /\ stage \in [Message -> {"open", "uncertain", "delivered", "complete"}]
  /\ owner \in [Message -> Delivery \cup {Nobody}]
  /\ leased \in [Message -> BOOLEAN]
  /\ at \in [Delivery -> {"idle", "received", "claim", "process", "call", "finish"}]
  /\ pos \in [Delivery -> Nat]
  /\ acked \subseteq Batch /\ faults \in Nat
  /\ \A d \in Delivery :
       IF at[d] \in {"idle", "received"} THEN pos[d] = 1
       ELSE pos[d] \in DOMAIN messages[d[1]]

\* "A malformed sibling becomes an INVALID outcome and does not prevent later
\* entries, changes, or messages from being normalized": what is processed is
\* every well-formed message of every well-formed part, in the order of the
\* request, whatever is beside it.
PlacesIn(body, e, c) ==
  LET change == body.entries[e].changes[c] IN
  IF change.form = "messages" /\ change.messages = "array"
  THEN {<<e, c, i>> : i \in {i \in DOMAIN change.raw : change.raw[i].form # "malformed"}}
  ELSE {}
Places(body) ==
  UNION {UNION {PlacesIn(body, e, c) : c \in DOMAIN body.entries[e].changes}
         : e \in {e \in DOMAIN body.entries : body.entries[e].form = "object"}}
IsBefore(p, q) ==
  \/ p[1] < q[1]
  \/ p[1] = q[1] /\ p[2] < q[2]
  \/ p[1] = q[1] /\ p[2] = q[2] /\ p[3] < q[3]
MessageAt(body, p) == body.entries[p[1]].changes[p[2]].raw[p[3]].id
InOrder(found, body) ==
  \E place \in [DOMAIN found -> Places(body)] :
    /\ \A p \in Places(body) : \E n \in DOMAIN found : place[n] = p
    /\ \A n, k \in DOMAIN found : n < k => IsBefore(place[n], place[k])
    /\ \A n \in DOMAIN found : found[n] = MessageAt(body, place[n])
NothingHidden ==
  \A b \in Batch : payload[b].form = "object" => InOrder(messages[b], payload[b])

\* "Authenticate, parse, synchronously process, then acknowledge": what was
\* answered 200 is complete, every message of it.
AcknowledgedIsComplete ==
  \A b \in acked : \A i \in DOMAIN messages[b] : stage[messages[b][i]] = "complete"

\* "Process actionable outcomes in order": whoever else works on the batch, a
\* message is begun when those before it are complete.
EarlierComplete ==
  \A d \in Delivery : \A i \in 1 .. pos[d] - 1 : stage[messages[d[1]][i]] = "complete"

\* What carries the proofs: in addition, the owner of a record is about a
\* message that is not complete.
Attending(d) == at[d] \in {"process", "call", "finish"}
OwnersAttend ==
  \A d \in Delivery : Attending(d) /\ owner[Current(d)] = d => stage[Current(d)] # "complete"
BatchSound == EarlierComplete /\ AcknowledgedIsComplete /\ OwnersAttend

\* A message is served unless it or one before it cannot be: its id is refused,
\* or its provider call stays in doubt; and a request all of whose messages are
\* complete is answered 200.
Stuck(m) == m \in Unclaimable \/ stage[m] = "uncertain"
Deliverable(b) == configured /\ payload[b].form \in {"malformed", "object"}
ServedUnlessBlocked ==
  \A b \in Batch : Deliverable(b) =>
    /\ <>[](\A i \in DOMAIN messages[b] :
              \/ stage[messages[b][i]] = "complete"
              \/ \E j \in 1 .. i : Stuck(messages[b][j]))
    /\ <>[](b \in acked \/ \E i \in DOMAIN messages[b] : Stuck(messages[b][i]))
=============================================================================
