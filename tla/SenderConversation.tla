------------------------- MODULE SenderConversation -------------------------
(***************************************************************************)
(* The messages of one sender, the sender's session, and the previews that *)
(* travel between them: process_outcome takes each message through a turn  *)
(* of the conversation, the text that answers it, and the acknowledgement  *)
(* of the preview that text carried.  Turns and acknowledgements share the *)
(* conversation lock; everything else of two messages interleaves.         *)
(*                                                                         *)
(* This composes what other modules have in detail: a message's record     *)
(* (MessageProcessing) is reduced to its text, with one run of it at a     *)
(* time; the lock (ConversationLock) to its exclusion, the wait that may   *)
(* run out and the owner that dies; the session (QuoteSession) to what its *)
(* fingerprint digests, its preview and its state.                         *)
(***************************************************************************)
EXTENDS Naturals

CONSTANTS
  Message,     \* inbound messages of the sender
  Ahead,       \* Message -> those that precede it in its webhook request
  Content,     \* what a fingerprint digests: cart, customer, prices, rules
  NewContent,  \* that of a new session
  Free,        \* no key in Redis
  Orphan,      \* the token of a run that died
  MaxFaults    \* bound: crashes, failed sends, lost sessions

ASSUME AheadAssumption == Ahead \in [Message -> SUBSET Message]
ASSUME ContentAssumption == NewContent \in Content
ASSUME LockAssumption ==
  Free # Orphan /\ Free \notin Message /\ Orphan \notin Message
ASSUME BoundAssumption == MaxFaults \in Nat

VARIABLES
  record,     \* Message -> how far its record is; "uncertain": its text is
  at,         \* Message -> where the run of process_outcome on it stands
  reply,      \* Message -> the preview its reply carries
  lock,       \* the conversation lock of the sender
  session,    \* the stored session
  turns,      \* turns begun so far: each has its number
  given,      \* previews the provider has accepted, by turn
  overtaken,  \* Message -> has another's turn begun since its own last one
  faults

run == <<record, at, reply>>
conversation == <<lock, session, turns, overtaken>>
vars == <<run, conversation, given, faults>>

\* PreviewDeliveryMetadata: the turn that prepared it and its fingerprint.
Preview == [turn : Nat, print : Content]
NoPreview == [turn |-> 0, print |-> NewContent]

Session == [content : Content, prepared : Preview,
            state : {"none", "review", "awaiting", "generated"}]
NewSession == [content |-> NewContent, prepared |-> NoPreview, state |-> "none"]

Stage == {"open", "saved", "uncertain", "complete"}
Location == {"idle", "waiting", "turn", "save", "send", "call", "ack", "mark"}

Init ==
  /\ record = [m \in Message |-> "open"]
  /\ at = [m \in Message |-> "idle"]
  /\ reply = [m \in Message |-> NoPreview]
  /\ lock = Free
  /\ session = NewSession
  /\ turns = 0
  /\ given = {}
  /\ overtaken = [m \in Message |-> FALSE]
  /\ faults = 0

Go(m, place) == at' = [at EXCEPT ![m] = place]
Note(m, stage) == record' = [record EXCEPT ![m] = stage]
Fault == faults < MaxFaults /\ faults' = faults + 1
-----------------------------------------------------------------------------
(* A delivery of m: claimed, and resumed where its record stands.  An      *)
(* uncertain record is raised at once, and changes nothing.                *)

Claim(m) ==
  /\ at[m] = "idle"
  /\ \A n \in Ahead[m] : record[n] = "complete"
  /\ \/ record[m] = "open" /\ Go(m, "waiting")
     \/ record[m] = "saved" /\ Go(m, "send")
  /\ UNCHANGED <<record, reply, conversation, given, faults>>

\* Mutant: SET without NX takes the lock from whoever has it.
BeginTurnRegardless(m) ==
  /\ at[m] = "waiting"
  /\ lock' = m
  /\ turns' = turns + 1
  /\ overtaken' = [n \in Message |-> n # m]
  /\ Go(m, "turn")
  /\ UNCHANGED <<record, reply, session, given, faults>>

\* process_message: the lock, the session, a new turn id.
BeginTurn(m) ==
  /\ at[m] = "waiting" /\ lock = Free
  /\ lock' = m
  /\ turns' = turns + 1
  /\ overtaken' = [n \in Message |-> n # m]
  /\ Go(m, "turn")
  /\ UNCHANGED <<record, reply, session, given, faults>>

\* lock_wait_seconds have passed: process_message raises.
GiveUpTurn(m) ==
  /\ at[m] = "waiting" /\ lock # Free
  /\ Go(m, "idle")
  /\ UNCHANGED <<record, reply, conversation, given, faults>>

EndTurn(m, result, preview) ==
  /\ at[m] = "turn"
  /\ session' = result
  /\ reply' = [reply EXCEPT ![m] = preview]
  /\ lock' = Free
  /\ Go(m, "save")
  /\ UNCHANGED <<record, turns, overtaken, given, faults>>

\* The agent leaves the quotation as it is; changes cart or customer; prepares
\* it, as it was or as changed; generates it once its preview was delivered.
\* The session is saved and the lock released before the reply goes anywhere.
Turn(m) ==
  \/ EndTurn(m, session, NoPreview)
  \/ \E c \in Content :
       EndTurn(m, [content |-> c, prepared |-> NoPreview, state |-> "none"],
               NoPreview)
  \/ \E c \in Content \ {NewContent} :
       LET preview == [turn |-> turns, print |-> c] IN
       EndTurn(m, [content |-> c, prepared |-> preview, state |-> "review"],
               preview)
  \/ /\ session.state = "awaiting"
     /\ EndTurn(m, [session EXCEPT !.state = "generated"], NoPreview)

SaveResult(m) ==
  /\ at[m] = "save"
  /\ Note(m, "saved")
  /\ Go(m, "send")
  /\ UNCHANGED <<reply, conversation, given, faults>>
-----------------------------------------------------------------------------
(* _deliver_text.                                                          *)

BeginSend(m) ==
  /\ at[m] = "send"
  /\ Note(m, "uncertain")
  /\ Go(m, "call")
  /\ UNCHANGED <<reply, conversation, given, faults>>

Given(m) == IF reply[m] = NoPreview THEN given ELSE given \cup {reply[m].turn}

\* A text that carries a preview is acknowledged before its send is noted.
SendAccepted(m) ==
  /\ at[m] = "call"
  /\ given' = Given(m)
  /\ Go(m, IF reply[m] = NoPreview THEN "mark" ELSE "ack")
  /\ UNCHANGED <<record, reply, conversation, faults>>

\* mark_text_send_not_accepted, and the run raises.
SendRejected(m) ==
  /\ at[m] = "call"
  /\ Fault
  /\ Note(m, "saved")
  /\ Go(m, "idle")
  /\ UNCHANGED <<reply, conversation, given>>

\* Accepted or not, nobody will know.
SendUnclear(m) ==
  /\ at[m] = "call"
  /\ Fault
  /\ given' \in {given, Given(m)}
  /\ Go(m, "idle")
  /\ UNCHANGED <<record, reply, conversation>>

\* Mutant: the binding is compared by content only.
CurrentByPrint(preview) ==
  session.state = "review" /\ session.prepared.print = preview.print

\* mark_ready_for_confirmation accepts the acknowledgement.
Current(preview) ==
  /\ session.state = "review"
  /\ session.prepared = preview
  /\ session.content = preview.print

\* acknowledge_successful_delivery: load, mark, save, under the lock.
Acknowledge(m) ==
  /\ at[m] = "ack" /\ lock = Free
  /\ Current(reply[m])
  /\ session' = [session EXCEPT !.state = "awaiting"]
  /\ Go(m, "mark")
  /\ UNCHANGED <<record, reply, lock, turns, overtaken, given, faults>>

\* Mutant: what cannot be acknowledged is not waited for.
AcknowledgeRefusedAtOnce(m) ==
  /\ at[m] = "ack"
  /\ Go(m, "idle")
  /\ UNCHANGED <<record, reply, conversation, given, faults>>

\* StalePreviewError, or the wait for the lock runs out: the run raises, and
\* the text stays uncertain.
AcknowledgeRefused(m) ==
  /\ at[m] = "ack"
  /\ lock # Free \/ ~Current(reply[m])
  /\ Go(m, "idle")
  /\ UNCHANGED <<record, reply, conversation, given, faults>>

\* mark_text_sent; what follows is the document's, and MessageProcessing's.
MarkSent(m) ==
  /\ at[m] = "mark"
  /\ Note(m, "complete")
  /\ Go(m, "idle")
  /\ UNCHANGED <<reply, conversation, given, faults>>
-----------------------------------------------------------------------------
\* The run dies, or a dependency of it raises: a turn is not saved, a request
\* on its way may be executed.
Crash(m) ==
  /\ at[m] # "idle"
  /\ Fault
  /\ Go(m, "idle")
  /\ lock' = IF lock = m THEN Orphan ELSE lock
  /\ given' \in IF at[m] = "call" THEN {given, Given(m)} ELSE {given}
  /\ UNCHANGED <<record, reply, session, turns, overtaken>>

\* Mutant: the key has no expiry.
KeyStays == FALSE /\ UNCHANGED vars

LeaseRunsOut ==
  /\ lock = Orphan
  /\ lock' = Free
  /\ UNCHANGED <<run, session, turns, overtaken, given, faults>>

\* The session expires.  Within a turn nobody would notice: the turn has its
\* copy, which save_session stores again where the key is gone; and if it dies
\* first, the session might as well have expired right after.
SessionExpires ==
  /\ lock \in {Free, Orphan}
  /\ Fault
  /\ session' = NewSession
  /\ UNCHANGED <<run, lock, turns, overtaken, given>>
-----------------------------------------------------------------------------
Step(m) ==
  \/ BeginTurn(m) \/ GiveUpTurn(m) \/ Turn(m) \/ SaveResult(m)
  \/ BeginSend(m) \/ SendAccepted(m)
  \/ Acknowledge(m) \/ AcknowledgeRefused(m) \/ MarkSent(m)

Next ==
  \/ \E m \in Message :
       Claim(m) \/ Step(m) \/ SendRejected(m) \/ SendUnclear(m) \/ Crash(m)
  \/ LeaseRunsOut \/ SessionExpires

Spec == Init /\ [][Next]_vars

\* Meta delivers again until it is answered, a run that is scheduled goes on
\* (the agent's requests time out), and a lease without a run passes.
Fairness ==
  /\ \A m \in Message : WF_vars(Claim(m)) /\ WF_vars(Step(m))
  /\ WF_vars(LeaseRunsOut)

FairSpec == Spec /\ Fairness
-----------------------------------------------------------------------------
(* Properties.                                                             *)

\* Types; and the lock is with a message exactly while its run is in its turn:
\* neither another's release nor the end of a dead owner's lease takes it away
\* in between, and no turn runs without it.
TypeOK ==
  /\ record \in [Message -> Stage]
  /\ at \in [Message -> Location]
  /\ reply \in [Message -> Preview]
  /\ lock \in Message \cup {Free, Orphan}
  /\ \A m \in Message : lock = m <=> at[m] = "turn"
  /\ session \in Session
  /\ turns \in Nat
  /\ given \subseteq 1..turns
  /\ overtaken \in [Message -> BOOLEAN]
  /\ faults \in Nat

\* _deliver_text leaves a text uncertain for good when its preview cannot be
\* acknowledged.  Without a fault that happens only to a preview that another
\* message's turn has come after.
UncertainHasCause ==
  \A m \in Message :
    record[m] = "uncertain" /\ at[m] = "idle" /\ faults = 0
      => overtaken[m] /\ reply[m] # NoPreview

Boundary == INSTANCE PreviewBoundary WITH
  current <- session.prepared.turn, phase <- session.state

\* D-05: however turns, sends, acknowledgements and crashes of the sender's
\* messages interleave, what becomes confirmable is the session's current
\* preview, and the transport has accepted that very one.
KeepsBoundary == Boundary!Spec

\* D-05, "Successful delivery/presentation of that preview transitions to
\* AWAITING_CONFIRMATION": it does, unless a fault or another message's turn
\* comes between.
DeliveredBecomesConfirmable ==
  \A m \in Message :
    reply[m].turn \in given
      ~> \/ session.prepared = reply[m] /\ session.state \in {"awaiting", "generated"}
         \/ overtaken[m] \/ faults > 0

Settled(m) == record[m] \in {"complete", "uncertain"} /\ at[m] = "idle"

\* Messages of one sender wait for each other's turns and never for good: each
\* is completed, left uncertain, or behind one of its request that is.
MessagesSettle ==
  \A m \in Message :
    <>[](Settled(m) \/ \E n \in Ahead[m] : Settled(n) /\ record[n] = "uncertain")
=============================================================================
