-------------------------- MODULE ProcessingRecord --------------------------
(***************************************************************************)
(* The Redis record app/services/message_deduplication_service.py keeps    *)
(* for every inbound WhatsApp message: what it may hold, what the three    *)
(* Lua scripts answer, and the stage transitions the service's methods     *)
(* compute.  All operators are pure; MessageProcessing gives them state.   *)
(*                                                                         *)
(* A token is a member of Worker: one run of process_outcome.  The lease   *)
(* deadline is reduced to "has it passed"; the revision number is left to  *)
(* the reader's view of the record (MessageProcessing!view).               *)
(***************************************************************************)
EXTENDS Naturals

CONSTANTS
  Worker,    \* owner tokens: runs of process_outcome that can overlap
  NoOwner    \* owner_token None, or a token no running task holds any more

ASSUME NoOwnerAssumption == NoOwner \notin Worker

Stage == {"absent", "claimed", "result_saved", "text_sent",
          "document_uploaded", "document_sent", "complete"}

\* The position of a stage in the pipeline.
Rank == [s \in Stage |->
  CASE s = "absent" -> 0 [] s = "claimed" -> 1 [] s = "result_saved" -> 2
    [] s = "text_sent" -> 3 [] s = "document_uploaded" -> 4
    [] s = "document_sent" -> 5 [] s = "complete" -> 6]

\* The three provider calls that are journalled: text_delivery,
\* document_upload and document_delivery.
Action == {"text", "upload", "document"}
ActionState == {"not_started", "uncertain", "succeeded"}

\* SafeReplayMetadata, reduced to what steers delivery: does the reply carry
\* a preview to acknowledge, and a generated quotation to upload and send.
Replay == [preview : BOOLEAN, quotation : BOOLEAN]
PlainReplay == [preview |-> FALSE, quotation |-> FALSE]

Record == [stage : Stage, owner : Worker \cup {NoOwner}, leased : BOOLEAN,
           replay : Replay, action : [Action -> ActionState]]

\* No key in Redis.
Absent == [stage |-> "absent", owner |-> NoOwner, leased |-> FALSE,
           replay |-> PlainReplay, action |-> [a \in Action |-> "not_started"]]

\* The stage each begin_/mark_ method requires, and the one mark_..._sent or
\* mark_document_uploaded moves to.
StageBefore == [a \in Action |->
  CASE a = "text" -> "result_saved" [] a = "upload" -> "text_sent"
    [] a = "document" -> "document_uploaded"]
StageAfter == [a \in Action |->
  CASE a = "text" -> "text_sent" [] a = "upload" -> "document_uploaded"
    [] a = "document" -> "document_sent"]

-----------------------------------------------------------------------------
(* The scripts.                                                            *)

Incomplete(r) == r.stage \notin {"absent", "complete"}

\* Mutants: a claim that ignores the lease; one that is never taken over.
ClaimDecisionNoLease(r, token) ==
  IF r.stage = "complete" THEN "complete" ELSE "acquired"
ClaimDecisionOnce(r, token) ==
  IF r.stage = "complete" THEN "complete"
  ELSE IF r.stage = "absent" THEN "acquired" ELSE "busy"

\* _CLAIM_SCRIPT's decision.
ClaimDecision(r, token) ==
  IF r.stage = "complete" THEN "complete"
  ELSE IF r.stage # "absent" /\ r.owner = token THEN "resumed"
  ELSE IF r.leased THEN "busy" ELSE "acquired"

\* Mutant: a takeover starts the record over.
ClaimedAfresh(r, token) ==
  [Absent EXCEPT !.stage = "claimed", !.owner = token, !.leased = TRUE]

\* What _CLAIM_SCRIPT stores when it answers acquired or resumed.
ClaimedBy(r, token) ==
  IF r.stage = "absent"
  THEN [Absent EXCEPT !.stage = "claimed", !.owner = token, !.leased = TRUE]
  ELSE [r EXCEPT !.owner = token, !.leased = TRUE]

\* _RENEW_SCRIPT answers ok: not missing, complete, not_owner or expired.
Renewable(r, token) == Incomplete(r) /\ r.owner = token /\ r.leased

\* Mutant: an update that checks neither owner, lease nor revision.
UpdatableByAnyone(r, token, sameRevision) == Incomplete(r)

\* _OWNED_UPDATE_SCRIPT answers ok: as for a renewal, and the revision is the
\* one the caller read.
Updatable(r, token, sameRevision) == Renewable(r, token) /\ sameRevision

\* What _OWNED_UPDATE_SCRIPT stores for a replacement: a complete record loses
\* its owner and its lease, any other has its lease refreshed.
Stored(replacement, token) ==
  IF replacement.stage = "complete"
  THEN [replacement EXCEPT !.owner = NoOwner, !.leased = FALSE]
  ELSE [replacement EXCEPT !.owner = token, !.leased = TRUE]

-----------------------------------------------------------------------------
(* The transitions: what each method requires of the record it read, and   *)
(* the replacement it computes from it.                                    *)

HasUncertainExternalAction(r) == \E a \in Action : r.action[a] = "uncertain"

CanSaveResult(r) == r.stage = "claimed"
SaveResult(r, replay) == [r EXCEPT !.stage = "result_saved", !.replay = replay]

\* Mutant: the call is not journalled.
BeginUnjournalled(r, a) == r

CanBeginExternalAction(r, a) ==
  /\ r.stage = StageBefore[a]
  /\ r.action[a] = "not_started"
  /\ a = "upload" => r.replay.quotation
BeginExternalAction(r, a) == [r EXCEPT !.action[a] = "uncertain"]

CanResetExternalAction(r, a) ==
  r.stage = StageBefore[a] /\ r.action[a] = "uncertain"
ResetExternalAction(r, a) == [r EXCEPT !.action[a] = "not_started"]

\* Mutant: the stage moves, the action is not noted.
MarkStageOnly(r, a) == [r EXCEPT !.stage = StageAfter[a]]

CanMarkSucceeded(r, a) ==
  r.stage = StageBefore[a] /\ r.action[a] = "uncertain"
MarkSucceeded(r, a) ==
  [r EXCEPT !.stage = StageAfter[a], !.action[a] = "succeeded"]

CanMarkProcessed(r) ==
  /\ r.stage \notin {"absent", "claimed"}
  /\ r.stage = IF r.replay.quotation THEN "document_sent" ELSE "text_sent"
MarkProcessed(r) == [r EXCEPT !.stage = "complete"]

\* validate_stage_invariants: what every stored record satisfies.  Left out are
\* the completion time and the ids that the provider gave, each written together
\* with the stage or the action it belongs to.
ValidRecord(r) ==
  /\ ~Incomplete(r) => r.owner = NoOwner /\ ~r.leased
  /\ r.stage \in {"absent", "claimed"} => r.replay = PlainReplay
  /\ Rank[r.stage] >= 3 => r.action["text"] = "succeeded"
  /\ r.stage \in {"document_uploaded", "document_sent"} =>
       r.action["upload"] = "succeeded"
  /\ r.stage = "document_sent" => r.action["document"] = "succeeded"
  /\ r.stage = "complete" /\ r.replay.quotation =>
       r.action["upload"] = "succeeded" /\ r.action["document"] = "succeeded"
=============================================================================
