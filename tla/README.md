# TLA+ models of the GDF sales agent

The repository is a WhatsApp sales agent: a FastAPI webhook, a language-model
agent with a fixed set of tools, quotations with PDFs, and Redis for message
records, conversation sessions and locks. This directory holds TLA+ models of
the parts that keep state, TLC configurations that check them on small
instances, and proofs that TLAPS checks for every instance.

## 1. Inventory

| Component | State | Operations | What must hold | Model |
|---|---|---|---|---|
| `MessageDeduplicationService` | one Redis record per inbound message: stage, owner, lease, revision, reply, three action states | claim, renew, save result, begin / reset / mark of text, upload and document, mark processed; expiry of lease and key | one owner; records only move forward; every stored record is valid | `ProcessingRecord`, `MessageProcessing` |
| `WhatsAppProcessingCoordinator` | the locals of a run of `process_outcome`; a heartbeat task | claim, run the agent, journal and perform each provider call, acknowledge a preview, complete | no part of a reply is sent twice; completion means delivered; every message settles | `MessageProcessing`, `ReplyDelivery`; several messages of a sender in `SenderConversation`, `PreviewBoundary` |
| `QuotationService` on a `ConversationSession` | cart, customer, bound preview, delivery, confirmation, replay metadata | cart and customer edits, prepare, mark ready, confirm, generate, replay | only what was shown and confirmed is issued, once; every change revokes | `QuoteSession`, `QuotationLifecycle` |
| Agent tool loop, `ToolExecutor` | the turn's copy of the session, generated quote, prepared preview | up to eight model responses, each with tool calls; fallback | what the tools did survives a fallback; a preview ends the turn | `QuotationLifecycle` (as any sequence of tool calls) |
| `ConversationService`, `SessionService` | per-sender Redis lock; session JSON with a TTL | lock, renew, lose, release; load, save | turns of one sender exclude each other; no save drops another's update; a dead owner does not keep the lock | `ConversationLock` |
| `PDFService`, `LocalQuotationStorage` | reservation, temporary and final files | reserve, write, read, cancel | one file per id, never overwritten; nothing half-written is visible; a run that is over has cleaned up | `QuotationStorage`, `ArtifactStore` |
| `QuotationCalculator` | none | lines, discount, tax, total | roundings stay small; more goods never cost less | `Pricing` |
| `WhatsAppService` | none | send text in parts, upload, send document | what each outcome says about delivery; splitting loses nothing and cuts nothing apart | `WhatsAppTransport` |
| Webhook route and parser | the batch and its position in one request | verify, parse, process a batch in order, answer; Meta posts again | one bad part hides no message; 200 means every message is complete; order within a batch | `Webhook` |
| Development routes | none | `/quotes/generate` on a stored session without the lock; `/dev/chat` as a turn | | `/quotes/generate` in `ConversationLock` |
| Catalogue, company data, search | read-only after start-up | lookups, ranked search | a lower field never overtakes a higher one | search in `ProductSearch` |
| Prompt, tool schemas, configuration, logging, start-up, health | none that a model would gain from | | | not modelled |

Components meet in four ways. The webhook route calls the coordinator, which
calls the deduplication service, the conversation service and the transport in
a fixed order. The conversation service loads a session under a lock, hands it
to the agent, and saves it. The agent calls the quotation service through the
tool executor. The coordinator acknowledges a delivered preview to the
conversation service, which makes it confirmable.

The hard behaviour, listed line by line under `hazards` in `PROJECT.json`:
deliveries of one message that overlap; an owner that loses its lease while it
is calling the provider; crashes between a provider call and the note of its
outcome; a reply whose outcome nobody knows; acknowledgements and confirmations
that arrive after another preview was made; business data that change under a
session; one step of several failing; and several messages of one sender, whose turns,
sends and acknowledgements interleave.

## 2. Modules

| Module | Models |
|---|---|
| `ProcessingRecord` | the message record, the answers of the three Lua scripts, the stage transitions (operators only) |
| `MessageProcessing` | deliveries as runs of `process_outcome` racing for the records |
| `ReplyDelivery` | the abstract promise: a reply decided once, delivered in order, at most once a part, closed when whole |
| `MessageProcessingProofs` | TLAPS proofs about `MessageProcessing`, the refinement of `ReplyDelivery` among them |
| `QuoteSession` | the quotation half of a session and the methods of `QuotationService` (operators only) |
| `QuotationLifecycle` | turns, previews in flight, acknowledgements, expiry, new business data |
| `QuotationIssue` | the abstract promise: a quotation is issued of a received preview, on a confirmation spent on it alone, again only for a lost turn |
| `QuotationLifecycleProofs` | TLAPS proofs about `QuotationLifecycle`, its refinements of `PreviewBoundary` and `QuotationIssue` among them |
| `ConversationLock` | tasks and development requests on one sender's lock and stored session |
| `ConversationLockProofs` | TLAPS proofs about `ConversationLock` |
| `QuotationStorage` | runs of `generate_quotation_pdf` on the files of the quotation ids |
| `ArtifactStore` | the abstract promise: one PDF per id, never replaced, and a returned path is the run's own |
| `QuotationStorageProofs` | TLAPS proofs about `QuotationStorage`, the refinement of `ArtifactStore` among them |
| `Webhook` | the parser as operators; posts of requests as handlers that process batches |
| `WebhookProofs` | TLAPS proofs about `Webhook`, its parser among them |
| `SenderConversation` | the messages of one sender: turns, replies with previews, acknowledgements, the lock and the session between them |
| `PreviewBoundary` | the abstract promise: a preview becomes confirmable only while it is current and after the transport has accepted it |
| `SenderConversationProofs` | TLAPS proofs about `SenderConversation`, the refinement of `PreviewBoundary` among them |
| `WhatsAppTransport` | one call of the transport: splitting, posts, how it ends, and what the coordinator concludes |
| `Pricing` | the amounts of a quotation (operators only) |
| `ProductSearch` | the ranked search (operators only) |
| `MCMessageProcessing`, `MCQuotationLifecycle`, `MCConversationLock`, `MCQuotationStorage`, `MCWebhook`, `MCSenderConversation` | instances for TLC |
| `MCAlgorithms` | one instance for `WhatsAppTransport`, `Pricing` and `ProductSearch`: it chooses texts, carts and queries |
| `AlgorithmsProofs` | TLAPS proofs about `WhatsAppTransport`, `Pricing` and `ProductSearch` |
| `Induction` | induction over numbers, subsets and sequences, as lemmas that TLAPS can apply |

A few definitions are marked *Mutant*: the same operation with a plausible bug.
No specification uses them. Each shows that a property notices the bug.

### MessageProcessing

A `Worker` is one run of `process_outcome` with its own owner token. `at[w]` is
the place it has reached: `agent` is `_create_replay`; `save`, `begin`,
`confirm`, `reset` and `finish` are the mutations `save_result`, `begin_...`,
`mark_...`, `mark_..._not_accepted` and `mark_message_processed`; `call` is the
provider call and `ack` the preview's acknowledgement. `out[w]` is the local
variable `replay`. When a run ends, its worker is reused with a new token
(`Disowned`).

`_mutate_owned` is two steps, as in the code: `ReadRecord` fetches the record
and checks the transition, then the update script runs (`Update`, or
`UpdateRefused`). In between, the record may be taken over, its lease may pass,
or a renewal cancelled with its heartbeat may still land (`LateRenewal`, before the
mutation that directly follows the heartbeat). The
revision number is compared for equality only, so a run's view of a record is
a flag, *fresh* until the record is next written.

A provider call ends as `CallAccepted`, `CallRejected` (an error status, or a
failure before the request) or `CallUnclear` (timeout, network error, malformed
success, some parts of a text delivered). `accepted` counts, for the
properties, what the provider took. A failing renewal cancels the run
(`HeartbeatLost`); a crash or an exception ends it (`Abort`). The lease of a
live owner passes only as a fault (`OwnerStalls`), since the heartbeat renews it
every 15 of its 60 seconds; the lease of a dead owner passes by itself.

Left out: Redis client retries inside one call; the contents of replies; of a record, its
times and the ids the provider gave (`ValidRecord` has what the stages, actions and owners of
stored records must satisfy);
the order of a webhook's messages (each is a delivery of its own here; their
order is in `Webhook`).

### QuotationLifecycle

`session` is the stored session, `draft` the copy a turn works on. `BeginTurn`
to `EndTurn` is `ConversationService.process_message` under the lock; in
between the model may call any tool any number of times. A tool that raises
leaves the copy alone, so only successful calls are actions, except
`CustomerMissing`: `validate_customer_information` changes the state before it
raises. `PrepareQuotation` ends the turn, as `handle_message` does.
`EndTurn` from the tool loop is a final answer as well as the fallback after an
API, tool or PDF failure, which keeps what the tools did. `LoseTurn` is a crash
or a lost lock: the copy is not saved, a PDF already created stays.

Previews travel in replies: `outbox` (on their way), `seen` (accepted by the
transport, in order), `unacked` (accepted, `acknowledge_successful_delivery`
still to run). Later turns may begin meanwhile, because the lock covers the turn
and the acknowledgement but not the delivery. `log` records what the customer
wrote in each turn, and `saw`, how many previews had arrived when the customer
wrote it; a message may be processed long after it was written.

The fingerprint is modelled by what it digests: customer, cart in its order,
prices of the cart's products, rules. `Redeploy` swaps the business data, which
live in files read at start-up while sessions stay in Redis for a day.

`QuotationIssue` sees the previews received, the turns that agreed, the quotations and the
number of lost turns. `IssuesAsPromised` says of the step of issuing, and of all later steps,
what `IssuedAsConfirmed` and `OneQuotationPerPreview` say of states (the latter follows from
it, and the proof needs it as an invariant), and that one "yes" is
never spent on two previews.

Left out: `selected_product_id`, message history and timestamps; `clear_cart`,
which nothing calls; `quote_revision`, which nothing reads; product names and
packaging, which are printed on each line but not in the fingerprint. The lock
is taken for granted here and modelled in `ConversationLock`.

### ConversationLock

A `Task` is one call of `process_message` or `acknowledge_successful_delivery` with
a token of its own, a `Generator` one request to `/quotes/generate`. `at[w]` is
the next request: `waiting` polls `SET NX PX`, `load` is `get_session`, `work` the agent
or the acknowledgement, `check` and `recheck` are `ensure_owned`, `compare` and `write`
the GET and the SET of `save_session`, `release` and `unwind` `__aexit__` of a task that
returns or raises. A session is the set of calls whose updates it has, with
the state of its quotation as far as `/quotes/generate` looks at it.

`Orphan` stands for a token whose task is gone or does not know that it has the
lock (`AcquireUnnoticed`: the reply to the SET NX was lost). `LeasePasses` takes the
key from a running task; `RenewalRefused` is `_renew_loop` noticing it, at any later
time. A task stopped in its SET leaves the outcome open (`StopSaving`): executed,
never executed, or executed later (`LateWrite`, counted by `MaxLateWrites`).

Left out: `delete_session` and `reset_session`, which nothing calls; what an agent's
turn does to a session beyond its update and the state of the quotation.

### QuotationStorage

Every storage method is an `asyncio.to_thread`. `task[r]` is what the coroutine of
run `r` waits for, `op[r]` the step its storage thread has reached, `clean[r]` the step
of the cleanup thread: the two run side by side after a cancellation. Each file
operation is a step of its own. Work that no thread has taken up yet is dropped with the
task (`CancelQueued`): harmless for `reserve` and `write`, but a second cancellation may so
drop the cleanup after a failure, which is not shielded as that after a cancellation is.
A run stands for its random token and for the
PDF it renders; several runs may draw one id. `hurt` collects, for `NothingLeft`, the
runs that may leave something behind: crashed, cancelled inside `reserve` or before a
queued cleanup began, or unable to remove a file.

Rendering only succeeds or fails. `reserve` without an id, which the application
never calls, is left out. `ArtifactStore` sees the final PDFs and which run was told
which path.

### Webhook

`Parse` and the operators below it are the parser: a request is a form and entries
of changes of messages, each well-formed or not. A `Delivery` `<<b, k>>` handles
posts of request `b`; two of one `b` are Meta posting again while a handler still
works. `messages[b]` is what `process_webhook` acts upon and `pos` the index in it.
`process_outcome` is reduced to what a batch depends on: claim (`PassOver`, `Busy`,
`Resume`, `InDoubt`), a journalled provider call and its outcome, completion, failure;
`MessageProcessing` has it in full. `Requests` are the payloads Meta may post, and
`NothingHidden` says in terms of places in a payload, not of the parser's outcomes, what
it must find (`InOrder`). An `Unclaimable` message has an id that the parser
accepts and `claim_message` refuses. Keys do not expire while Meta still posts the
request. A signature is valid or not, and the HTTP status is only the argument
of `Answer`: 200 or something else decides whether Meta posts again. Whether the
WhatsApp client is configured is chosen once (`configured`).

### SenderConversation

`process_outcome` for all messages of one sender. `record[m]` is how far the record of
`m` is (`uncertain`: its text), `at[m]` where the run on it stands: `waiting` for the lock,
in its `turn`, about to `save` its result, to `send`, in the provider `call`, about to
`ack`nowledge the preview its reply carries, or to `mark` the text sent. One run at a
time works on a message; races for a record are in `MessageProcessing`. A turn holds the lock,
and `EndTurn` saves the session and releases it before `SaveResult` and the delivery, so
turns of other messages come between. `Acknowledge` is `acknowledge_successful_delivery`
as one step under the lock; `AcknowledgeRefused` is a stale preview, or the wait for the
lock running out. `Ahead` has the messages before one in its webhook request; different
requests are independent. `Claim` of an uncertain record raises, and is no step.
`SessionExpires` needs no step within a turn: the turn works on its copy, and `save_session` accepts
a key that is gone; if the turn dies, the session may expire right after (`Orphan`).

A preview is identified by the number of the turn that prepared it and by the content its
fingerprint digests. `given` collects the previews the provider has accepted.
`overtaken[m]` tells whether another message's turn has begun since `m`'s own.
`PreviewBoundary` sees only the session's preview, its state and `given`. `QuotationLifecycle`
implements it too (`TurnsKeepBoundary`): what its tools can leave behind is what the four outcomes
of `Turn` allow, so that the two levels promise the same.

A wait for the lock lasts 180 seconds; a turn may take eight model responses of up to 45
seconds each, and client retries. So an acknowledgement can give up although nothing
failed, and `UncertainHasCause` counts that, like a stale preview, as being overtaken.

Left out: documents; what a turn does to the cart; the confirmation in a later turn
(`QuotationLifecycle`); leases that pass under a running task (`ConversationLock`).

### WhatsAppTransport, Pricing, ProductSearch

A *character* is what splitting tells apart: white space, newline, carriage return, zero-width
joiner, mark, regional indicator, anything else. `IsSplit` says where a part ends, in the
order the code tries: after the last newline, after white space, wherever a boundary is.
`Invalid` is whatever any of the three methods refuses before a post.
`Confirmed`, `Rejected` and `Unclear` are the ends of a post; `MarkedNotAccepted` and `MarkedSent` are
the conditions in the coordinator. As in the code, an error status, a server error too, is
taken to mean that the post was not accepted. The split of one text and the posts of an
upload or a document are one machine, since the coordinator treats their errors alike.

`Pricing` has cents as numbers and rates as fractions, with the code's roundings: each line,
the discount, the tax. Decimal is exact for them up to 28 digits; beyond, `quantize`
raises `decimal.InvalidOperation`, which the agent does not catch (see `hazards`).
`ProductSearch` takes normalized texts as values with their words and a relation *is part of*.
An empty description has no words and matches nothing; it is left out.

## 3. Runs

| Run | Instance | Shows |
|---|---|---|
| `message_safety` | 3 deliveries, 1 message, 3 faults, 1 expiry, symmetric deliveries | at-most-once delivery, one caller, completion means delivered, valid records, agent repetitions bounded by faults; records advance, actions reopen only if not accepted, `MessageProcessing` implements `ReplyDelivery` |
| `message_liveness` | 2 deliveries, 2 messages (one unsupported media), 2 faults | under fairness every message is answered 200 or parked |
| `agent_rerun` | 2 deliveries, 1 fault | **violated**: see findings |
| `quotation_safety` | 1 product, quantities to 2, 3 business-data versions, 3 turns, 1 lost turn | bindings, issued as confirmed, confirmations kept; carts keep one line per product, every change revokes; `QuotationLifecycle` implements `PreviewBoundary` and `QuotationIssue`: one quotation per preview |
| `quotation_again` | 1 product, 3 turns | **violated**: see findings |
| `quotation_stale_yes` | 1 product, quantities to 2, 3 turns | **violated**: see findings |
| `lock_safety` | 2 tasks, 1 development request, 3 calls, 2 faults, 1 late write, 1 expiry | up to the first late or unlocked save, no save drops an update and what was returned is stored; under fairness the lock becomes free again and again |
| `lock_late_write` | 2 tasks, 2 calls, 2 faults, 1 late write | **violated**: see findings |
| `storage_safety` | 3 runs, 2 ids, 1 fault, 2 cancellations, symmetric runs and ids | PDFs are never replaced, runs that are over have cleaned up, `QuotationStorage` implements `ArtifactStore` |
| `webhook_batches` | 3 messages (one with a refused id), 2 requests, 2 handlers each, 2 faults | nothing well-formed is hidden, 200 means complete, order in a batch, every message served unless blocked |
| `sender_conversation` | 3 messages in 2 requests, 2 contents beside a new session's, 2 faults | `SenderConversation` implements `PreviewBoundary`; why a text stays uncertain; a delivered preview becomes confirmable; every message settles |
| `algorithms` | all texts to 4 characters and rows of 9 with flags, parts of 3; carts of 2 lines to 3 units, all discounts; 3 products, 2 results | parts are whole, verdicts true, rounding bounded, more never costs less, priority of fields kept |

*Bounds.* Three deliveries let one lose the record to a second while a third
claims it; messages share nothing but the workers, so one is enough for
safety, and the proofs cover any number. Three faults allow a crash, a stall and
a rejection in one history; an expiry lets a message start over once. Three
turns are a preview, a confirmation and one more: a second preview, a repeated
generation, or the retry of a lost turn; one product with quantities to 2 can be listed
twice, removed and changed. Two tasks are enough for one to lose the lock to the other; the
development request is the third writer. Three calls are a load, a lost lease and a save over
it, and one more. Three runs on two ids have two that draw the same one beside a third; one fault
and two cancellations let a crash meet two runs whose threads go on without
them. In `webhook_batches`, `MCPosted` enumerates the requests: every form of refusal
and of empty request; messages beside every kind of malformed or ignored part;
two requests with the same two messages in opposite order; and one whose middle
message is refused beside one that shares its first.
Those two make handlers of different requests meet on one message. In
`sender_conversation` two messages share a request and one comes beside them, so that
order within a request and freedom across requests both occur; two contents let a
preview be repeated unchanged or changed. In `algorithms` parts of 3 make every kind of
boundary fall on, before and behind the cut, flags in rows of nine cross several
parts, discounts go from none to all in twentieths, and catalogue prices have tenths of a
cent, so that every rounding occurs in both directions; two results of three products
make a match fall out.

The runs count faults, cancellations and calls; the proofs hold for any bounds.

*Fairness*. `message_liveness`: a scheduled run goes on (`WF` of `Step`); a
lease nobody renews passes (Redis time); Meta delivers again until it is
answered 200 (`WF` of `Deliver`: the route answers 503 on every retryable
error). Faults are finitely many. `EveryMessageSettles` allows the parked
message because the code has no operation that reconciles an uncertain call.
`lock_safety`: a task that is scheduled goes on (`WF` of `Step`; the agent's requests
time out), and the lease of a token nobody renews passes (the key has a PX).
`sender_conversation`: the same for runs and leases, and Meta delivers again (`WF` of `Claim`). No
strong fairness is assumed of the lock: whoever finds it taken may give up and come back.
`webhook_batches`: handlers go on, leases pass unless renewed, and Meta posts every
request again until it is answered 200. `ServedUnlessBlocked` excepts messages whose
id is refused or whose call stays in doubt, and those behind them in a batch.

### Findings

1. `agent_rerun`: the session is saved before the reply is stored with
   `save_result`. A crash or a lost lease in between makes the next delivery run
   the agent again on the saved session, although the contract says a duplicate
   cannot repeat agent actions. `RerunsNeedFaults` shows it takes such a fault.
2. `quotation_again`: `prepare_quotation` keeps `last_generated_quote`. After a
   generated quotation, the same quotation can be prepared, delivered and
   confirmed once more, but `generate` then refuses it as stale until the cart or
   the customer changes.
3. `quotation_stale_yes`: `confirm` compares turns, not the time of writing. A
   "yes" to one preview, processed after a changed preview was delivered, confirms
   the changed one.
4. `lock_late_write` (`EverySaveKeeps`): `ensure_owned`, the comparison of session ids and the SET are three
   requests, and the SET carries no token. One that is executed after its task has
   lost the lock drops what the next owner saved, although tests are named
   `..._without_lost_cart_updates` and `..._never_releases_or_persists_over_new_owner`.

## 4. Proofs

Every invariant, action property and refinement the passing runs check is also a theorem, for
all values of the constants. Each proof has an inductive invariant, the lemmas on the
operators it needs, one step per action, and the property at the end.

### Messages (`MessageProcessingProofs`)

For any runs, messages and bounds:

* `TypeCorrectness`: `Spec => []TypeOK`.
* `SoundProcessing`: the inductive invariant `ProcessingSound`. It has three parts.
  `RecordSound` relates a record's stage, its three actions, and what the
  provider and the conversation have seen. `RunSound` says that a run attending
  to a call is about the very action its record has uncertain, even if another
  run owns the record by now, and that a fresh view still shows what it read.
  `OneCallerPerMessage` closes the induction: were two runs attending to one
  message, either could reopen an action the other's call has had accepted.
* From it `AtMostOnce`, `OneCaller`, `CompletionIsDelivery` and `RecordsValid`.
* `RerunsPaid`: `RerunsNeedFaults` by itself is not inductive, because the fault comes first
  and the repeated turn later. `TurnsPaid` therefore adds to the turns a message has had
  those its runs are about to take, and one more while nobody will store its first result
  (`Vacant`); a fault or an expired key pays for each.
* `RecordsOnlyAdvance`, `ReopenedIfRejected`, `RepliesDelivered`: `RecordSteps` shows that a step
  makes one of eight changes to a record (`Kept`, `Created`, `Decided`, `Begun`, `Reopened`,
  `Confirmed`, `Completed`, `Forgotten`). The two action properties follow from each
  change, and each is a step of `ReplyDelivery` or a stutter.

For each kind of update a *Facts* lemma says what the step does to the record, a
*Sound* lemma that it preserves the invariant. `RecordFrame` and `RunFrame` dispose
of the messages and runs a step does not touch.

### Quotations (`QuotationLifecycleProofs`)

For any products, customers, business data and numbers of turns, `SoundLifecycle` is the
inductive invariant `LifecycleSound`:

* `SessionsBound` is inductive only with the types and with at most one line per product.
* `RepliesSound`: an acknowledgement is about a preview that was received, and nobody has received
  what the running turn prepares. Otherwise a late acknowledgement could confirm it.
* `DraftSound`: the turn's copy has the stored session's preview, or none, or the turn's own;
  if cart or customer differ, everything is withdrawn. `EditsRevoke`, `ConfirmationsStand`
  and `BoundaryKept` (the refinement of `PreviewBoundary`) are about the step that saves the copy.
* `IssueCounted`: as long as a preview has not been used, every quotation of it was made by
  a turn that was lost. Without this the step of `GenerateQuotation` could not be counted.

From it `LifecycleTypes`, `SessionsStayBound`, `OnlyConfirmedIssued` and `IssuedOnce`.

`QuotationsAsPromised`: the lifecycle implements `QuotationIssue`. `ApprovalsSound`, inductive
beside `LifecycleSound`, says that a confirmation has been spent on one preview only: the
running turn's, if at all, on the preview its copy still has, unless the copy has none or one of
this very turn, which this turn cannot confirm. `StepLearns` says that what was received
does not change: a turn writes its own preview only, and nobody can have received that one.

### The lock (`ConversationLockProofs`)

For any tasks, requests and bounds, `LockTypes` (`TypeOK`) and

* `SoundSaves`: the inductive invariant `SavesSound`. As long as no SET was executed late and no
  development request has saved (`Guarded`), a task past its check has the lock; as long
  as it has it, its copy contains all that is stored (so the SET drops nothing);
  after its SET its update is there, or was when the session expired. The lock
  alone is not inductive: a task may lose and never regain it, and only the conjunct
  on copies tells why a save is harmless.
* From it `SavesKeepUpdates` (the action property `UpdatesKept`), `ReturnedIsStored`, and
  `SavesExclude` (`OneSaving`: two tasks are never both between check and save).

`Guarded` is a history, not an assumption: the properties hold in every behaviour up to the
first such save. Without it they fail: `lock_late_write` shows it of a late SET, and a
development request that saves what it loaded before a turn does the same.

### One sender (`SenderConversationProofs`)

For any messages, requests, contents and faults, `SenderTypes`,
`UncertaintyHasCause` and `BoundaryKept`: `SenderConversation` implements `PreviewBoundary`. The
inductive invariant is `SenderSound`. `TypeOK` has the exclusion of turns: the lock is with a message
exactly while its run is in its turn. `TurnsSound` numbers the turns: the one that runs is newer than
every preview in a reply or accepted so far, so what it prepares nobody has seen; replies
of different messages carry different previews; and whoever is to acknowledge one has had it
accepted. `OrderSound`, without faults, says that a message past its turn that nobody
has overtaken finds the lock free and its preview current, so that only an overtaken
one is refused.

### Storage (`QuotationStorageProofs`)

For any runs, ids and bounds, `StorageTypes`,
`SoundStorage` (the inductive `StorageSound`: which thread states go with which task
states, that a run's reservation stays until some PDF is at its id, and that
whatever is there has a thread that will remove it), `WritersExclude`, `RunsCleanUp`,
and `ArtifactsKept`: the storage implements `ArtifactStore`, step by step.

### The webhook (`WebhookProofs`)

For any requests, handlers and faults, `WebhookTypes`,
`SoundBatches` (the inductive `BatchSound`), `AcknowledgedAreComplete` and `BatchesInOrder`.
`OwnersAttend` closes the induction: a run that still owns its record may put it
back to open or uncertain, so its message must not be complete yet.

`NothingIsHidden` is about the parser, for requests of any length and nesting. `Lists` relates a
sequence of messages to a set of places in the payload: each place once, in order. Outcomes
without a message list no place (`IssuesList`, `StatusesParsed`), a raw message at most one
(`OneParsed`), and listings of parts that follow on each other put together list the whole
(`ListsBoth`, `ListsAll`). `ArrayParsed`, `ChangeParsed`, `EntryParsed` and `Parsed` climb from the messages of a
change to the request. `MessagesInAll` says that picking out messages and flattening commute.

### The algorithms (`AlgorithmsProofs`)

* Calls, for every text and limit: `TransportTypes`, `TextsArePartedWhole` (no part is empty or too
  long, together they are the text), `VerdictsAreTrue`, from the inductive `CallSound`.
  `PartsAreWhole`: the code looks back from a position and counts the flags in a row, the property
  reads the text from its start and pairs them; that both agree is by induction over positions, and
  `EndsAtBoundaries` carries it to all parts.
* Prices, for every cart and all rules: `TotalGrows`, since a discount of at most 100 percent rounds by no
  more than the subtotal grows; `MoreCostsNoLess` and `CartsCostMore`, since a sum over lines grows with
  each; `RoundingStaysBounded` and `CartsRounded`, where the roundings of the lines, of discount and of tax add up.
* Search, for every catalogue, query and categories: `SearchKeepsPriority`. A score lies in the band of its
  field whatever words add to it, so a lower field never scores higher; `Before` orders the
  matches, so the number of better ones is a product's rank, and every rank is taken once.
  `NoFieldOvertaken` is the run's property for any shelf that is a catalogue.

### Assumptions and limits

The assumptions are those named in the modules: `NoOwner`, `Nobody`, `None`, `Free` and
`Orphan` are no runs, handlers or tasks, the unsupported messages are messages,
the bounds are natural numbers, what Meta posts are `Requests` (`PostedAssumption`), the words of
a value are finitely many (`ValueAssumption`). TLC evaluates all of them.

The library's induction theorems take an operator as a parameter, which the provers cannot
instantiate. `Induction` states them for sets instead: if a set has 0 and the successor of each of its
numbers, it has all; likewise for families of subsets of a finite set and for sequences. A
recursive function, a sum by a fold or `FlattenSeq` among them, is a `CHOOSE`; that what it
chooses exists is proved by extending a witness by one argument at a time (`FlatsEquation`,
`SumsEquation`).

These are not among the properties of the runs, since the runs check what follows from them:
the inductive invariants `ProcessingSound`, `TurnsPaid`, `SavesSound`, `StorageSound`, `BatchSound`, `SenderSound`,
`LifecycleSound`, `ApprovalsSound`, `RequestSound`, `CallSound`, `EndsAtBoundaries` and `CartSound`, and `OneSaving`,
`WritersExclusive` and `OneQuotationPerPreview`.

Only model-checked: liveness (`EveryMessageSettles`, `LockReturns`, `ServedUnlessBlocked`,
`DeliveredBecomesConfirmable`, `MessagesSettle`), which is out of the prover's reach; and the counterexamples of
the findings.

## 5. Not modelled

Prompt and tool schemas, configuration, logging, start-up, dependency wiring, health and product
routes: no state that a property would be about. Of the agent loop only the sequence of tool
calls is modelled: its limit of eight responses, the parsing of arguments and the message
history decide nothing beyond which calls are made. `/quotes/preview` stores nothing, and
`/dev/chat` is a turn and an acknowledgement like any other. Of the catalogue, lookups and the
loading of data files. Payloads, headers and captions of the transport.

## 6. Plan

Done: messages, quotations, the conversation lock, quotation storage, the webhook, the
composition of one sender's messages with their session, and the algorithms; proofs
of every safety property of the passing runs. Left: the agent loop by itself, its limit,
its fallback and a cancellation that a storage error replaces (`hazards`).
