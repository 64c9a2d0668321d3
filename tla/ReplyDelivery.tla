--------------------------- MODULE ReplyDelivery ----------------------------
(***************************************************************************)
(* What the processing of inbound messages promises, without owners,       *)
(* leases, checkpoints or retries: a reply is decided once per message,    *)
(* each part of it reaches the provider at most once and in order, and the *)
(* message is closed only when all of it has been delivered.  A message    *)
(* may be forgotten (its Redis key expires); it then starts over.          *)
(***************************************************************************)
EXTENDS Naturals

CONSTANTS Message

\* The parts of a reply, in the order they are delivered.
Part == {"text", "upload", "document"}
Earlier == [text |-> {}, upload |-> {"text"}, document |-> {"text", "upload"}]

VARIABLES
  owed,     \* Message -> the parts its reply consists of; {} while undecided
  copies,   \* Message -> Part -> how often the provider has accepted it
  closed,   \* Message -> is its processing finished
  epoch     \* Message -> how often it has been forgotten

vars == <<owed, copies, closed, epoch>>

Init ==
  /\ owed = [m \in Message |-> {}]
  /\ copies = [m \in Message |-> [p \in Part |-> 0]]
  /\ closed = [m \in Message |-> FALSE]
  /\ epoch = [m \in Message |-> 0]

\* The reply to m is decided, once: a text, with or without a document.
Decide(m) ==
  /\ owed[m] = {}
  /\ ~closed[m]
  /\ \E parts \in {{"text"}, Part} : owed' = [owed EXCEPT ![m] = parts]
  /\ UNCHANGED <<copies, closed, epoch>>

\* The provider accepts part p of m: one it is owed, that it has not accepted
\* since m was last forgotten, and that everything before has preceded.
Deliver(m, p) ==
  /\ p \in owed[m]
  /\ ~closed[m]
  /\ copies[m][p] <= epoch[m]
  /\ \A q \in Earlier[p] : copies[m][q] >= 1
  /\ copies' = [copies EXCEPT ![m][p] = @ + 1]
  /\ UNCHANGED <<owed, closed, epoch>>

\* Every part owed has been accepted.
Close(m) ==
  /\ owed[m] # {}
  /\ ~closed[m]
  /\ \A p \in owed[m] : copies[m][p] >= 1
  /\ closed' = [closed EXCEPT ![m] = TRUE]
  /\ UNCHANGED <<owed, copies, epoch>>

Forget(m) ==
  /\ owed' = [owed EXCEPT ![m] = {}]
  /\ closed' = [closed EXCEPT ![m] = FALSE]
  /\ epoch' = [epoch EXCEPT ![m] = @ + 1]
  /\ UNCHANGED copies

Next == \E m \in Message :
  \/ Decide(m)
  \/ \E p \in Part : Deliver(m, p)
  \/ Close(m)
  \/ Forget(m)

Spec == Init /\ [][Next]_vars
=============================================================================
