---------------------- MODULE SenderConversationProofs ----------------------
(* SenderConversation keeps the preview boundary, for every set of         *)
(* messages and contents, and leaves a text uncertain for two causes only. *)
EXTENDS SenderConversation, TLAPS

\* The numbers of turns: the one that runs is newer than every preview so far.
TurnsSound ==
  /\ \A m \in Message : reply[m] = NoPreview \/ reply[m].turn \in 1..turns
  /\ \A m, n \in Message :
       m # n => reply[m] = NoPreview \/ reply[m].turn # reply[n].turn
  /\ lock \in Message => /\ turns # 0 /\ turns \notin given
                         /\ \A m \in Message : reply[m].turn # turns
  /\ \A m \in Message : at[m] = "ack" => /\ reply[m] # NoPreview
                                         /\ reply[m].turn \in given

\* Without faults: whoever is past its turn, and not overtaken, finds the lock
\* free and the session as it left it.
Undisturbed(m) ==
  /\ lock = Free
  /\ reply[m] = NoPreview \/ Current(reply[m])

OrderSound ==
  /\ lock # Orphan
  /\ \A m, n \in Message : lock = n /\ m # n => overtaken[m]
  /\ \A m \in Message :
       at[m] \in {"save", "send", "call", "ack"} /\ ~overtaken[m] => Undisturbed(m)
  /\ \A m \in Message : at[m] \in {"waiting", "turn", "save"} => record[m] = "open"
  /\ \A m \in Message : at[m] = "send" <=> record[m] = "saved"
  /\ UncertainHasCause

SenderSound == TypeOK /\ TurnsSound /\ (faults = 0 => OrderSound)

LEMMA InitSound == Init => SenderSound
<1>1. SUFFICES ASSUME Init PROVE SenderSound
  OBVIOUS
<1>2. NewContent \in Content /\ Free \notin Message /\ Free # Orphan
  BY ContentAssumption, LockAssumption
<1>3. NoPreview \in Preview /\ NewSession \in Session
  BY <1>2 DEF NoPreview, Preview, NewSession, Session
<1>4. TypeOK
  BY <1>1, <1>2, <1>3 DEF Init, TypeOK, Stage, Location
<1>5. TurnsSound
  BY <1>1, <1>2 DEF Init, TurnsSound
<1>6. OrderSound
  BY <1>1, <1>2 DEF Init, OrderSound, UncertainHasCause
<1>7. QED
  BY <1>4, <1>5, <1>6 DEF SenderSound

\* What a turn may leave: its reply carries no preview, or the one that it has
\* prepared in the session.
LEMMA TurnFacts ==
  ASSUME TypeOK, NEW m \in Message, Turn(m)
  PROVE  \E result \in Session, preview \in Preview :
           /\ EndTurn(m, result, preview)
           /\ \/ preview = NoPreview
              \/ /\ preview.turn = turns
                 /\ result.state = "review" /\ result.prepared = preview
                 /\ result.content = preview.print
<1>1. NoPreview \in Preview
  BY ContentAssumption DEF NoPreview, Preview
<1>2. CASE EndTurn(m, session, NoPreview)
  BY <1>1, <1>2 DEF TypeOK
<1>3. ASSUME NEW c \in Content,
             EndTurn(m, [content |-> c, prepared |-> NoPreview, state |-> "none"],
                     NoPreview)
      PROVE  \E result \in Session : EndTurn(m, result, NoPreview)
  BY <1>1, <1>3 DEF Session
<1>4. ASSUME NEW c \in Content, NEW preview, preview = [turn |-> turns, print |-> c],
             EndTurn(m, [content |-> c, prepared |-> preview, state |-> "review"],
                     preview)
      PROVE  \E result \in Session, p \in Preview :
               /\ EndTurn(m, result, p)
               /\ p.turn = turns
               /\ result.state = "review" /\ result.prepared = p
               /\ result.content = p.print
  <2>1. preview \in Preview /\ preview.turn = turns /\ preview.print = c
    BY <1>4 DEF TypeOK, Preview
  <2>2. [content |-> c, prepared |-> preview, state |-> "review"] \in Session
    BY <2>1 DEF Session
  <2>3. QED
    BY <1>4, <2>1, <2>2
<1>5. CASE EndTurn(m, [session EXCEPT !.state = "generated"], NoPreview)
  <2>1. [session EXCEPT !.state = "generated"] \in Session
    BY DEF TypeOK, Session
  <2>2. QED
    BY <1>1, <1>5, <2>1
<1>6. QED
  BY <1>1, <1>2, <1>3, <1>4, <1>5 DEF Turn

LEMMA FaultsCount ==
  ASSUME TypeOK, [Next]_vars
  PROVE  faults' \in Nat /\ (faults' = 0 => faults = 0)
<1>1. \A m \in Message : Turn(m) => UNCHANGED faults
  BY DEF Turn, EndTurn
<1>2. QED
  BY <1>1 DEF TypeOK, Next, vars, Step, Claim, BeginTurn, GiveUpTurn, SaveResult,
     BeginSend, SendAccepted, SendRejected, SendUnclear, Acknowledge,
     AcknowledgeRefused, MarkSent, Crash, LeaseRunsOut, SessionExpires, Fault

LEMMA GivenFacts ==
  ASSUME TypeOK, TurnsSound, NEW m \in Message
  PROVE  /\ given \subseteq Given(m) /\ Given(m) \subseteq 1..turns
         /\ reply[m] # NoPreview => reply[m].turn \in Given(m)
         /\ \A t \in Given(m) : t \in given \/ t = reply[m].turn
  BY DEF TypeOK, TurnsSound, Given

LEMMA StepTypes ==
  ASSUME TypeOK, TurnsSound, [Next]_vars
  PROVE  TypeOK'
<1> USE LockAssumption DEF Stage, Location
<1>1. ASSUME NEW m \in Message, Claim(m) \/ GiveUpTurn(m)
      PROVE  TypeOK'
  BY <1>1 DEF TypeOK, Claim, GiveUpTurn, Go, conversation
<1>10. ASSUME NEW m \in Message, BeginTurn(m)
      PROVE  TypeOK'
  <2>1. /\ at' \in [Message -> Location] /\ lock' \in Message
        /\ overtaken' \in [Message -> BOOLEAN]
        /\ UNCHANGED <<record, reply, session, given, faults>>
    BY <1>10 DEF TypeOK, BeginTurn, Go
  <2>2. turns' = turns + 1
    BY <1>10 DEF BeginTurn
  <2>3. turns' \in Nat /\ given' \subseteq 1..turns'
    BY <2>1, <2>2 DEF TypeOK
  <2>4. \A n \in Message : lock' = n <=> at'[n] = "turn"
    BY <1>10 DEF TypeOK, BeginTurn, Go
  <2>5. QED
    BY <2>1, <2>3, <2>4 DEF TypeOK
<1>2. ASSUME NEW m \in Message, Turn(m)
      PROVE  TypeOK'
  <2>1. PICK result \in Session, preview \in Preview : EndTurn(m, result, preview)
    BY <1>2, TurnFacts
  <2>2. /\ at[m] = "turn" /\ at' = [at EXCEPT ![m] = "save"] /\ lock' = Free
        /\ session' \in Session
        /\ reply' = [reply EXCEPT ![m] = preview]
        /\ UNCHANGED <<record, turns, overtaken, given, faults>>
    BY <2>1 DEF EndTurn, Go
  <2>3. \A n \in Message : lock' = n <=> at'[n] = "turn"
    BY <2>2 DEF TypeOK
  <2>4. reply' \in [Message -> Preview] /\ at' \in [Message -> Location]
    BY <2>2 DEF TypeOK
  <2>5. QED
    BY <2>2, <2>3, <2>4 DEF TypeOK
<1>3. ASSUME NEW m \in Message,
             SaveResult(m) \/ BeginSend(m) \/ MarkSent(m) \/ AcknowledgeRefused(m)
      PROVE  TypeOK'
  BY <1>3 DEF TypeOK, SaveResult, BeginSend, MarkSent, AcknowledgeRefused, Go, Note,
     conversation
<1>4. ASSUME NEW m \in Message,
             SendAccepted(m) \/ SendRejected(m) \/ SendUnclear(m)
      PROVE  TypeOK'
  <2>1. /\ at' \in [Message -> Location] /\ record' \in [Message -> Stage]
        /\ faults' \in Nat
        /\ UNCHANGED <<reply, conversation>>
    BY <1>4 DEF TypeOK, SendAccepted, SendRejected, SendUnclear, Go, Note, Fault
  <2>5. \A n \in Message : at[n] = "turn" <=> at'[n] = "turn"
    BY <1>4 DEF TypeOK, SendAccepted, SendRejected, SendUnclear, Go
  <2>2. given' \in {given, Given(m)}
    BY <1>4 DEF SendAccepted, SendRejected, SendUnclear
  <2>3. given' \subseteq 1..turns
    BY <2>2, GivenFacts DEF TypeOK
  <2>4. QED
    BY <2>1, <2>3, <2>5 DEF TypeOK, conversation
<1>5. ASSUME NEW m \in Message, Acknowledge(m)
      PROVE  TypeOK'
  <2>1. [session EXCEPT !.state = "awaiting"] \in Session
    BY DEF TypeOK, Session
  <2>2. QED
    BY <1>5, <2>1 DEF TypeOK, Acknowledge, Go
<1>6. ASSUME NEW m \in Message, Crash(m)
      PROVE  TypeOK'
  BY <1>6, GivenFacts DEF TypeOK, Crash, Go, Fault
<1>7. CASE LeaseRunsOut
  BY <1>7 DEF TypeOK, LeaseRunsOut, run
<1>8. CASE SessionExpires
  <2>1. NewSession \in Session
    BY ContentAssumption DEF NewSession, NoPreview, Session, Preview
  <2>2. QED
    BY <1>8, <2>1 DEF TypeOK, SessionExpires, run, Fault
<1>9. CASE UNCHANGED vars
  BY <1>9 DEF TypeOK, vars, run, conversation
<1>11. QED
  BY <1>1, <1>10, <1>2, <1>3, <1>4, <1>5, <1>6, <1>7, <1>8, <1>9 DEF Next, Step

LEMMA StepTurns ==
  ASSUME TypeOK, TurnsSound, [Next]_vars
  PROVE  TurnsSound'
<1> USE LockAssumption
<1>1. ASSUME NEW m \in Message,
             \/ Claim(m) \/ GiveUpTurn(m) \/ SaveResult(m) \/ BeginSend(m)
             \/ MarkSent(m) \/ SendRejected(m) \/ AcknowledgeRefused(m)
      PROVE  TurnsSound'
  BY <1>1 DEF TypeOK, TurnsSound, Claim, GiveUpTurn, SaveResult, BeginSend, MarkSent,
     SendRejected, AcknowledgeRefused, Go, conversation
<1>2. ASSUME NEW m \in Message, BeginTurn(m)
      PROVE  TurnsSound'
  <2>1. /\ turns' = turns + 1 /\ turns \in Nat /\ lock = Free /\ lock' = m
        /\ at[m] = "waiting" /\ at' = [at EXCEPT ![m] = "turn"]
        /\ reply' = reply /\ given' = given /\ given \subseteq 1..turns
        /\ at \in [Message -> Location]
    BY <1>2 DEF BeginTurn, Go, TypeOK
  <2>2. \A n \in Message : reply[n] = NoPreview \/ reply[n].turn \in 1..turns
    BY DEF TurnsSound
  <2>3. NoPreview.turn = 0
    BY DEF NoPreview
  <2>4. \A n \in Message : reply[n].turn # turns + 1
    BY <2>1, <2>2, <2>3
  <2>5. QED
    BY <2>1, <2>2, <2>4 DEF TurnsSound
<1>3. ASSUME NEW m \in Message, Turn(m)
      PROVE  TurnsSound'
  <2>1. PICK result \in Session, preview \in Preview :
          /\ EndTurn(m, result, preview)
          /\ preview = NoPreview \/ preview.turn = turns
    BY <1>3, TurnFacts
  <2>2. /\ at[m] = "turn" /\ at' = [at EXCEPT ![m] = "save"]
        /\ reply' = [reply EXCEPT ![m] = preview]
        /\ lock' = Free /\ turns' = turns /\ given' = given /\ turns \in Nat
        /\ at \in [Message -> Location] /\ reply \in [Message -> Preview]
    BY <2>1 DEF EndTurn, Go, TypeOK
  <2>3. lock = m /\ turns # 0 /\ \A n \in Message : reply[n].turn # turns
    BY <2>2 DEF TypeOK, TurnsSound
  <2>4. NoPreview.turn = 0
    BY DEF NoPreview
  <2>5. QED
    BY <2>1, <2>2, <2>3, <2>4 DEF TurnsSound
<1>4. ASSUME NEW m \in Message, SendAccepted(m)
      PROVE  TurnsSound'
  BY <1>4, GivenFacts DEF TypeOK, TurnsSound, SendAccepted, Go, conversation
<1>5. ASSUME NEW m \in Message, SendUnclear(m)
      PROVE  TurnsSound'
  BY <1>5, GivenFacts DEF TypeOK, TurnsSound, SendUnclear, Go, conversation
<1>6. ASSUME NEW m \in Message, Acknowledge(m)
      PROVE  TurnsSound'
  BY <1>6 DEF TypeOK, TurnsSound, Acknowledge, Go
<1>7. ASSUME NEW m \in Message, Crash(m)
      PROVE  TurnsSound'
  <2>1. /\ at' = [at EXCEPT ![m] = "idle"] /\ at \in [Message -> Location]
        /\ lock' = IF lock = m THEN Orphan ELSE lock
        /\ given' \in {given, Given(m)}
        /\ reply' = reply /\ turns' = turns
    BY <1>7 DEF Crash, Go, TypeOK
  <2>2. /\ given \subseteq given'
        /\ \A t \in given' : t \in given \/ t = reply[m].turn
    BY <2>1, GivenFacts
  <2>3. QED
    BY <2>1, <2>2 DEF TurnsSound
<1>8. CASE LeaseRunsOut
  BY <1>8 DEF TypeOK, TurnsSound, LeaseRunsOut, run
<1>9. CASE SessionExpires
  BY <1>9 DEF TypeOK, TurnsSound, SessionExpires, run
<1>10. CASE UNCHANGED vars
  BY <1>10 DEF TurnsSound, vars, run, conversation
<1>11. QED
  BY <1>1, <1>2, <1>3, <1>4, <1>5, <1>6, <1>7, <1>8, <1>9, <1>10 DEF Next, Step

\* Without faults, what one message does leaves the others undisturbed.
LEMMA StepOrder ==
  ASSUME TypeOK, TurnsSound, OrderSound, [Next]_vars, faults' = 0
  PROVE  OrderSound'
<1> USE LockAssumption
<1>0. faults = 0
  BY FaultsCount
<1>1. ASSUME NEW m \in Message, Claim(m) \/ GiveUpTurn(m)
      PROVE  OrderSound'
  <2>1. /\ at' \in {[at EXCEPT ![m] = "waiting"], [at EXCEPT ![m] = "idle"]}
        /\ at'[m] = "waiting" => record[m] = "open"
        /\ at'[m] = "idle" => at[m] = "waiting"
        /\ at[m] # "send"
        /\ at \in [Message -> Location]
        /\ UNCHANGED <<record, reply, lock, session, overtaken, faults>>
    BY <1>1 DEF Claim, GiveUpTurn, Go, TypeOK, OrderSound, conversation
  <2>2. UncertainHasCause'
    BY <1>0, <2>1 DEF OrderSound, UncertainHasCause
  <2>3. QED
    BY <2>1, <2>2 DEF OrderSound, Undisturbed, Current
<1>2. ASSUME NEW m \in Message, BeginTurn(m)
      PROVE  OrderSound'
  <2>1. /\ at[m] = "waiting" /\ at' = [at EXCEPT ![m] = "turn"]
        /\ lock' = m /\ overtaken' = [n \in Message |-> n # m]
        /\ record' = record /\ reply' = reply
        /\ at \in [Message -> Location]
    BY <1>2 DEF TypeOK, BeginTurn, Go
  <2>2. \A n \in Message : n # m => overtaken'[n]
    BY <2>1
  <2>3. UncertainHasCause'
    BY <1>0, <2>1, <2>2 DEF OrderSound, UncertainHasCause
  <2>4. QED
    BY <2>1, <2>2, <2>3 DEF OrderSound
<1>3. ASSUME NEW m \in Message, Turn(m)
      PROVE  OrderSound'
  <2>1. PICK result \in Session, preview \in Preview :
          /\ EndTurn(m, result, preview)
          /\ \/ preview = NoPreview
             \/ /\ result.state = "review" /\ result.prepared = preview
                /\ result.content = preview.print
    BY <1>3, TurnFacts
  <2>2. /\ at[m] = "turn" /\ at' = [at EXCEPT ![m] = "save"]
        /\ reply' = [reply EXCEPT ![m] = preview]
        /\ session' = result /\ lock' = Free
        /\ record' = record /\ overtaken' = overtaken
        /\ at \in [Message -> Location] /\ reply \in [Message -> Preview]
    BY <2>1 DEF EndTurn, Go, TypeOK
  <2>3. lock = m
    BY <2>2 DEF TypeOK
  <2>4. Undisturbed(m)'
    BY <2>1, <2>2 DEF Undisturbed, Current
  <2>5. \A n \in Message : n # m => overtaken'[n]
    BY <2>2, <2>3 DEF OrderSound
  <2>6. UncertainHasCause'
    BY <1>0, <2>2, <2>5 DEF OrderSound, UncertainHasCause
  <2>7. QED
    BY <2>2, <2>4, <2>5, <2>6 DEF OrderSound
<1>4. ASSUME NEW m \in Message,
             SaveResult(m) \/ BeginSend(m) \/ MarkSent(m) \/ SendAccepted(m)
      PROVE  OrderSound'
  BY <1>0, <1>4 DEF TypeOK, OrderSound, UncertainHasCause, Undisturbed, Current,
     SaveResult, BeginSend, MarkSent, SendAccepted, Go, Note, conversation
<1>5. ASSUME NEW m \in Message, Acknowledge(m)
      PROVE  OrderSound'
  <2>1. /\ at[m] = "ack" /\ at' = [at EXCEPT ![m] = "mark"]
        /\ lock = Free /\ session.prepared = reply[m]
        /\ session' = [session EXCEPT !.state = "awaiting"]
        /\ UNCHANGED <<record, reply, lock, turns, overtaken, faults>>
        /\ at \in [Message -> Location]
    BY <1>5 DEF Acknowledge, Current, Go, TypeOK
  <2>2. reply[m] # NoPreview
    BY <2>1 DEF TurnsSound
  <2>3. ASSUME NEW n \in Message, n # m,
               at[n] \in {"save", "send", "call", "ack"}, ~overtaken[n]
        PROVE  reply[n] = NoPreview
    <3>1. reply[n] = NoPreview \/ session.prepared = reply[n]
      BY <2>3 DEF OrderSound, Undisturbed, Current
    <3>2. reply[m].turn # reply[n].turn
      BY <2>2, <2>3 DEF TurnsSound
    <3>3. QED
      BY <2>1, <3>1, <3>2
  <2>4. ASSUME NEW n \in Message,
               at'[n] \in {"save", "send", "call", "ack"}, ~overtaken'[n]
        PROVE  Undisturbed(n)'
    <3>1. n # m /\ at[n] = at'[n] /\ ~overtaken[n]
      BY <2>1, <2>4
    <3>2. reply[n] = NoPreview
      BY <2>3, <2>4, <3>1
    <3>3. QED
      BY <2>1, <3>2 DEF Undisturbed
  <2>5. UncertainHasCause'
    BY <1>0, <2>1 DEF OrderSound, UncertainHasCause
  <2>6. QED
    BY <2>1, <2>4, <2>5 DEF OrderSound
<1>6. ASSUME NEW m \in Message, AcknowledgeRefused(m)
      PROVE  OrderSound'
  <2>1. /\ at[m] = "ack" /\ at' = [at EXCEPT ![m] = "idle"]
        /\ lock # Free \/ ~Current(reply[m])
        /\ UNCHANGED <<record, reply, lock, session, overtaken, faults>>
        /\ at \in [Message -> Location]
    BY <1>6 DEF AcknowledgeRefused, Go, TypeOK, conversation
  <2>2. reply[m] # NoPreview
    BY <2>1 DEF TurnsSound
  <2>3. overtaken[m]
    BY <2>1, <2>2 DEF OrderSound, Undisturbed
  <2>4. UncertainHasCause'
    BY <1>0, <2>1, <2>2, <2>3 DEF OrderSound, UncertainHasCause
  <2>5. QED
    BY <2>1, <2>4 DEF OrderSound, Undisturbed, Current
<1>7. ASSUME NEW m \in Message, SendRejected(m) \/ SendUnclear(m) \/ Crash(m)
      PROVE  OrderSound'
  BY <1>0, <1>7 DEF SendRejected, SendUnclear, Crash, Fault
<1>8. CASE LeaseRunsOut
  BY <1>8 DEF LeaseRunsOut, OrderSound
<1>9. CASE SessionExpires
  BY <1>0, <1>9 DEF SessionExpires, Fault
<1>10. CASE UNCHANGED vars
  BY <1>10 DEF OrderSound, UncertainHasCause, Undisturbed, Current, vars, run,
     conversation
<1>11. QED
  BY <1>1, <1>2, <1>3, <1>4, <1>5, <1>6, <1>7, <1>8, <1>9, <1>10 DEF Next, Step

LEMMA AlwaysSound == Spec => []SenderSound
<1>1. SenderSound /\ [Next]_vars => SenderSound'
  <2>1. SUFFICES ASSUME SenderSound, [Next]_vars PROVE SenderSound'
    OBVIOUS
  <2>2. TypeOK' /\ TurnsSound'
    BY <2>1, StepTypes, StepTurns DEF SenderSound
  <2>3. faults' = 0 => OrderSound'
    BY <2>1, FaultsCount, StepOrder DEF SenderSound
  <2>4. QED
    BY <2>2, <2>3 DEF SenderSound
<1>2. QED
  BY <1>1, InitSound, PTL DEF Spec

\* The state stays within its types, and the lock is with a message exactly
\* while its run is in its turn.
THEOREM SenderTypes == Spec => []TypeOK
<1>1. SenderSound => TypeOK
  BY DEF SenderSound
<1>2. QED
  BY <1>1, AlwaysSound, PTL

\* Without a fault a text stays uncertain only if it carried a preview that
\* another message's turn has come after.
THEOREM UncertaintyHasCause == Spec => []UncertainHasCause
<1>1. SenderSound => UncertainHasCause
  <2>1. SUFFICES ASSUME SenderSound PROVE UncertainHasCause
    OBVIOUS
  <2>2. CASE faults = 0
    BY <2>1, <2>2 DEF SenderSound, OrderSound
  <2>3. CASE faults # 0
    BY <2>3 DEF UncertainHasCause
  <2>4. QED
    BY <2>2, <2>3
<1>2. QED
  BY <1>1, AlwaysSound, PTL

\* A turn leaves the preview, withdraws it, prepares a new one, or generates
\* the one that the customer has had.
LEMMA TurnIsBoundaryStep ==
  ASSUME TypeOK, TurnsSound, NEW m \in Message, Turn(m)
  PROVE  [Boundary!Next]_(Boundary!vars)
<1>1. given' = given
  BY DEF Turn, EndTurn
<1>2. turns # 0 /\ turns \notin given
  BY DEF Turn, EndTurn, TypeOK, TurnsSound
<1>3. CASE EndTurn(m, session, NoPreview)
  BY <1>1, <1>3 DEF EndTurn, Boundary!vars
<1>4. ASSUME NEW c \in Content,
             EndTurn(m, [content |-> c, prepared |-> NoPreview, state |-> "none"],
                     NoPreview)
      PROVE  Boundary!Withdraw
  BY <1>1, <1>4 DEF EndTurn, NoPreview, Boundary!Withdraw
<1>5. ASSUME NEW c \in Content, NEW preview, preview = [turn |-> turns, print |-> c],
             EndTurn(m, [content |-> c, prepared |-> preview, state |-> "review"],
                     preview)
      PROVE  Boundary!Prepare
  BY <1>1, <1>2, <1>5 DEF EndTurn, Boundary!Prepare
<1>6. ASSUME session.state = "awaiting",
             EndTurn(m, [session EXCEPT !.state = "generated"], NoPreview)
      PROVE  Boundary!Generate
  BY <1>1, <1>6 DEF EndTurn, TypeOK, Session, Boundary!Generate
<1>7. QED
  BY <1>3, <1>4, <1>5, <1>6 DEF Turn, Boundary!Next

LEMMA StepIsBoundaryStep ==
  ASSUME TypeOK, TurnsSound, [Next]_vars
  PROVE  [Boundary!Next]_(Boundary!vars)
<1>1. ASSUME NEW m \in Message,
             \/ Claim(m) \/ BeginTurn(m) \/ GiveUpTurn(m) \/ SaveResult(m)
             \/ BeginSend(m) \/ MarkSent(m) \/ SendRejected(m)
             \/ AcknowledgeRefused(m)
      PROVE  UNCHANGED Boundary!vars
  BY <1>1 DEF Claim, BeginTurn, GiveUpTurn, SaveResult, BeginSend, MarkSent,
     SendRejected, AcknowledgeRefused, conversation, Boundary!vars
<1>2. ASSUME NEW m \in Message, Turn(m)
      PROVE  [Boundary!Next]_(Boundary!vars)
  BY <1>2, TurnIsBoundaryStep
<1>3. ASSUME NEW m \in Message, SendAccepted(m) \/ SendUnclear(m) \/ Crash(m)
      PROVE  Boundary!HandOver
  <2>1. given' \in {given, Given(m)} /\ session' = session
    BY <1>3 DEF SendAccepted, SendUnclear, Crash, conversation
  <2>2. QED
    BY <2>1, GivenFacts DEF Boundary!HandOver
<1>4. ASSUME NEW m \in Message, Acknowledge(m)
      PROVE  Boundary!Await
  <2>1. /\ session' = [session EXCEPT !.state = "awaiting"]
        /\ session.state = "review" /\ session.prepared = reply[m]
        /\ given' = given
    BY <1>4 DEF Acknowledge, Current
  <2>2. reply[m].turn \in given
    BY <1>4 DEF Acknowledge, TurnsSound
  <2>3. QED
    BY <2>1, <2>2 DEF TypeOK, Session, Boundary!Await
<1>5. CASE LeaseRunsOut
  BY <1>5 DEF LeaseRunsOut, Boundary!vars
<1>6. ASSUME SessionExpires
      PROVE  Boundary!Withdraw
  BY <1>6 DEF SessionExpires, NewSession, NoPreview, Boundary!Withdraw
<1>7. CASE UNCHANGED vars
  BY <1>7 DEF vars, conversation, Boundary!vars
<1>8. ASSUME Boundary!HandOver \/ Boundary!Await \/ Boundary!Withdraw
      PROVE  Boundary!Next
  BY <1>8 DEF Boundary!Next
<1>9. QED
  BY <1>1, <1>2, <1>3, <1>4, <1>5, <1>6, <1>7, <1>8 DEF Next, Step

\* Whatever the interleaving of turns, sends, acknowledgements, crashes and
\* expiry, what becomes confirmable is the session's current preview, and the
\* transport has accepted that very one.
THEOREM BoundaryKept == Spec => KeepsBoundary
<1>1. Init => Boundary!Init
  BY DEF Init, NewSession, NoPreview, Boundary!Init
<1>2. SenderSound /\ [Next]_vars => [Boundary!Next]_(Boundary!vars)
  BY StepIsBoundaryStep DEF SenderSound
<1>3. QED
  BY <1>1, <1>2, AlwaysSound, PTL DEF Spec, KeepsBoundary, Boundary!Spec
=============================================================================
