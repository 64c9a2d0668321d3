------------------------- MODULE WhatsAppTransport --------------------------
(***************************************************************************)
(* One call of WhatsAppService: send_text, which splits a text and posts   *)
(* its parts in turn, upload_document or send_document; and what the       *)
(* coordinator concludes from how it ends.                                 *)
(*                                                                         *)
(* A character is what splitting tells apart.  Positions are those of      *)
(* Python: between characters, from 0.                                     *)
(***************************************************************************)
EXTENDS Naturals, Sequences

CONSTANTS
  Text,   \* the texts, sequences of characters
  Limit   \* META_TEXT_BODY_LIMIT

\* mark: combining characters, variation selectors and emoji modifiers; joiner:
\* U+200D; flag: regional indicators.
Character == {"letter", "space", "newline", "return", "joiner", "mark", "flag"}
White == {"space", "newline", "return"}

ASSUME TextAssumption == Text \subseteq Seq(Character)
ASSUME LimitAssumption == Limit \in Nat \ {0}

VARIABLES
  call,       \* the method called
  text,       \* its text (none for a document)
  at,         \* "check", "split", "post", and how the call ended
  ends,       \* the parts split off so far, by their ends
  delivered,  \* posts answered with an identifier
  accepted    \* posts the provider has accepted

vars == <<call, text, at, ends, delivered, accepted>>

\* raised: with outcome_uncertain; refused: without; invalid: before any post.
Ended == {"returned", "raised", "refused", "invalid"}

Init ==
  /\ \/ call = "text" /\ text \in Text
     \/ call \in {"upload", "document"} /\ text = <<>>
  /\ at = "check"
  /\ ends = <<>>
  /\ delivered = 0 /\ accepted = 0
-----------------------------------------------------------------------------
(* split_text_message.                                                     *)

Is(kind, i) == text[i + 1] \in kind

\* The flags in a row that end at position i.
FlagRun(i) ==
  CHOOSE n \in 0..i :
    /\ \A j \in (i - n)..(i - 1) : Is({"flag"}, j)
    /\ n = i \/ ~Is({"flag"}, i - n - 1)

\* Mutant: any two flags in a row are one.
IsUnicodeBoundaryAnyFlag(i) ==
  i \in 1..(Len(text) - 1) =>
    /\ ~(Is({"return"}, i - 1) /\ Is({"newline"}, i))
    /\ ~Is({"joiner"}, i - 1) /\ ~Is({"joiner", "mark"}, i)
    /\ Is({"flag"}, i - 1) => ~Is({"flag"}, i) \/ FlagRun(i) > 1

IsUnicodeBoundary(i) ==
  i \in 1..(Len(text) - 1) =>
    /\ ~(Is({"return"}, i - 1) /\ Is({"newline"}, i))
    /\ ~Is({"joiner"}, i - 1) /\ ~Is({"joiner", "mark"}, i)
    /\ Is({"flag"}, i - 1) /\ Is({"flag"}, i) => FlagRun(i) % 2 = 0

\* The positions in a part from start that follow white space of a kind.
After(start, kind) == {i \in (start + 1)..(start + Limit) : Is(kind, i - 1)}

Last(i, S) == i \in S /\ \A j \in S : j <= i

\* The last newline ends the part, unless what follows belongs to it; then the
\* last white space that may; then, anything that may, start itself in the end.
IsSplit(start, i) ==
  LET line == {n \in After(start, {"newline"}) :
                 Last(n, After(start, {"newline"})) /\ IsUnicodeBoundary(n)}
      words == {n \in After(start, White) : IsUnicodeBoundary(n)}
      safe == {n \in start..(start + Limit) : n = start \/ IsUnicodeBoundary(n)}
  IN \/ i \in line
     \/ line = {} /\ Last(i, words)
     \/ line = {} /\ words = {} /\ Last(i, safe)

Start(k) == IF k = 1 THEN 0 ELSE ends[k - 1]
Offset == Start(Len(ends) + 1)

\* A blank text, a document that storage does not have or cannot read, or one
\* to send whose id, file name or destination is refused.  The number a text
\* goes to was validated when its message was parsed.
Invalid ==
  /\ at = "check"
  /\ call = "text" => \A i \in DOMAIN text : text[i] \in White
  /\ at' = "invalid"
  /\ UNCHANGED <<call, text, ends, delivered, accepted>>

Valid ==
  /\ at = "check"
  /\ call = "text" => \E i \in DOMAIN text : text[i] \notin White
  /\ at' = IF call = "text" THEN "split" ELSE "post"
  /\ UNCHANGED <<call, text, ends, delivered, accepted>>

Split ==
  /\ at = "split"
  /\ Len(text) - Offset > Limit
  /\ \E i \in Offset..(Offset + Limit) :
       /\ IsSplit(Offset, i)
       /\ ends' = IF i > Offset THEN Append(ends, i) ELSE ends
       /\ at' = IF i > Offset THEN "split" ELSE "invalid"
  /\ UNCHANGED <<call, text, delivered, accepted>>

SplitRest ==
  /\ at = "split"
  /\ Len(text) - Offset <= Limit
  /\ ends' = Append(ends, Len(text))
  /\ at' = "post"
  /\ UNCHANGED <<call, text, delivered, accepted>>
-----------------------------------------------------------------------------
(* The posts.                                                              *)

Posts == IF call = "text" THEN Len(ends) ELSE 1

Post(took, confirmed, place) ==
  /\ at = "post"
  /\ accepted' = accepted + took
  /\ delivered' = delivered + confirmed
  /\ at' = place
  /\ UNCHANGED <<call, text, ends>>

Confirmed == Post(1, 1, IF delivered + 1 = Posts THEN "returned" ELSE "post")

\* An error status.
Rejected == Post(0, 0, "refused")

\* Mutant: a part counts as delivered once it has been posted.
UnclearDelivered == \E took \in {0, 1} : Post(took, 1, "raised")

\* A timeout, a network error, or a success without a usable identifier.
Unclear == \E took \in {0, 1} : Post(took, 0, "raised")

Next == Invalid \/ Valid \/ Split \/ SplitRest \/ Confirmed \/ Rejected \/ Unclear

Spec == Init /\ [][Next]_vars
-----------------------------------------------------------------------------
(* What the coordinator makes of it.                                       *)

\* Mutant: an error status means that nothing was sent.
MarkedNotAcceptedIfRefused == at \in {"invalid", "refused"}

\* mark_..._not_accepted: the delivery may be repeated from its start.
MarkedNotAccepted ==
  \/ at = "invalid"
  \/ at = "refused" /\ delivered = 0

\* mark_text_sent, mark_document_uploaded, mark_document_sent.
MarkedSent == at = "returned"
-----------------------------------------------------------------------------
(* Properties.                                                             *)

\* Types; the counts of posts stay in step.
TypeOK ==
  /\ call \in {"text", "upload", "document"}
  /\ text \in Seq(Character)
  /\ at \in {"check", "split", "post"} \cup Ended
  /\ ends \in Seq(Nat)
  /\ delivered \in Nat /\ accepted \in Nat
  /\ accepted \in {delivered, delivered + 1}

\* The parts of a text are not empty, none is too long, and together they are
\* the text.
PartsFit ==
  /\ \A k \in DOMAIN ends : Start(k) < ends[k] /\ ends[k] <= Start(k) + Limit
  /\ call = "text" /\ at \in {"post", "returned"} => ends[Len(ends)] = Len(text)

\* A flag that waits for its second half, read from the start of the text.
Half == LET half[i \in 0..Len(text)] ==
              i > 0 /\ Is({"flag"}, i - 1) /\ ~half[i - 1]
        IN half

\* Position i is inside a line ending, a joined or marked character, or a flag,
\* for a reader who starts at the beginning of the text.
Inside(i) ==
  \/ Is({"return"}, i - 1) /\ Is({"newline"}, i)
  \/ Is({"joiner"}, i - 1) \/ Is({"joiner", "mark"}, i)
  \/ Half[i] /\ Is({"flag"}, i)

\* split_text_message, "Split text without data loss": besides, no part ends
\* inside of what belongs together, although the code only looks back from it.
PartsWhole ==
  /\ PartsFit
  /\ \A k \in DOMAIN ends : ends[k] < Len(text) => ~Inside(ends[k])

\* A call that may be repeated from its start has had nothing accepted, and one
\* that is marked sent all of it.
VerdictsTrue ==
  /\ MarkedNotAccepted => accepted = 0
  /\ MarkedSent => accepted = Posts
=============================================================================
