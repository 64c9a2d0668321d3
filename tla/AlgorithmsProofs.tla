-------------------------- MODULE AlgorithmsProofs --------------------------
(* What MCAlgorithms checks on texts, carts and catalogues of its own, for *)
(* every text and limit, every cart and all rules, every catalogue and     *)
(* query.                                                                  *)
EXTENDS MCAlgorithms, Induction

-----------------------------------------------------------------------------
(* Calls to WhatsApp.                                                      *)

\* How the ends of the parts, the counts of posts and the progress of the call
\* belong together.  While a text is split, something of it is left: that is
\* what makes the last part not empty.
CallSound ==
  /\ call # "text" => ends = <<>> /\ at # "split"
  /\ \A k \in DOMAIN ends : Start(k) < ends[k] /\ ends[k] <= Start(k) + Limit
  /\ at = "check" => ends = <<>>
  /\ at = "split" => Offset < Len(text)
  /\ call = "text" /\ at \in {"post", "returned", "raised", "refused"} =>
       ends # <<>> /\ ends[Len(ends)] = Len(text)
  /\ at \in {"check", "split", "invalid"} => accepted = 0 /\ delivered = 0
  /\ at = "post" => accepted = delivered /\ delivered < Posts
  /\ at = "refused" => accepted = delivered
  /\ at = "returned" => accepted = Posts

LEMMA InitSound == Init => TypeOK /\ CallSound
<1>1. SUFFICES ASSUME Init PROVE TypeOK /\ CallSound
  OBVIOUS
<1>2. text \in Seq(Character)
  <2>1. CASE call = "text" /\ text \in Text
    BY <2>1, TextAssumption
  <2>2. CASE text = <<>>
    <3>1. <<>> \in Seq(Character)
      OBVIOUS
    <3>2. QED
      BY <2>2, <3>1
  <2>3. QED
    BY <1>1, <2>1, <2>2 DEF Init
<1>3. TypeOK
  BY <1>1, <1>2 DEF Init, TypeOK
<1>4. CallSound
  BY <1>1 DEF Init, CallSound
<1>5. QED
  BY <1>3, <1>4

\* Appending an end to the parts: the others stay as they are.
LEMMA PartAppended ==
  ASSUME TypeOK, CallSound, NEW i \in Nat,
         ends' = Append(ends, i), Offset < i, i <= Offset + Limit
  PROVE  /\ ends' \in Seq(Nat) /\ Len(ends') = Len(ends) + 1
         /\ ends'[Len(ends')] = i
         /\ Offset' = i
         /\ \A k \in DOMAIN ends' : Start(k)' < ends'[k] /\ ends'[k] <= Start(k)' + Limit
<1>1. ends \in Seq(Nat)
  BY DEF TypeOK
<1>2. /\ ends' \in Seq(Nat) /\ Len(ends') = Len(ends) + 1
      /\ ends'[Len(ends')] = i
      /\ \A k \in 1..Len(ends) : ends'[k] = ends[k]
  BY <1>1
<1>3. Offset' = i
  BY <1>1, <1>2 DEF Offset, Start
<1>4. ASSUME NEW k \in DOMAIN ends'
      PROVE  Start(k)' < ends'[k] /\ ends'[k] <= Start(k)' + Limit
  <2>1. CASE k = Len(ends')
    <3>1. Start(k)' = Offset
      BY <1>1, <1>2, <2>1 DEF Start, Offset
    <3>2. QED
      BY <1>2, <2>1, <3>1
  <2>2. CASE k # Len(ends')
    <3>1. k \in 1..Len(ends)
      BY <1>1, <1>2, <2>2
    <3>2. ends'[k] = ends[k] /\ Start(k)' = Start(k)
      BY <1>1, <1>2, <3>1 DEF Start
    <3>3. QED
      BY <1>1, <3>1, <3>2 DEF CallSound
  <2>3. QED
    BY <2>1, <2>2
<1>5. QED
  BY <1>2, <1>3, <1>4

\* A step that leaves the parts alone.
LEMMA PartsAlone ==
  ASSUME CallSound, UNCHANGED ends
  PROVE  /\ \A k \in DOMAIN ends' : Start(k)' < ends'[k] /\ ends'[k] <= Start(k)' + Limit
         /\ Offset' = Offset
  BY DEF CallSound, Start, Offset

LEMMA StepSound ==
  ASSUME TypeOK, CallSound, [Next]_vars
  PROVE  TypeOK' /\ CallSound'
<1>1. CASE Invalid
  BY <1>1, PartsAlone DEF Invalid, TypeOK, Ended, CallSound, Posts
<1>2. CASE Valid
  <2>1. call = "text" => Len(text) > 0
    BY <1>2 DEF Valid, TypeOK
  <2>2. Offset = 0
    BY <1>2 DEF Valid, CallSound, Offset, Start
  <2>3. QED
    BY <1>2, <2>1, <2>2, PartsAlone DEF Valid, TypeOK, Ended, CallSound, Posts
<1>3. CASE Split
  <2>1. PICK i \in Offset..(Offset + Limit) :
          /\ ends' = IF i > Offset THEN Append(ends, i) ELSE ends
          /\ at' = IF i > Offset THEN "split" ELSE "invalid"
    BY <1>3 DEF Split
  <2>2. Offset \in Nat /\ Limit \in Nat /\ Len(text) \in Nat
    BY LimitAssumption, <1>3 DEF TypeOK, Offset, Start, Split
  <2>3. /\ at = "split" /\ Len(text) - Offset > Limit
        /\ UNCHANGED <<call, text, delivered, accepted>>
    BY <1>3 DEF Split
  <2>4. call = "text"
    BY <2>3 DEF CallSound, TypeOK
  <2>5. CASE i > Offset
    <3>1. i \in Nat /\ i < Len(text) /\ ends' = Append(ends, i) /\ at' = "split"
      BY <2>1, <2>2, <2>3, <2>5
    <3>2. /\ ends' \in Seq(Nat) /\ Offset' = i
          /\ \A k \in DOMAIN ends' : Start(k)' < ends'[k] /\ ends'[k] <= Start(k)' + Limit
      BY <2>1, <2>2, <2>5, <3>1, PartAppended
    <3>3. QED
      BY <2>3, <2>4, <3>1, <3>2 DEF TypeOK, Ended, CallSound
  <2>6. CASE ~(i > Offset)
    BY <2>1, <2>3, <2>4, <2>6, PartsAlone DEF TypeOK, Ended, CallSound
  <2>7. QED
    BY <2>5, <2>6
<1>4. CASE SplitRest
  <2>1. /\ at = "split" /\ Len(text) - Offset <= Limit
        /\ ends' = Append(ends, Len(text)) /\ at' = "post"
        /\ UNCHANGED <<call, text, delivered, accepted>>
    BY <1>4 DEF SplitRest
  <2>2. /\ Offset \in Nat /\ Limit \in Nat /\ Len(text) \in Nat
        /\ Offset < Len(text) /\ call = "text" /\ accepted = 0 /\ delivered = 0
    BY LimitAssumption, <2>1 DEF TypeOK, CallSound, Offset, Start
  <2>3. /\ ends' \in Seq(Nat) /\ Len(ends') = Len(ends) + 1
        /\ ends'[Len(ends')] = Len(text)
        /\ \A k \in DOMAIN ends' : Start(k)' < ends'[k] /\ ends'[k] <= Start(k)' + Limit
    BY <2>1, <2>2, PartAppended
  <2>4. Len(ends) \in Nat
    BY DEF TypeOK
  <2>5. QED
    BY <2>1, <2>2, <2>3, <2>4 DEF TypeOK, Ended, CallSound, Posts
<1>5. Posts \in Nat
  BY DEF TypeOK, Posts
<1>6. CASE Confirmed
  BY <1>5, <1>6, PartsAlone DEF Confirmed, Post, TypeOK, Ended, CallSound, Posts
<1>7. CASE Rejected
  BY <1>5, <1>7, PartsAlone DEF Rejected, Post, TypeOK, Ended, CallSound, Posts
<1>8. CASE Unclear
  BY <1>5, <1>8, PartsAlone DEF Unclear, Post, TypeOK, Ended, CallSound, Posts
<1>9. CASE UNCHANGED vars
  BY <1>9, PartsAlone DEF vars, TypeOK, Ended, CallSound, Posts
<1>10. QED
  BY <1>1, <1>2, <1>3, <1>4, <1>6, <1>7, <1>8, <1>9 DEF Next

LEMMA AlwaysSound == Spec => [](TypeOK /\ CallSound)
  BY InitSound, StepSound, PTL DEF Spec

\* The state stays within its types.
THEOREM TransportTypes == Spec => []TypeOK
  BY AlwaysSound, PTL

\* split_text_message loses nothing and keeps the limit.
THEOREM TextsArePartedWhole == Spec => []PartsFit
<1>1. TypeOK /\ CallSound => PartsFit
  BY DEF TypeOK, CallSound, PartsFit
<1>2. QED
  BY <1>1, AlwaysSound, PTL

\* What the coordinator concludes from an ended call is so.
THEOREM VerdictsAreTrue == Spec => []VerdictsTrue
<1>1. TypeOK /\ CallSound => VerdictsTrue
  BY DEF TypeOK, CallSound, VerdictsTrue, MarkedNotAccepted, MarkedSent
<1>2. QED
  BY <1>1, AlwaysSound, PTL

-----------------------------------------------------------------------------
(* Parts end where a reader of the whole text sees an end.  The code looks  *)
(* back from a position and counts the flags in a row; the reader goes      *)
(* through the text from its start and pairs them.  That both agree is by   *)
(* induction over positions, here with sets of numbers.                     *)

\* n flags, and no more, stand before position i.
FlagsBefore(i, n) ==
  /\ n \in 0..i
  /\ \A j \in (i - n)..(i - 1) : Is({"flag"}, j)
  /\ n = i \/ ~Is({"flag"}, i - n - 1)

LEMMA SomeFlagsBefore == ASSUME NEW i \in Nat PROVE \E n : FlagsBefore(i, n)
<1> DEFINE S == {b \in 0..i : \A j \in b..(i - 1) : Is({"flag"}, j)}
<1>1. i \in S /\ S \subseteq Nat
  OBVIOUS
<1>2. PICK b \in S : \A c \in S : b <= c
  BY <1>1, LeastNumber
<1>3. b \in 0..i /\ \A j \in b..(i - 1) : Is({"flag"}, j)
  BY <1>2
<1>4. b = 0 \/ ~Is({"flag"}, b - 1)
  <2> SUFFICES ASSUME b # 0, Is({"flag"}, b - 1) PROVE FALSE
    OBVIOUS
  <2>1. b - 1 \in 0..i /\ \A j \in (b - 1)..(i - 1) : j = b - 1 \/ j \in b..(i - 1)
    BY <1>3
  <2>2. b - 1 \in S
    BY <1>3, <2>1
  <2>3. QED
    BY <1>2, <1>3, <2>2
<1>5. i - b \in 0..i /\ i - (i - b) = b /\ (i - b = i <=> b = 0)
  BY <1>3
<1>6. FlagsBefore(i, i - b)
  BY <1>3, <1>4, <1>5 DEF FlagsBefore
<1>7. QED
  BY <1>6

LEMMA FlagsBeforeUnique ==
  ASSUME NEW i \in Nat, NEW n, NEW m, FlagsBefore(i, n), FlagsBefore(i, m)
  PROVE  n = m
<1>1. ASSUME NEW a, NEW b, FlagsBefore(i, a), FlagsBefore(i, b), a < b PROVE FALSE
  <2>1. a \in 0..i /\ b \in 0..i /\ a # i
    BY <1>1 DEF FlagsBefore
  <2>2. i - a - 1 \in (i - b)..(i - 1)
    BY <1>1, <2>1
  <2>3. QED
    BY <1>1, <2>1, <2>2 DEF FlagsBefore
<1>2. n \in 0..i /\ m \in 0..i
  BY DEF FlagsBefore
<1>3. ~(n < m) /\ ~(m < n)
  BY <1>1
<1>4. QED
  BY <1>2, <1>3

LEMMA FlagRunCounts == ASSUME NEW i \in Nat PROVE FlagsBefore(i, FlagRun(i))
<1>1. FlagRun(i) = CHOOSE n \in 0..i : FlagsBefore(i, n)
  BY DEF FlagRun, FlagsBefore
<1>2. \E n \in 0..i : FlagsBefore(i, n)
  BY SomeFlagsBefore DEF FlagsBefore
<1>3. QED
  BY <1>1, <1>2

\* How the count goes on from one position to the next.
LEMMA NextFlagRun ==
  ASSUME NEW i \in Nat
  PROVE  /\ FlagRun(i) \in 0..i
         /\ FlagRun(i) # 0 => i # 0 /\ Is({"flag"}, i - 1)
         /\ FlagRun(i + 1) = IF Is({"flag"}, i) THEN FlagRun(i) + 1 ELSE 0
<1> DEFINE n == FlagRun(i)
<1>1. FlagsBefore(i, n)
  BY FlagRunCounts
<1> HIDE DEF n
<1>2. /\ n \in 0..i /\ \A j \in (i - n)..(i - 1) : Is({"flag"}, j)
      /\ n = i \/ ~Is({"flag"}, i - n - 1)
  BY <1>1 DEF FlagsBefore
<1>3. n # 0 => i # 0 /\ Is({"flag"}, i - 1)
  BY <1>2
<1>4. CASE Is({"flag"}, i)
  <2>1. \A j \in (i + 1 - (n + 1))..(i + 1 - 1) : j = i \/ j \in (i - n)..(i - 1)
    BY <1>2
  <2>2. \A j \in (i + 1 - (n + 1))..(i + 1 - 1) : Is({"flag"}, j)
    BY <1>2, <1>4, <2>1
  <2>3. /\ n + 1 \in 0..(i + 1) /\ (n = i => n + 1 = i + 1)
        /\ i + 1 - (n + 1) - 1 = i - n - 1
    BY <1>2
  <2>4. FlagsBefore(i + 1, n + 1)
    BY <1>2, <2>2, <2>3 DEF FlagsBefore
  <2>5. FlagRun(i + 1) = n + 1
    BY <2>4, FlagRunCounts, FlagsBeforeUnique
  <2>6. QED
    BY <1>2, <1>3, <1>4, <2>5 DEF n
<1>5. CASE ~Is({"flag"}, i)
  <2>1. /\ (i + 1 - 0)..(i + 1 - 1) = {} /\ i + 1 - 0 - 1 = i
        /\ 0 \in 0..(i + 1)
    OBVIOUS
  <2>2. FlagsBefore(i + 1, 0)
    BY <1>5, <2>1 DEF FlagsBefore
  <2>3. FlagRun(i + 1) = 0
    BY <2>2, FlagRunCounts, FlagsBeforeUnique
  <2>4. QED
    BY <1>2, <1>3, <1>5, <2>3 DEF n
<1>6. QED
  BY <1>4, <1>5

OddRun(i) == FlagRun(i) % 2 = 1

LEMMA NextOddRun ==
  ASSUME NEW i \in Nat
  PROVE  /\ OddRun(i) \in BOOLEAN
         /\ OddRun(i) <=> i > 0 /\ Is({"flag"}, i - 1) /\ ~OddRun(i - 1)
<1>1. CASE i = 0
  <2>1. FlagRun(0) = 0
    BY NextFlagRun
  <2>2. QED
    BY <1>1, <2>1 DEF OddRun
<1>2. CASE i # 0
  <2>1. i - 1 \in Nat /\ (i - 1) + 1 = i
    BY <1>2
  <2>2. /\ FlagRun(i - 1) \in Nat
        /\ FlagRun(i) = IF Is({"flag"}, i - 1) THEN FlagRun(i - 1) + 1 ELSE 0
    BY <2>1, NextFlagRun
  <2>3. QED
    BY <1>2, <2>2 DEF OddRun
<1>3. QED
  BY <1>1, <1>2

\* The reader's pairing and the code's count of flags agree.
LEMMA HalfIsOdd ==
  ASSUME text \in Seq(Character), NEW i \in 0..Len(text)
  PROVE  Half[i] <=> OddRun(i)
<1>1. Len(text) \in Nat
  OBVIOUS
<1> DEFINE odd == [n \in 0..Len(text) |-> OddRun(n)]
<1>2. odd = [n \in 0..Len(text) |-> n > 0 /\ Is({"flag"}, n - 1) /\ ~odd[n - 1]]
  <2>1. ASSUME NEW n \in 0..Len(text)
        PROVE  OddRun(n) = (n > 0 /\ Is({"flag"}, n - 1) /\ ~odd[n - 1])
    <3>1. n > 0 => n - 1 \in 0..Len(text)
      BY <1>1
    <3>2. n > 0 => odd[n - 1] = OddRun(n - 1)
      BY <3>1
    <3>3. n \in Nat
      BY <1>1
    <3>4. QED
      BY <3>2, <3>3, NextOddRun
  <2>2. QED
    BY <2>1
<1> HIDE DEF odd
<1>3. Half = [n \in 0..Len(text) |-> n > 0 /\ Is({"flag"}, n - 1) /\ ~Half[n - 1]]
  BY <1>2 DEF Half
<1> DEFINE S == {n \in Nat : n \in 0..Len(text) => (Half[n] <=> OddRun(n))}
<1>4. 0 \in S
  <2>1. 0 \in 0..Len(text) /\ ~(0 > 0)
    BY <1>1
  <2>2. ~Half[0]
    BY <1>3, <2>1
  <2>3. ~OddRun(0)
    BY NextOddRun
  <2>4. QED
    BY <2>2, <2>3
<1>5. ASSUME NEW n \in Nat, n \in S PROVE n + 1 \in S
  <2> SUFFICES ASSUME n + 1 \in 0..Len(text) PROVE Half[n + 1] <=> OddRun(n + 1)
    OBVIOUS
  <2>1. n \in 0..Len(text) /\ (n + 1) - 1 = n /\ n + 1 > 0
    BY <1>1
  <2>2. Half[n + 1] <=> Is({"flag"}, n) /\ ~Half[n]
    BY <1>3, <2>1
  <2>3. OddRun(n + 1) <=> Is({"flag"}, n) /\ ~OddRun(n)
    BY <2>1, NextOddRun
  <2>4. Half[n] <=> OddRun(n)
    BY <1>5, <2>1
  <2>5. QED
    BY <2>2, <2>3, <2>4
<1>6. Nat \subseteq S
  <2> HIDE DEF S
  <2>1. QED
    BY <1>4, <1>5, AllNumbers
<1>7. QED
  BY <1>1, <1>6

\* Where the code may end a part, the reader sees an end.
LEMMA BoundaryNotInside ==
  ASSUME text \in Seq(Character), NEW i \in 1..(Len(text) - 1), IsUnicodeBoundary(i)
  PROVE  ~Inside(i)
<1>1. /\ ~(Is({"return"}, i - 1) /\ Is({"newline"}, i))
      /\ ~Is({"joiner"}, i - 1) /\ ~Is({"joiner", "mark"}, i)
      /\ Is({"flag"}, i - 1) /\ Is({"flag"}, i) => FlagRun(i) % 2 = 0
  BY DEF IsUnicodeBoundary
<1>2. ~(Half[i] /\ Is({"flag"}, i))
  <2> SUFFICES ASSUME Half[i], Is({"flag"}, i) PROVE FALSE
    OBVIOUS
  <2>1. Len(text) \in Nat
    OBVIOUS
  <2>2. i \in Nat /\ i \in 0..Len(text)
    BY <2>1
  <2>3. OddRun(i)
    BY <2>2, HalfIsOdd
  <2>4. Is({"flag"}, i - 1)
    BY <2>2, <2>3, NextOddRun
  <2>5. FlagRun(i) % 2 = 0
    BY <1>1, <2>4
  <2>6. QED
    BY <2>3, <2>5 DEF OddRun
<1>3. QED
  BY <1>1, <1>2 DEF Inside

\* A part that is split off ends at such a place.
LEMMA SplitsAtBoundary ==
  ASSUME NEW start \in Nat, NEW i \in Nat, i > start, IsSplit(start, i)
  PROVE  IsUnicodeBoundary(i)
<1> DEFINE line == {n \in After(start, {"newline"}) :
                      Last(n, After(start, {"newline"})) /\ IsUnicodeBoundary(n)}
           words == {n \in After(start, White) : IsUnicodeBoundary(n)}
           safe == {n \in start..(start + Limit) : n = start \/ IsUnicodeBoundary(n)}
<1>1. \/ i \in line
      \/ line = {} /\ Last(i, words)
      \/ line = {} /\ words = {} /\ Last(i, safe)
  BY DEF IsSplit
<1>2. i \in line \/ i \in words \/ i \in safe
  BY <1>1 DEF Last
<1>3. i # start
  OBVIOUS
<1>4. QED
  BY <1>2, <1>3

\* The inductive invariant: the parts so far end at boundaries.
EndsAtBoundaries ==
  \A k \in DOMAIN ends : ends[k] < Len(text) => IsUnicodeBoundary(ends[k])

\* The text stays, and so does what is a boundary in it.
LEMMA EndsStayBoundaries ==
  ASSUME EndsAtBoundaries, UNCHANGED <<text, ends>>
  PROVE  EndsAtBoundaries'
  BY DEF EndsAtBoundaries, IsUnicodeBoundary, FlagRun, Is

LEMMA StepAtBoundaries ==
  ASSUME TypeOK, CallSound, EndsAtBoundaries, [Next]_vars
  PROVE  EndsAtBoundaries'
<1>1. ends \in Seq(Nat) /\ text \in Seq(Character)
  BY DEF TypeOK
<1>2. ASSUME NEW i \in Nat, ends' = Append(ends, i), text' = text,
             i < Len(text) => IsUnicodeBoundary(i)
      PROVE  EndsAtBoundaries'
  <2>1. ASSUME NEW k \in DOMAIN ends', ends'[k] < Len(text)
        PROVE  IsUnicodeBoundary(ends'[k])
    <3>1. \/ k = Len(ends) + 1 /\ ends'[k] = i
          \/ k \in DOMAIN ends /\ ends'[k] = ends[k]
      BY <1>1, <1>2
    <3>2. QED
      BY <1>2, <2>1, <3>1 DEF EndsAtBoundaries
  <2>2. \A j : IsUnicodeBoundary(j)' <=> IsUnicodeBoundary(j)
    BY <1>2 DEF IsUnicodeBoundary, FlagRun, Is
  <2>3. QED
    BY <1>2, <2>1, <2>2 DEF EndsAtBoundaries
<1>3. CASE Split
  <2>1. PICK i \in Offset..(Offset + Limit) :
          /\ IsSplit(Offset, i)
          /\ ends' = IF i > Offset THEN Append(ends, i) ELSE ends
    BY <1>3 DEF Split
  <2>2. Offset \in Nat /\ Limit \in Nat /\ i \in Nat /\ text' = text
    BY LimitAssumption, <1>1, <1>3, <2>1 DEF Offset, Start, Split
  <2>3. CASE i > Offset
    BY <1>2, <2>1, <2>2, <2>3, SplitsAtBoundary
  <2>4. CASE ~(i > Offset)
    BY <2>1, <2>2, <2>4, EndsStayBoundaries
  <2>5. QED
    BY <2>3, <2>4
<1>4. CASE SplitRest
  <2>1. Len(text) \in Nat /\ ends' = Append(ends, Len(text)) /\ text' = text
    BY <1>1, <1>4 DEF SplitRest
  <2>2. QED
    BY <1>2, <2>1
<1>5. CASE Invalid \/ Valid \/ Confirmed \/ Rejected \/ Unclear \/ UNCHANGED vars
  <2>1. UNCHANGED <<text, ends>>
    BY <1>5 DEF Invalid, Valid, Confirmed, Rejected, Unclear, Post, vars
  <2>2. QED
    BY <2>1, EndsStayBoundaries
<1>6. QED
  BY <1>3, <1>4, <1>5 DEF Next

\* No part ends inside of what belongs together, although split_text_message
\* only looks back from the end it considers.
THEOREM PartsAreWhole == Spec => []PartsWhole
<1>1. Init => EndsAtBoundaries
  BY DEF Init, EndsAtBoundaries
<1>2. TypeOK /\ CallSound /\ EndsAtBoundaries => PartsWhole
  <2> SUFFICES ASSUME TypeOK, CallSound, EndsAtBoundaries PROVE PartsWhole
    OBVIOUS
  <2>1. PartsFit
    BY DEF TypeOK, CallSound, PartsFit
  <2>2. ends \in Seq(Nat) /\ text \in Seq(Character) /\ Len(text) \in Nat
    BY DEF TypeOK
  <2>3. ASSUME NEW k \in DOMAIN ends, ends[k] < Len(text) PROVE ~Inside(ends[k])
    <3>1. Start(k) < ends[k]
      BY <2>1 DEF PartsFit
    <3>2. Start(k) \in Nat /\ ends[k] \in Nat
      BY <2>2 DEF Start
    <3>3. ends[k] \in 1..(Len(text) - 1)
      BY <2>2, <2>3, <3>1, <3>2
    <3>4. IsUnicodeBoundary(ends[k])
      BY <2>3 DEF EndsAtBoundaries
    <3>5. QED
      BY <2>2, <3>3, <3>4, BoundaryNotInside
  <2>4. QED
    BY <2>1, <2>3 DEF PartsWhole
<1>3. Spec => []EndsAtBoundaries
  BY <1>1, AlwaysSound, StepAtBoundaries, PTL DEF Spec
<1>4. QED
  BY <1>2, <1>3, AlwaysSound, PTL

-----------------------------------------------------------------------------
(* Sums over finite sets.                                                  *)

\* How a sum over a set is folded: one element is taken from it after another.
Taken(s) == CHOOSE x \in s : TRUE
SumStep(f, g, s) == IF s = {} THEN 0 ELSE f[Taken(s)] + g[s \ {Taken(s)}]
Sums(f, S) == CHOOSE g : g = [s \in SUBSET S |-> SumStep(f, g, s)]

LEMMA TakenFrom == ASSUME NEW s, s # {} PROVE Taken(s) \in s
  BY DEF Taken

LEMMA SumIsFolded == ASSUME NEW f PROVE Sum(f) = Sums(f, DOMAIN f)[DOMAIN f]
  BY DEF Sum, FoldFunction, FoldFunctionOnSet, MapThenFoldSet, Sums, SumStep, Taken

\* Sums of the sets of up to n elements give those of one more.
LEMMA SumsGoOn ==
  ASSUME NEW S, IsFiniteSet(S), NEW f, NEW n \in Nat, NEW g, NEW h,
         \A s \in SUBSET S : h[s] = SumStep(f, g, s),
         \A s \in SUBSET S : Cardinality(s) <= n => g[s] = h[s]
  PROVE  \A s \in SUBSET S : Cardinality(s) <= n + 1 => h[s] = SumStep(f, h, s)
<1>1. SUFFICES ASSUME NEW s \in SUBSET S, Cardinality(s) <= n + 1, s # {}
               PROVE  g[s \ {Taken(s)}] = h[s \ {Taken(s)}]
  BY DEF SumStep
<1>2. Taken(s) \in s /\ IsFiniteSet(s)
  BY <1>1, TakenFrom, FS_Subset
<1>3. Cardinality(s \ {Taken(s)}) <= n
  <2>1. /\ Cardinality(s) \in Nat /\ Cardinality(s \ {Taken(s)}) \in Nat
        /\ Cardinality(s \ {Taken(s)}) + 1 = Cardinality(s)
    BY <1>2, OneLess
  <2>2. QED
    BY <1>1, <2>1
<1>4. QED
  BY <1>3

LEMMA SumsEquation ==
  ASSUME NEW S, IsFiniteSet(S), NEW f
  PROVE  \A s \in SUBSET S : Sums(f, S)[s] = SumStep(f, Sums(f, S), s)
<1> DEFINE Good(g, n) == \A s \in SUBSET S : Cardinality(s) <= n => g[s] = SumStep(f, g, s)
           N == {n \in Nat : \E g : Good(g, n)}
<1>1. Cardinality(S) \in Nat /\ \A s \in SUBSET S : Cardinality(s) <= Cardinality(S)
  BY FS_Subset, FS_CardinalityType
<1>2. 0 \in N
  <2> DEFINE g == [s \in SUBSET S |-> 0]
  <2>1. \A s \in SUBSET S : Cardinality(s) <= 0 => s = {}
    BY FS_Subset, FS_CardinalityType, FS_EmptySet
  <2>2. Good(g, 0)
    BY <2>1 DEF SumStep
  <2>3. QED
    BY <2>2
<1>3. ASSUME NEW n \in Nat, n \in N PROVE n + 1 \in N
  <2>1. PICK g : Good(g, n)
    BY <1>3
  <2>2. PICK h : \A s \in SUBSET S : h[s] = SumStep(f, g, s)
    <3>1. \A s \in SUBSET S : [t \in SUBSET S |-> SumStep(f, g, t)][s] = SumStep(f, g, s)
      OBVIOUS
    <3>2. QED
      BY <3>1
  <2>3. \A s \in SUBSET S : Cardinality(s) <= n => g[s] = h[s]
    BY <2>1, <2>2
  <2>4. \A s \in SUBSET S : Cardinality(s) <= n + 1 => h[s] = SumStep(f, h, s)
    BY <2>2, <2>3, SumsGoOn
  <2>5. QED
    BY <2>4
<1>4. Cardinality(S) \in N
  <2> HIDE DEF N
  <2>1. Nat \subseteq N
    BY <1>2, <1>3, AllNumbers
  <2>2. QED
    BY <1>1, <2>1
<1>5. PICK g : Good(g, Cardinality(S))
  BY <1>4
<1>6. \A s \in SUBSET S : g[s] = SumStep(f, g, s)
  BY <1>1, <1>5
<1> DEFINE h == [s \in SUBSET S |-> SumStep(f, g, s)]
<1>7. \A s \in SUBSET S : SumStep(f, h, s) = SumStep(f, g, s)
  <2>1. \A s \in SUBSET S : h[s] = g[s]
    BY <1>6
  <2>2. \A s \in SUBSET S : s \ {Taken(s)} \in SUBSET S
    OBVIOUS
  <2>3. QED
    BY <2>1, <2>2 DEF SumStep
<1>8. h = [s \in SUBSET S |-> SumStep(f, h, s)]
  BY <1>7
<1>9. Sums(f, S) = [s \in SUBSET S |-> SumStep(f, Sums(f, S), s)]
  BY <1>8 DEF Sums
<1>10. QED
  BY <1>9

\* A sum is of what the function gives for the elements of the set, natural
\* numbers here, and comes out the same in whatever order they are taken.
LEMMA SumsTypes ==
  ASSUME NEW S, IsFiniteSet(S), NEW f, \A x \in S : f[x] \in Nat
  PROVE  Sums(f, S)[{}] = 0 /\ \A s \in SUBSET S : Sums(f, S)[s] \in Nat
<1> DEFINE g == Sums(f, S)
           F == {s \in SUBSET S : g[s] \in Nat}
<1>1. \A s \in SUBSET S : g[s] = SumStep(f, g, s)
  BY SumsEquation
<1> HIDE DEF g
<1>2. g[{}] = 0
  BY <1>1 DEF SumStep
<1>3. ASSUME NEW s \in SUBSET S, s # {}, \A x \in s : s \ {x} \in F PROVE s \in F
  <2>1. Taken(s) \in s
    BY <1>3, TakenFrom
  <2>2. g[s] = f[Taken(s)] + g[s \ {Taken(s)}]
    BY <1>1, <1>3 DEF SumStep
  <2>3. f[Taken(s)] \in Nat /\ g[s \ {Taken(s)}] \in Nat
    BY <1>3, <2>1
  <2>4. QED
    BY <2>2, <2>3
<1>4. SUBSET S \subseteq F
  <2>1. {} \in F
    BY <1>2
  <2> HIDE DEF F
  <2>2. QED
    BY <1>3, <2>1, AllSubsets
<1>5. QED
  BY <1>2, <1>4 DEF g

LEMMA SumsAnyOrder ==
  ASSUME NEW S, IsFiniteSet(S), NEW f, \A x \in S : f[x] \in Nat
  PROVE  \A s \in SUBSET S : \A x \in s :
           Sums(f, S)[s] = f[x] + Sums(f, S)[s \ {x}]
<1> DEFINE g == Sums(f, S)
           F == {s \in SUBSET S : \A x \in s : g[s] = f[x] + g[s \ {x}]}
<1>1. \A s \in SUBSET S : g[s] = SumStep(f, g, s) /\ g[s] \in Nat
  BY SumsEquation, SumsTypes
<1> HIDE DEF g
<1>2. ASSUME NEW s \in SUBSET S, s # {}, \A x \in s : s \ {x} \in F PROVE s \in F
  <2>1. PICK c \in s : g[s] = f[c] + g[s \ {c}]
    BY <1>1, <1>2, TakenFrom DEF SumStep
  <2>2. ASSUME NEW x \in s, x # c PROVE g[s] = f[x] + g[s \ {x}]
    <3>1. g[s \ {c}] = f[x] + g[(s \ {c}) \ {x}]
      BY <1>2, <2>2
    <3>2. (s \ {c}) \ {x} = (s \ {x}) \ {c}
      OBVIOUS
    <3>3. g[s \ {x}] = f[c] + g[(s \ {c}) \ {x}]
      BY <1>2, <2>2, <3>2
    <3>4. f[x] \in Nat /\ f[c] \in Nat /\ g[(s \ {c}) \ {x}] \in Nat
      BY <1>1
    <3> HIDE DEF F
    <3>5. g[s] = f[c] + (f[x] + g[(s \ {c}) \ {x}])
      BY <2>1, <3>1
    <3>6. QED
      BY <3>3, <3>4, <3>5
  <2>3. QED
    BY <2>1, <2>2
<1>3. SUBSET S \subseteq F
  <2>1. {} \in F
    OBVIOUS
  <2> HIDE DEF F
  <2>2. QED
    BY <1>2, <2>1, AllSubsets
<1>4. QED
  BY <1>3 DEF g
-----------------------------------------------------------------------------
(* Prices.                                                                 *)

LEMMA MultiplesAdd ==
  ASSUME NEW a \in Nat, NEW b \in Nat, NEW k \in Nat
  PROVE  a * k \in Nat /\ (a + b) * k = a * k + b * k
  BY SMT

LEMMA MultiplesGrow ==
  ASSUME NEW a \in Nat, NEW b \in Nat, NEW k \in Nat, a <= b
  PROVE  a * k <= b * k
<1>1. b - a \in Nat /\ b = a + (b - a)
  OBVIOUS
<1>2. (b - a) * k \in Nat /\ b * k = a * k + (b - a) * k
  BY <1>1, MultiplesAdd
<1>3. a * k \in Nat /\ b * k \in Nat
  BY MultiplesAdd
<1>4. QED
  BY <1>2, <1>3

LEMMA BothGrow ==
  ASSUME NEW a \in Nat, NEW b \in Nat, NEW j \in Nat, NEW k \in Nat, a <= b, j <= k
  PROVE  a * j <= b * k
<1>1. a * j <= b * j /\ j * b <= k * b
  BY MultiplesGrow
<1>2. j * b = b * j /\ k * b = b * k
  BY SMT
<1>3. a * j \in Nat /\ b * j \in Nat /\ b * k \in Nat
  BY MultiplesAdd
<1>4. QED
  BY <1>1, <1>2, <1>3

LEMMA Quotient ==
  ASSUME NEW a \in Nat, NEW d \in Nat \ {0}
  PROVE  /\ a \div d \in Nat
         /\ (a \div d) * d <= a
         /\ a < (a \div d) * d + d
  BY SMT

LEMMA QuotientsGrow ==
  ASSUME NEW a \in Nat, NEW b \in Nat, NEW d \in Nat \ {0}, a <= b
  PROVE  a \div d <= b \div d
<1> DEFINE q == a \div d
           r == b \div d
<1>1. q \in Nat /\ r \in Nat /\ q * d <= a /\ b < r * d + d
  BY Quotient
<1>2. SUFFICES ASSUME r + 1 <= q PROVE FALSE
  BY <1>1
<1>3. (r + 1) * d <= q * d
  BY <1>1, <1>2, MultiplesGrow
<1>4. (r + 1) * d = r * d + d
  BY <1>1, MultiplesAdd, SMT
<1>5. r * d \in Nat /\ q * d \in Nat
  BY <1>1, MultiplesAdd
<1>6. QED
  BY <1>1, <1>3, <1>4, <1>5

\* Adding k times the unit adds k.
LEMMA QuotientOfMore ==
  ASSUME NEW a \in Nat, NEW k \in Nat, NEW d \in Nat \ {0}
  PROVE  (a + k * d) \div d = a \div d + k
<1> DEFINE q == a \div d
           b == a + k * d
           r == b \div d
<1>1. k * d \in Nat /\ b \in Nat
  BY MultiplesAdd
<1>2. /\ q \in Nat /\ q * d <= a /\ a < q * d + d
      /\ r \in Nat /\ r * d <= b /\ b < r * d + d
  BY <1>1, Quotient
<1>3. q * d \in Nat /\ r * d \in Nat
  BY <1>2, MultiplesAdd
<1>4. /\ (q + k) * d = q * d + k * d
      /\ (r + 1) * d = r * d + d
      /\ (q + k + 1) * d = q * d + k * d + d
  BY <1>2, SMT
<1>5. ~(r + 1 <= q + k)
  <2>1. SUFFICES ASSUME r + 1 <= q + k PROVE FALSE
    OBVIOUS
  <2>2. (r + 1) * d <= (q + k) * d
    BY <1>2, <2>1, MultiplesGrow
  <2>3. QED
    BY <1>1, <1>2, <1>3, <1>4, <2>2
<1>6. ~(q + k + 1 <= r)
  <2>1. SUFFICES ASSUME q + k + 1 <= r PROVE FALSE
    OBVIOUS
  <2>2. (q + k + 1) * d <= r * d
    BY <1>2, <2>1, MultiplesGrow
  <2>3. QED
    BY <1>1, <1>2, <1>3, <1>4, <2>2
<1>7. QED
  BY <1>2, <1>5, <1>6

LEMMA MoneyGrows ==
  ASSUME NEW a \in Nat, NEW b \in Nat, NEW unit \in Nat \ {0}, a <= b
  PROVE  Money(a, unit) \in Nat /\ Money(a, unit) <= Money(b, unit)
<1>1. /\ 2 * a + unit \in Nat /\ 2 * b + unit \in Nat /\ 2 * unit \in Nat \ {0}
      /\ 2 * a + unit <= 2 * b + unit
  OBVIOUS
<1>2. QED
  BY <1>1, Quotient, QuotientsGrow DEF Money

\* A discount grows by no more than the subtotal does.
LEMMA DiscountGrows ==
  ASSUME NEW s \in Nat, NEW t \in Nat, s <= t, NEW terms \in Rules
  PROVE  /\ Discount(s, terms) \in Nat
         /\ Discount(t, terms) <= Discount(s, terms) + (t - s)
<1> DEFINE rate == terms.discount
           k == t - s
           x == 2 * (s * rate) + Whole
<1>1. rate \in Nat /\ rate <= Whole /\ Whole \in Nat \ {0} /\ k \in Nat
  BY PartsAssumption DEF Rules, DiscountRate
<1>2. /\ s * rate \in Nat /\ t * rate \in Nat /\ k * rate \in Nat
      /\ k * Whole \in Nat
  BY <1>1, MultiplesAdd
<1>3. t * rate = s * rate + k * rate
  <2>1. t = s + k
    BY <1>1
  <2>2. (s + k) * rate = s * rate + k * rate
    BY <1>1, MultiplesAdd
  <2>3. QED
    BY <2>1, <2>2
<1>4. k * rate <= k * Whole
  <2>1. rate * k <= Whole * k
    BY <1>1, MultiplesGrow
  <2>2. rate * k = k * rate /\ Whole * k = k * Whole
    BY <1>1, SMT
  <2>3. QED
    BY <2>1, <2>2
<1>5. k * (2 * Whole) = 2 * (k * Whole)
  BY <1>1, SMT
<1>6. 2 * (t * rate) + Whole <= x + k * (2 * Whole)
  BY <1>1, <1>2, <1>3, <1>4, <1>5
<1>7. /\ x \in Nat /\ 2 * Whole \in Nat \ {0}
      /\ 2 * (t * rate) + Whole \in Nat
      /\ x + k * (2 * Whole) \in Nat
  BY <1>1, <1>2, <1>5
<1>8. (2 * (t * rate) + Whole) \div (2 * Whole)
        <= (x + k * (2 * Whole)) \div (2 * Whole)
  BY <1>6, <1>7, QuotientsGrow
<1>9. (x + k * (2 * Whole)) \div (2 * Whole) = x \div (2 * Whole) + k
  BY <1>1, <1>7, QuotientOfMore
<1>10. x \div (2 * Whole) \in Nat
  BY <1>7, Quotient
<1>11. QED
  BY <1>8, <1>9, <1>10 DEF Discount, Money

\* calculate: whatever the rates and however each amount is rounded, discounts
\* never exceed the subtotal, no total is negative, and a larger subtotal never
\* costs less.
THEOREM TotalGrows ==
  ASSUME NEW s \in Nat, NEW t \in Nat, s <= t, NEW terms \in Rules
  PROVE  /\ Discount(s, terms) \in 0..s
         /\ Total(s, terms) \in Nat
         /\ Total(s, terms) <= Total(t, terms)
<1>1. ASSUME NEW u \in Nat
      PROVE  Discount(u, terms) \in 0..u /\ Taxable(u, terms) \in Nat
  <2>1. Discount(0, terms) = 0
    <3>1. terms.discount \in Nat /\ Whole \in Nat \ {0}
      BY PartsAssumption DEF Rules, DiscountRate
    <3>2. 0 * terms.discount = 0
      BY <3>1, SMT
    <3>3. Whole \div (2 * Whole) = 0
      BY <3>1, SMT
    <3>4. QED
      BY <3>1, <3>2, <3>3 DEF Discount, Money
  <2>2. Discount(u, terms) <= u
    BY <2>1, DiscountGrows
  <2>3. Discount(u, terms) \in Nat
    BY DiscountGrows
  <2>4. QED
    BY <2>2, <2>3 DEF Taxable
<1>2. Taxable(s, terms) <= Taxable(t, terms)
  <2>1. Discount(t, terms) <= Discount(s, terms) + (t - s)
    BY DiscountGrows
  <2>2. Discount(s, terms) \in Nat /\ Discount(t, terms) \in Nat
    BY <1>1
  <2>3. QED
    BY <2>1, <2>2 DEF Taxable
<1>3. terms.tax \in Nat /\ Whole \in Nat \ {0}
  BY PartsAssumption DEF Rules
<1>4. /\ Taxable(s, terms) * terms.tax \in Nat
      /\ Taxable(t, terms) * terms.tax \in Nat
      /\ Taxable(s, terms) * terms.tax <= Taxable(t, terms) * terms.tax
  BY <1>1, <1>2, <1>3, MultiplesAdd, MultiplesGrow
<1>5. /\ Tax(s, terms) \in Nat /\ Tax(t, terms) \in Nat
      /\ Tax(s, terms) <= Tax(t, terms)
  BY <1>3, <1>4, MoneyGrows DEF Tax
<1>6. QED
  BY <1>1, <1>2, <1>5 DEF Total
\* g gives the sum of f over each subset of S.
Summed(g, f, S) ==
  /\ g[{}] = 0 /\ \A s \in SUBSET S : g[s] \in Nat
  /\ \A s \in SUBSET S : \A x \in s : g[s] = f[x] + g[s \ {x}]

LEMMA SumsSummed ==
  ASSUME NEW S, IsFiniteSet(S), NEW f, \A x \in S : f[x] \in Nat
  PROVE  Summed(Sums(f, S), f, S)
  BY SumsTypes, SumsAnyOrder DEF Summed

LEMMA SumsTogether ==
  ASSUME NEW S, NEW T, IsFiniteSet(T), S \subseteq T, NEW f, NEW e,
         \A x \in S : f[x] \in Nat, \A x \in T : e[x] \in Nat,
         \A x \in S : f[x] <= e[x]
  PROVE  Sums(f, S)[S] \in Nat /\ Sums(f, S)[S] <= Sums(e, T)[T]
<1> DEFINE g == Sums(f, S)
           h == Sums(e, T)
           F == {s \in SUBSET S : g[s] <= h[s]}
           G == {s \in SUBSET (T \ S) : h[S] <= h[S \cup s]}
<1>0. IsFiniteSet(S) /\ IsFiniteSet(T \ S)
  BY FS_Subset
<1>1. /\ g[{}] = 0 /\ \A s \in SUBSET S : g[s] \in Nat
      /\ \A s \in SUBSET S : \A x \in s : g[s] = f[x] + g[s \ {x}]
  <2>1. Summed(g, f, S)
    BY <1>0, SumsSummed
  <2>2. QED
    BY <2>1 DEF Summed
<1>2. /\ h[{}] = 0 /\ \A s \in SUBSET T : h[s] \in Nat
      /\ \A s \in SUBSET T : \A x \in s : h[s] = e[x] + h[s \ {x}]
  <2>1. Summed(h, e, T)
    BY SumsSummed
  <2>2. QED
    BY <2>1 DEF Summed
<1> HIDE DEF g, h
<1>3. SUBSET S \subseteq F
  <2>1. {} \in F
    BY <1>1, <1>2
  <2>2. ASSUME NEW s \in SUBSET S, s # {}, \A x \in s : s \ {x} \in F PROVE s \in F
    <3>1. PICK x \in s : TRUE
      BY <2>2
    <3>2. /\ g[s] = f[x] + g[s \ {x}] /\ h[s] = e[x] + h[s \ {x}]
          /\ g[s \ {x}] <= h[s \ {x}] /\ f[x] <= e[x]
      BY <1>1, <1>2, <2>2
    <3>3. f[x] \in Nat /\ e[x] \in Nat /\ g[s \ {x}] \in Nat /\ h[s \ {x}] \in Nat
      BY <1>1, <1>2
    <3>4. g[s] <= h[s]
      BY <3>2, <3>3
    <3>5. QED
      BY <3>4
  <2> HIDE DEF F
  <2>3. QED
    BY <1>0, <2>1, <2>2, AllSubsets
<1>4. SUBSET (T \ S) \subseteq G
  <2>1. {} \in G
    <3>1. S \cup {} = S /\ h[S] \in Nat
      BY <1>2
    <3>2. QED
      BY <3>1
  <2>2. ASSUME NEW s \in SUBSET (T \ S), s # {}, \A x \in s : s \ {x} \in G PROVE s \in G
    <3>1. PICK x \in s : TRUE
      BY <2>2
    <3>2. (S \cup s) \ {x} = S \cup (s \ {x}) /\ S \cup s \in SUBSET T
      OBVIOUS
    <3>3. h[S \cup s] = e[x] + h[S \cup (s \ {x})] /\ h[S] <= h[S \cup (s \ {x})]
      BY <1>2, <2>2, <3>2
    <3>4. e[x] \in Nat /\ h[S] \in Nat /\ h[S \cup (s \ {x})] \in Nat
      BY <1>2
    <3>5. h[S] <= h[S \cup s]
      BY <3>3, <3>4
    <3>6. QED
      BY <3>5
  <2> HIDE DEF G
  <2>3. QED
    BY <1>0, <2>1, <2>2, AllSubsets
<1>5. h[S] <= h[T]
  <2>1. S \cup (T \ S) = T /\ T \ S \in G
    BY <1>4
  <2>2. QED
    BY <2>1
<1>6. g[S] <= h[S]
  BY <1>3
<1>7. QED
  BY <1>1, <1>2, <1>5, <1>6 DEF g, h

\* What is summed grows, or more is summed: so does the sum.
LEMMA SumGrows ==
  ASSUME NEW f, NEW e, IsFiniteSet(DOMAIN e), DOMAIN f \subseteq DOMAIN e,
         \A x \in DOMAIN e : e[x] \in Nat,
         \A x \in DOMAIN f : f[x] \in Nat /\ f[x] <= e[x]
  PROVE  Sum(f) \in Nat /\ Sum(f) <= Sum(e)
  BY SumsTogether, SumIsFolded

\* Each number is within a bound of its part in units: so is the sum, for every
\* one of them.
LEMMA SumsNear ==
  ASSUME NEW S, IsFiniteSet(S), NEW f, NEW e, NEW unit \in Nat,
         \A x \in S : f[x] \in Nat /\ e[x] \in Nat
                      /\ 2 * (f[x] * unit) <= 2 * e[x] + unit
                      /\ 2 * e[x] <= 2 * (f[x] * unit) + unit
  PROVE  /\ Sums(f, S)[S] \in Nat /\ Sums(e, S)[S] \in Nat /\ Cardinality(S) \in Nat
         /\ 2 * (Sums(f, S)[S] * unit) <= 2 * Sums(e, S)[S] + Cardinality(S) * unit
         /\ 2 * Sums(e, S)[S] <= 2 * (Sums(f, S)[S] * unit) + Cardinality(S) * unit
<1> DEFINE g == Sums(f, S)
           h == Sums(e, S)
           Near(s) == /\ 2 * (g[s] * unit) <= 2 * h[s] + Cardinality(s) * unit
                      /\ 2 * h[s] <= 2 * (g[s] * unit) + Cardinality(s) * unit
           F == {s \in SUBSET S : Near(s)}
<1>1. /\ g[{}] = 0 /\ \A s \in SUBSET S : g[s] \in Nat
      /\ \A s \in SUBSET S : \A x \in s : g[s] = f[x] + g[s \ {x}]
  <2>1. Summed(g, f, S)
    BY SumsSummed
  <2>2. QED
    BY <2>1 DEF Summed
<1>2. /\ h[{}] = 0 /\ \A s \in SUBSET S : h[s] \in Nat
      /\ \A s \in SUBSET S : \A x \in s : h[s] = e[x] + h[s \ {x}]
  <2>1. Summed(h, e, S)
    BY SumsSummed
  <2>2. QED
    BY <2>1 DEF Summed
<1> HIDE DEF g, h
<1>3. {} \in F
  <2>1. Cardinality({}) = 0 /\ 0 * unit = 0
    BY FS_EmptySet
  <2>2. Near({})
    BY <1>1, <1>2, <2>1
  <2>3. QED
    BY <2>2
<1>4. ASSUME NEW s \in SUBSET S, s # {}, \A x \in s : s \ {x} \in F PROVE s \in F
  <2>1. PICK x \in s : TRUE
    BY <1>4
  <2> DEFINE r == s \ {x}
             n == Cardinality(r)
  <2>2. Near(r)
    BY <1>4
  <2>3. g[s] = f[x] + g[r] /\ h[s] = e[x] + h[r]
    BY <1>1, <1>2
  <2>4. n \in Nat /\ Cardinality(s) = n + 1
    BY OneLess, FS_Subset
  <2>5. /\ f[x] \in Nat /\ e[x] \in Nat /\ g[r] \in Nat /\ h[r] \in Nat
        /\ 2 * (f[x] * unit) <= 2 * e[x] + unit
        /\ 2 * e[x] <= 2 * (f[x] * unit) + unit
    BY <1>1, <1>2
  <2>6. /\ 2 * (g[r] * unit) <= 2 * h[r] + n * unit
        /\ 2 * h[r] <= 2 * (g[r] * unit) + n * unit
    BY <2>2
  <2> HIDE DEF r, n, Near, F
  <2>7. /\ (f[x] + g[r]) * unit = f[x] * unit + g[r] * unit
        /\ (n + 1) * unit = n * unit + unit
    <3>1. 1 * unit = unit
      OBVIOUS
    <3>2. QED
      BY <2>4, <2>5, <3>1, MultiplesAdd
  <2>8. f[x] * unit \in Nat /\ g[r] * unit \in Nat /\ n * unit \in Nat
    BY <2>4, <2>5, MultiplesAdd
  <2>9. /\ g[s] * unit = f[x] * unit + g[r] * unit
        /\ Cardinality(s) * unit = n * unit + unit
    BY <2>3, <2>4, <2>7
  <2>10. Near(s)
    BY <2>3, <2>5, <2>6, <2>8, <2>9 DEF Near
  <2>11. QED
    BY <2>10 DEF F
<1>5. SUBSET S \subseteq F
  <2> HIDE DEF F
  <2>1. QED
    BY <1>3, <1>4, AllSubsets
<1>6. Near(S)
  BY <1>5
<1>7. Cardinality(S) \in Nat /\ g[S] \in Nat /\ h[S] \in Nat
  BY <1>1, <1>2, FS_CardinalityType
<1>8. QED
  BY <1>6, <1>7 DEF g, h

LEMMA MoneyNear ==
  ASSUME NEW a \in Nat, NEW unit \in Nat \ {0}
  PROVE  /\ Money(a, unit) \in Nat
         /\ 2 * (Money(a, unit) * unit) <= 2 * a + unit
         /\ 2 * a <= 2 * (Money(a, unit) * unit) + unit
<1> DEFINE q == Money(a, unit)
           b == 2 * a + unit
<1>1. b \in Nat /\ 2 * unit \in Nat \ {0}
  OBVIOUS
<1>2. q = b \div (2 * unit)
  BY DEF Money
<1>3. q \in Nat /\ q * (2 * unit) <= b /\ b < q * (2 * unit) + 2 * unit
  BY <1>1, <1>2, Quotient
<1> HIDE DEF q
<1>4. q * (2 * unit) = 2 * (q * unit) /\ q * unit \in Nat
  BY <1>3, SMT
<1>5. QED
  BY <1>3, <1>4 DEF q

\* Each amount is rounded by no more than half a cent, line by line.
LEMMA SubtotalNear ==
  ASSUME NEW items \in Seq(Item)
  PROVE  LET exact == Sum([i \in DOMAIN items |-> items[i].price * items[i].quantity])
             lines == Cardinality(DOMAIN items)
         IN  /\ Subtotal(items) \in Nat /\ exact \in Nat /\ lines \in Nat
             /\ 2 * (Subtotal(items) * Fraction) <= 2 * exact + lines * Fraction
             /\ 2 * exact <= 2 * (Subtotal(items) * Fraction) + lines * Fraction
<1> DEFINE f == [i \in DOMAIN items |-> LineSubtotal(items[i])]
           e == [i \in DOMAIN items |-> items[i].price * items[i].quantity]
<1>1. Fraction \in Nat \ {0} /\ IsFiniteSet(DOMAIN items)
  BY PartsAssumption, FS_Interval
<1>2. ASSUME NEW i \in DOMAIN items
      PROVE  /\ f[i] \in Nat /\ e[i] \in Nat
             /\ 2 * (f[i] * Fraction) <= 2 * e[i] + Fraction
             /\ 2 * e[i] <= 2 * (f[i] * Fraction) + Fraction
  <2>1. items[i].price \in Nat /\ items[i].quantity \in Nat
    <3>1. items[i] \in Item
      OBVIOUS
    <3>2. QED
      BY <3>1 DEF Item
  <2>2. e[i] = items[i].price * items[i].quantity /\ e[i] \in Nat
    BY <2>1, MultiplesAdd
  <2>3. f[i] = Money(e[i], Fraction)
    BY <2>2 DEF LineSubtotal
  <2>4. QED
    BY <1>1, <2>2, <2>3, MoneyNear
<1>3. Subtotal(items) = Sums(f, DOMAIN items)[DOMAIN items]
  BY SumIsFolded DEF Subtotal
<1>4. Sum(e) = Sums(e, DOMAIN items)[DOMAIN items]
  BY SumIsFolded
<1> HIDE DEF f
<1>5. QED
  BY <1>1, <1>2, <1>3, <1>4, SumsNear

\* Being near survives multiplication.
LEMMA NearTimes ==
  ASSUME NEW a \in Nat, NEW b \in Nat, NEW c \in Nat, NEW k \in Nat, 2 * a <= 2 * b + c
  PROVE  2 * (a * k) <= 2 * (b * k) + c * k
<1>1. (2 * a) * k <= (2 * b + c) * k
  BY MultiplesGrow
<1>2. (2 * b + c) * k = (2 * b) * k + c * k
  BY MultiplesAdd
<1>3. (2 * a) * k = 2 * (a * k) /\ (2 * b) * k = 2 * (b * k)
  BY SMT
<1>4. QED
  BY <1>1, <1>2, <1>3

LEMMA NearChain ==
  ASSUME NEW a \in Nat, NEW b \in Nat, NEW c \in Nat, NEW d \in Nat,
         NEW ab \in Nat, NEW bc \in Nat, NEW cd \in Nat,
         2 * a <= 2 * b + ab, 2 * b <= 2 * a + ab,
         2 * b <= 2 * c + bc, 2 * c <= 2 * b + bc,
         2 * c <= 2 * d + cd, 2 * d <= 2 * c + cd
  PROVE  -(cd + bc + ab) <= 2 * (a - d) /\ 2 * (a - d) <= cd + bc + ab
  OBVIOUS

\* Two numbers that are near stay so when both are added to a third, or both
\* taken from it.
LEMMA NearShift ==
  ASSUME NEW a \in Nat, NEW b \in Nat, NEW c \in Nat, NEW w \in Nat,
         2 * a <= 2 * b + w, 2 * b <= 2 * a + w
  PROVE  /\ 2 * (c + a) <= 2 * (c + b) + w /\ 2 * (c + b) <= 2 * (c + a) + w
         /\ 2 * (c - a) <= 2 * (c - b) + w /\ 2 * (c - b) <= 2 * (c - a) + w
  OBVIOUS

\* The three roundings of any quotation stay within half a cent each: no cart
\* is long enough, and no rate such, that they add up to more.
THEOREM RoundingStaysBounded ==
  ASSUME cart \in Seq(Item), rules \in Rules
  PROVE  RoundingBounded
<1> DEFINE W == Whole
           U == Fraction
           s == Subtotal(cart)
           e == Sum([i \in DOMAIN cart |-> cart[i].price * cart[i].quantity])
           n == Cardinality(DOMAIN cart)
           D == Discount(s, rules)
           X == Taxable(s, rules)
           V == Tax(s, rules)
           r == rules.discount
           t == rules.tax
<1>1. /\ s \in Nat /\ e \in Nat /\ n \in Nat
      /\ 2 * (s * U) <= 2 * e + n * U /\ 2 * e <= 2 * (s * U) + n * U
  BY SubtotalNear
<1>2. W \in Nat \ {0} /\ U \in Nat \ {0} /\ r \in Nat /\ t \in Nat /\ W - r \in Nat
  BY PartsAssumption DEF Rules, DiscountRate
<1>3. D \in 0..s
  BY <1>1, TotalGrows
<1>4. X = s - D /\ X \in Nat /\ D \in Nat
  BY <1>1, <1>3 DEF Taxable
<1>5. s * r \in Nat /\ X * t \in Nat
  BY <1>1, <1>2, <1>4, MultiplesAdd
<1>6. /\ 2 * (D * W) <= 2 * (s * r) + W /\ 2 * (s * r) <= 2 * (D * W) + W
  BY <1>2, <1>5, MoneyNear DEF Discount
<1>7. /\ V \in Nat
      /\ 2 * (V * W) <= 2 * (X * t) + W /\ 2 * (X * t) <= 2 * (V * W) + W
  BY <1>2, <1>5, MoneyNear DEF Tax
<1>8. Total(s, rules) = X + V
  BY DEF Total
<1>9. RoundingBounded = WithinRounding(cart, rules)
  BY DEF RoundingBounded
<1>10. WithinRounding(cart, rules) =
         LET off == 2 * ((X + V) * (U * W * W) - e * (W - r) * (W + t))
             allowed == U * n * (W - r) * (W + t) + U * W * (W + t) + U * W * W
         IN  -allowed <= off /\ off <= allowed
  BY <1>8 DEF WithinRounding, Exact, Parts
<1> DEFINE d == W - r
           z == W + t
           k == U * W
<1>11. d \in Nat /\ z \in Nat /\ k \in Nat /\ W \in Nat /\ U \in Nat
  BY <1>2, SMT
<1> HIDE DEF W, U, s, e, n, D, X, V, r, t
\* The discounted amount, in parts of 1 / W.
<1>12. 2 * (X * W) <= 2 * (s * d) + W /\ 2 * (s * d) <= 2 * (X * W) + W
  <2>1. X * W = s * W - D * W /\ s * d = s * W - s * r
    BY <1>1, <1>2, <1>4, SMT
  <2>2. s * W \in Nat /\ D * W \in Nat
    BY <1>1, <1>4, <1>11, MultiplesAdd
  <2>3. QED
    BY <1>5, <1>6, <1>11, <2>1, <2>2, NearShift
\* With tax.
<1>13. 2 * ((X + V) * W) <= 2 * (X * z) + W /\ 2 * (X * z) <= 2 * ((X + V) * W) + W
  <2>1. (X + V) * W = X * W + V * W /\ X * z = X * W + X * t
    BY <1>2, <1>4, <1>7, SMT
  <2>2. X * W \in Nat /\ V * W \in Nat
    BY <1>4, <1>7, <1>11, MultiplesAdd
  <2>3. QED
    BY <1>5, <1>7, <1>11, <2>1, <2>2, NearShift
<1> HIDE DEF d, z, k
<1>14. /\ s * d \in Nat /\ X * W \in Nat /\ X * z \in Nat /\ (X + V) * W \in Nat
       /\ s * U \in Nat /\ n * U \in Nat /\ X + V \in Nat
  BY <1>1, <1>4, <1>7, <1>11, SMT
<1>15. /\ 2 * (((X + V) * W) * k) <= 2 * ((X * z) * k) + W * k
       /\ 2 * ((X * z) * k) <= 2 * (((X + V) * W) * k) + W * k
  BY <1>11, <1>13, <1>14, NearTimes
<1>16. U * z \in Nat /\ d * z \in Nat
  BY <1>11, MultiplesAdd
<1>17. /\ 2 * ((X * W) * (U * z)) <= 2 * ((s * d) * (U * z)) + W * (U * z)
       /\ 2 * ((s * d) * (U * z)) <= 2 * ((X * W) * (U * z)) + W * (U * z)
  BY <1>11, <1>12, <1>14, <1>16, NearTimes
<1>18. /\ 2 * ((s * U) * (d * z)) <= 2 * (e * (d * z)) + (n * U) * (d * z)
       /\ 2 * (e * (d * z)) <= 2 * ((s * U) * (d * z)) + (n * U) * (d * z)
  BY <1>1, <1>14, <1>16, NearTimes
\* One and the same product, taken in another order.
<1>19. /\ ((X + V) * W) * k = (X + V) * (U * W * W) /\ W * k = U * W * W
       /\ (X * z) * k = (X * W) * (U * z) /\ W * (U * z) = U * W * z
       /\ (s * d) * (U * z) = (s * U) * (d * z)
       /\ e * (d * z) = e * d * z /\ (n * U) * (d * z) = U * n * d * z
  BY <1>1, <1>4, <1>11, <1>14, SMT DEF k
<1>20. /\ (X + V) * (U * W * W) \in Nat /\ (X * W) * (U * z) \in Nat
       /\ (s * U) * (d * z) \in Nat /\ e * d * z \in Nat
       /\ U * n * d * z \in Nat /\ U * W * z \in Nat /\ U * W * W \in Nat
  BY <1>1, <1>11, <1>14, <1>16, <1>19, SMT
<1>21. LET off == 2 * ((X + V) * (U * W * W) - e * d * z)
           allowed == U * n * d * z + U * W * z + U * W * W
       IN  -allowed <= off /\ off <= allowed
  <2>1. /\ 2 * ((X + V) * (U * W * W)) <= 2 * ((X * W) * (U * z)) + U * W * W
        /\ 2 * ((X * W) * (U * z)) <= 2 * ((X + V) * (U * W * W)) + U * W * W
    BY <1>15, <1>19
  <2>2. /\ 2 * ((X * W) * (U * z)) <= 2 * ((s * U) * (d * z)) + U * W * z
        /\ 2 * ((s * U) * (d * z)) <= 2 * ((X * W) * (U * z)) + U * W * z
    BY <1>17, <1>19
  <2>3. /\ 2 * ((s * U) * (d * z)) <= 2 * (e * d * z) + U * n * d * z
        /\ 2 * (e * d * z) <= 2 * ((s * U) * (d * z)) + U * n * d * z
    BY <1>18, <1>19
  <2>4. QED
    BY <1>20, <2>1, <2>2, <2>3, NearChain
<1>22. QED
  BY <1>9, <1>10, <1>21 DEF d, z

\* Another line, a higher price, more units: the total does not go down,
\* however discount and tax are rounded.
THEOREM MoreCostsNoLess ==
  ASSUME NEW items \in Seq(Item), NEW more \in Seq(Item), NEW terms \in Rules,
         Len(items) <= Len(more),
         \A i \in DOMAIN items : /\ items[i].price <= more[i].price
                                 /\ items[i].quantity <= more[i].quantity
  PROVE  CostsNoLess(more, items, terms)
<1> DEFINE f == [i \in DOMAIN items |-> LineSubtotal(items[i])]
           e == [i \in DOMAIN more |-> LineSubtotal(more[i])]
<1>1. IsFiniteSet(DOMAIN more) /\ DOMAIN items \subseteq DOMAIN more
  BY FS_Interval
<1>2. ASSUME NEW item \in Item
      PROVE  /\ item.price \in Nat /\ item.quantity \in Nat
             /\ item.price * item.quantity \in Nat
             /\ LineSubtotal(item) \in Nat
  <2>1. item.price \in Nat /\ item.quantity \in Nat
    BY DEF Item
  <2>2. item.price * item.quantity \in Nat
    BY <2>1, MultiplesAdd
  <2>3. QED
    BY <2>1, <2>2, MoneyGrows, PartsAssumption DEF LineSubtotal
<1>3. ASSUME NEW i \in DOMAIN items PROVE LineSubtotal(items[i]) <= LineSubtotal(more[i])
  <2> DEFINE p == items[i].price
             q == items[i].quantity
             P == more[i].price
             Q == more[i].quantity
  <2>1. items[i] \in Item /\ more[i] \in Item
    BY <1>1
  <2>2. /\ p \in Nat /\ q \in Nat /\ P \in Nat /\ Q \in Nat
        /\ p * q \in Nat /\ P * Q \in Nat /\ p <= P /\ q <= Q
    BY <1>2, <2>1
  <2> HIDE DEF p, q, P, Q
  <2>3. p * q <= P * Q
    BY <2>2, BothGrow
  <2>4. Money(p * q, Fraction) <= Money(P * Q, Fraction)
    BY <2>2, <2>3, MoneyGrows, PartsAssumption
  <2>5. QED
    BY <2>4 DEF LineSubtotal, p, q, P, Q
<1>4. \A i \in DOMAIN more : e[i] \in Nat
  <2>1. \A i \in DOMAIN more : more[i] \in Item
    OBVIOUS
  <2>2. QED
    BY <1>2, <2>1
<1>5. \A i \in DOMAIN items : f[i] \in Nat /\ f[i] <= e[i]
  <2>1. \A i \in DOMAIN items : items[i] \in Item /\ i \in DOMAIN more
    BY <1>1
  <2>2. QED
    BY <1>2, <1>3, <2>1
<1>6. DOMAIN f = DOMAIN items /\ DOMAIN e = DOMAIN more
  OBVIOUS
<1>7. Subtotal(items) = Sum(f) /\ Subtotal(more) = Sum(e)
  BY DEF Subtotal
<1> HIDE DEF f, e
<1>8. Sum(f) \in Nat /\ Sum(f) <= Sum(e)
  BY <1>1, <1>4, <1>5, <1>6, SumGrows
<1>9. Sum(e) \in Nat
  BY <1>1, <1>4, <1>6, SumGrows
<1>10. /\ Total(Subtotal(items), terms) \in Nat /\ Total(Subtotal(more), terms) \in Nat
       /\ Total(Subtotal(items), terms) <= Total(Subtotal(more), terms)
  BY <1>7, <1>8, <1>9, TotalGrows
<1>11. QED
  BY <1>10 DEF CostsNoLess

\* The carts of MCAlgorithms are ones of these, and grow as they do.
CartSound == cart \in Seq(Item) /\ rules \in Rules

LEMMA CartsSound == MCSpec => []CartSound
<1>1. MCInit => CartSound
  <2>1. 0 \in DiscountRate /\ NoRules \in Rules /\ CartRules \subseteq Rules
    BY PartsAssumption DEF DiscountRate, NoRules, CartRules, Rules
  <2>2. <<>> \in Seq(Item)
    OBVIOUS
  <2>3. QED
    BY <2>1, <2>2 DEF MCInit, CartSound
<1>2. ASSUME CartSound, [MCNext]_<<vars, subject>> PROVE CartSound'
  <2>1. CASE AddItem
    <3>1. PICK price \in Prices : cart' = Append(cart, [price |-> price, quantity |-> 1])
      BY <2>1 DEF AddItem
    <3>2. [price |-> price, quantity |-> 1] \in Item
      BY DEF Prices, Item
    <3>3. rules' = rules
      BY <2>1 DEF AddItem
    <3>4. QED
      BY <1>2, <3>1, <3>2, <3>3 DEF CartSound
  <2>2. CASE AddUnit
    <3>1. PICK i \in DOMAIN cart : cart' = [cart EXCEPT ![i].quantity = @ + 1]
      BY <2>2 DEF AddUnit
    <3>2. rules' = rules
      BY <2>2 DEF AddUnit
    <3>3. cart[i] \in Item
      BY <1>2 DEF CartSound
    <3>4. [cart[i] EXCEPT !.quantity = @ + 1] \in Item
      BY <3>3 DEF Item
    <3>5. cart' = [cart EXCEPT ![i] = [cart[i] EXCEPT !.quantity = @ + 1]]
      BY <3>1
    <3>6. cart' \in Seq(Item)
      BY <1>2, <3>4, <3>5 DEF CartSound
    <3>7. QED
      BY <1>2, <3>2, <3>6 DEF CartSound
  <2>3. CASE Call \/ UNCHANGED <<vars, subject>>
    BY <1>2, <2>3 DEF Call, subject, CartSound
  <2>4. QED
    BY <1>2, <2>1, <2>2, <2>3 DEF MCNext
<1>3. QED
  BY <1>1, <1>2, PTL DEF MCSpec

\* The totals of all carts a run builds are rounded so.
THEOREM CartsRounded == MCSpec => []RoundingBounded
<1>1. CartSound => RoundingBounded
  BY RoundingStaysBounded DEF CartSound
<1>2. QED
  BY <1>1, CartsSound, PTL

\* As a cart grows, its total never goes down.
THEOREM CartsCostMore == MCSpec => MoreNeverCostsLess
<1>1. ASSUME CartSound, CartSound', [MCNext]_<<vars, subject>>
      PROVE  [CostsNoLess(cart', cart, rules)]_cart
  <2>1. CASE AddItem
    <3>1. PICK item : cart' = Append(cart, item)
      BY <2>1 DEF AddItem
    <3>2. cart \in Seq(Item) /\ cart' \in Seq(Item) /\ rules \in Rules
      BY <1>1 DEF CartSound
    <3>3. Len(cart) <= Len(cart') /\ \A i \in DOMAIN cart : cart'[i] = cart[i]
      BY <3>1, <3>2
    <3>4. \A i \in DOMAIN cart : cart[i].price \in Nat /\ cart[i].quantity \in Nat
      <4>1. \A i \in DOMAIN cart : cart[i] \in Item
        BY <3>2
      <4>2. QED
        BY <4>1 DEF Item
    <3>5. \A i \in DOMAIN cart : /\ cart[i].price <= cart'[i].price
                                 /\ cart[i].quantity <= cart'[i].quantity
      BY <3>3, <3>4
    <3>6. QED
      BY <3>2, <3>3, <3>5, MoreCostsNoLess
  <2>2. CASE AddUnit
    <3>1. PICK k \in DOMAIN cart : cart' = [cart EXCEPT ![k].quantity = @ + 1]
      BY <2>2 DEF AddUnit
    <3>2. cart \in Seq(Item) /\ cart' \in Seq(Item) /\ rules \in Rules
      BY <1>1 DEF CartSound
    <3>3. \A i \in DOMAIN cart : cart[i] \in Item
      BY <3>2
    <3>4. \A i \in DOMAIN cart :
            /\ cart[i] = [price |-> cart[i].price, quantity |-> cart[i].quantity]
            /\ cart[i].price \in Nat /\ cart[i].quantity \in Nat
      BY <3>3 DEF Item
    <3>5. Len(cart) <= Len(cart')
      BY <3>1, <3>2
    <3>6. \A i \in DOMAIN cart : /\ cart[i].price <= cart'[i].price
                                 /\ cart[i].quantity <= cart'[i].quantity
      BY <3>1, <3>4
    <3>7. QED
      BY <3>2, <3>5, <3>6, MoreCostsNoLess
  <2>3. CASE Call \/ UNCHANGED <<vars, subject>>
    BY <2>3 DEF Call, subject
  <2>4. QED
    BY <1>1, <2>1, <2>2, <2>3 DEF MCNext
<1>2. QED
  BY <1>1, CartsSound, PTL DEF MCSpec, MoreNeverCostsLess

-----------------------------------------------------------------------------
(* Search.                                                                 *)

LEMMA Maximum ==
  ASSUME NEW S \in SUBSET Nat, NEW m \in S, \A y \in S : m >= y
  PROVE  Max(S) = m
<1>1. Max(S) \in S /\ \A y \in S : Max(S) >= y
  BY DEF Max
<1>2. Max(S) >= m /\ m >= Max(S) /\ Max(S) \in Nat /\ m \in Nat
  BY <1>1
<1>3. QED
  BY <1>2

LEMMA Minimum ==
  ASSUME NEW S \in SUBSET Nat, NEW m \in S, \A y \in S : m <= y
  PROVE  Min(S) = m
<1>1. Min(S) \in S /\ \A y \in S : Min(S) <= y
  BY DEF Min
<1>2. Min(S) <= m /\ m <= Min(S) /\ Min(S) \in Nat /\ m \in Nat
  BY <1>1
<1>3. QED
  BY <1>2

\* Where a word is found among the fields of a product.
Fields(p) == NameSku(p) \cup p.keywords \cup CategoryDescription(p)

LEMMA BestTokenTypes ==
  ASSUME NEW p, NEW word
  PROVE  /\ BestTokenScore(p, word) \in Nat
         /\ BestTokenScore(p, word) > 0 <=> \E v \in Fields(p) : word \in Words[v]
<1> DEFINE In(values) == \E v \in values : word \in Words[v]
           a == Scored(In(NameSku(p)), 4)
           b == Scored(In(p.keywords), 3)
           c == Scored(In(CategoryDescription(p)), 2)
           m == IF In(NameSku(p)) THEN a ELSE IF In(p.keywords) THEN b ELSE c
<1>1. /\ a = IF In(NameSku(p)) THEN 4 ELSE 0
      /\ b = IF In(p.keywords) THEN 3 ELSE 0
      /\ c = IF In(CategoryDescription(p)) THEN 2 ELSE 0
  BY DEF Scored
<1>2. BestTokenScore(p, word) = Max({a, b, c})
  BY DEF BestTokenScore
<1>3. (\E v \in Fields(p) : word \in Words[v])
        <=> In(NameSku(p)) \/ In(p.keywords) \/ In(CategoryDescription(p))
  BY DEF Fields
<1> HIDE DEF a, b, c, In
<1>4. {a, b, c} \in SUBSET Nat /\ m \in {a, b, c} /\ \A y \in {a, b, c} : m >= y
  BY <1>1
<1>5. Max({a, b, c}) = m
  BY <1>4, Maximum
<1>6. QED
  BY <1>1, <1>2, <1>3, <1>5

\* A sum of numbers is above 0 as soon as one of them is.
LEMMA SumPositive ==
  ASSUME NEW S, IsFiniteSet(S), NEW f, \A x \in S : f[x] \in Nat
  PROVE  /\ Sums(f, S)[S] \in Nat
         /\ Sums(f, S)[S] > 0 <=> \E x \in S : f[x] > 0
<1> DEFINE g == Sums(f, S)
           F == {s \in SUBSET S : g[s] > 0 <=> \E x \in s : f[x] > 0}
<1>1. Summed(g, f, S)
  BY SumsSummed
<1> HIDE DEF g
<1>2. {} \in F
  BY <1>1 DEF Summed
<1>3. ASSUME NEW s \in SUBSET S, s # {}, \A x \in s : s \ {x} \in F PROVE s \in F
  <2>1. PICK x \in s : TRUE
    BY <1>3
  <2>2. /\ g[s] = f[x] + g[s \ {x}] /\ f[x] \in Nat /\ g[s \ {x}] \in Nat
    BY <1>1 DEF Summed
  <2>3. g[s \ {x}] > 0 <=> \E y \in s \ {x} : f[y] > 0
    BY <1>3
  <2>4. (\E y \in s : f[y] > 0) <=> f[x] > 0 \/ \E y \in s \ {x} : f[y] > 0
    OBVIOUS
  <2>5. g[s] > 0 <=> f[x] > 0 \/ g[s \ {x}] > 0
    BY <2>2
  <2>6. QED
    BY <2>3, <2>4, <2>5
<1>4. SUBSET S \subseteq F
  <2> HIDE DEF F
  <2>1. QED
    BY <1>2, <1>3, AllSubsets
<1>5. g[S] \in Nat
  BY <1>1 DEF Summed
<1>6. QED
  BY <1>4, <1>5 DEF g

\* What TokenScore folds is a sum as above.
LEMMA TokensSummed ==
  ASSUME NEW p, NEW S, IsFiniteSet(S)
  PROVE  LET f == [word \in S |-> BestTokenScore(p, word)]
         IN  MapThenSumSet(LAMBDA word : BestTokenScore(p, word), S) = Sums(f, S)[S]
<1> DEFINE f == [word \in S |-> BestTokenScore(p, word)]
           step(g, s) == IF s = {} THEN 0
                         ELSE BestTokenScore(p, Taken(s)) + g[s \ {Taken(s)}]
           g == Sums(f, S)
           h == CHOOSE t : t = [s \in SUBSET S |-> step(t, s)]
           F == {s \in SUBSET S : g[s] = h[s]}
<1>1. MapThenSumSet(LAMBDA word : BestTokenScore(p, word), S) = h[S]
  BY DEF MapThenSumSet, MapThenFoldSet, Taken
<1>2. \A s \in SUBSET S : s # {} => f[Taken(s)] = BestTokenScore(p, Taken(s))
  BY TakenFrom
<1>3. \A s \in SUBSET S : g[s] = step(g, s)
  <2> HIDE DEF f
  <2>1. \A s \in SUBSET S : g[s] = SumStep(f, g, s)
    BY SumsEquation
  <2>2. QED
    BY <1>2, <2>1 DEF SumStep
<1> HIDE DEF f, g
<1> DEFINE k == [s \in SUBSET S |-> step(g, s)]
<1>4. k = [s \in SUBSET S |-> step(k, s)]
  <2>1. \A s \in SUBSET S : k[s] = g[s]
    BY <1>3
  <2>2. \A s \in SUBSET S : s \ {Taken(s)} \in SUBSET S
    OBVIOUS
  <2>3. \A s \in SUBSET S : step(k, s) = step(g, s)
    BY <2>1, <2>2
  <2>4. QED
    BY <2>3
<1>5. h = [s \in SUBSET S |-> step(h, s)]
  BY <1>4
<1> HIDE DEF h
<1>6. \A s \in SUBSET S : h[s] = step(h, s)
  BY <1>5
<1>7. {} \in F
  BY <1>3, <1>6
<1>8. ASSUME NEW s \in SUBSET S, s # {}, \A x \in s : s \ {x} \in F PROVE s \in F
  <2>1. g[s \ {Taken(s)}] = h[s \ {Taken(s)}]
    BY <1>8, TakenFrom
  <2>2. QED
    BY <1>3, <1>6, <1>8, <2>1
<1>9. SUBSET S \subseteq F
  <2> HIDE DEF F
  <2>1. QED
    BY <1>7, <1>8, AllSubsets
<1>10. QED
  BY <1>1, <1>9 DEF f, g

LEMMA TokenScoreTypes ==
  ASSUME NEW p, NEW sought \in Value
  PROVE  /\ TokenScore(p, sought) \in 0..199
         /\ TokenScore(p, sought) > 0
              <=> \E v \in Fields(p) : Words[v] \cap Words[sought] # {}
<1> DEFINE S == Words[sought]
           f == [word \in S |-> BestTokenScore(p, word)]
           sum == Sums(f, S)[S]
<1>1. IsFiniteSet(S)
  BY ValueAssumption
<1>2. \A x \in S : f[x] \in Nat /\ (f[x] > 0 <=> \E v \in Fields(p) : x \in Words[v])
  BY BestTokenTypes
<1>3. sum \in Nat /\ (sum > 0 <=> \E x \in S : f[x] > 0)
  <2>1. \A x \in S : f[x] \in Nat
    BY <1>2
  <2> HIDE DEF f, S
  <2>2. QED
    BY <1>1, <2>1, SumPositive
<1>4. TokenScore(p, sought) = Min({199, sum})
  <2>1. MapThenSumSet(LAMBDA word : BestTokenScore(p, word), S) = sum
    BY <1>1, TokensSummed
  <2>2. QED
    BY <2>1 DEF TokenScore
<1>5. sum > 0 <=> \E v \in Fields(p) : Words[v] \cap S # {}
  <2>1. (\E x \in S : f[x] > 0) <=> \E x \in S : \E v \in Fields(p) : x \in Words[v]
    BY <1>2
  <2>2. QED
    BY <1>3, <2>1
<1> HIDE DEF sum, S
<1>6. Min({199, sum}) = IF sum <= 199 THEN sum ELSE 199
  <2>1. CASE sum <= 199
    BY <1>3, <2>1, Minimum
  <2>2. CASE ~(sum <= 199)
    BY <1>3, <2>2, Minimum
  <2>3. QED
    BY <2>1, <2>2
<1>7. QED
  BY <1>3, <1>4, <1>5, <1>6 DEF S

\* The band of scores of each field, by priority: 600, 500, 400, 300, 200, what
\* is left, and nothing.
LEMMA ScoreByField ==
  ASSUME NEW p, NEW sought \in Value
  PROVE  /\ Field(p, sought) \in 1..7 /\ SearchScore(p, sought) \in Nat
         /\ Field(p, sought) < 6 => SearchScore(p, sought) = 700 - 100 * Field(p, sought)
         /\ Field(p, sought) = 6 => SearchScore(p, sought) \in 1..199
         /\ Field(p, sought) = 7 => SearchScore(p, sought) = 0
<1> DEFINE A1 == sought = p.sku
           A2 == sought = p.name
           A3 == PhraseIn(sought, {p.name})
           A4 == PhraseIn(sought, p.keywords)
           A5 == PhraseIn(sought, CategoryDescription(p))
           A6 == \E v \in Fields(p) : Words[v] \cap Words[sought] # {}
           t == TokenScore(p, sought)
           first == IF A1 THEN 1 ELSE IF A2 THEN 2 ELSE IF A3 THEN 3
                    ELSE IF A4 THEN 4 ELSE IF A5 THEN 5 ELSE IF A6 THEN 6 ELSE 7
           best == IF A1 THEN 600 ELSE IF A2 THEN 500 ELSE IF A3 THEN 400
                   ELSE IF A4 THEN 300 ELSE IF A5 THEN 200 ELSE t
           K == {7} \cup {k \in 1..6 :
                  \/ k = 1 /\ A1
                  \/ k = 2 /\ A2
                  \/ k = 3 /\ A3
                  \/ k = 4 /\ A4
                  \/ k = 5 /\ A5
                  \/ k = 6 /\ A6}
           R == {Scored(A1, 600), Scored(A2, 500), Scored(A3, 400),
                 Scored(A4, 300), Scored(A5, 200), t}
<1>1. Field(p, sought) = Min(K)
  BY DEF Field, Fields
<1>2. SearchScore(p, sought) = Max(R)
  BY DEF SearchScore
<1>3. t \in 0..199 /\ (t > 0 <=> A6)
  BY TokenScoreTypes
<1> HIDE DEF A1, A2, A3, A4, A5, A6, t
<1>4. Min(K) = first
  <2>1. K \in SUBSET Nat /\ first \in K
    OBVIOUS
  <2>2. \A y \in K : first <= y
    OBVIOUS
  <2> HIDE DEF K, first
  <2>3. QED
    BY <2>1, <2>2, Minimum
<1>5. Max(R) = best
  <2>1. /\ Scored(A1, 600) = (IF A1 THEN 600 ELSE 0)
        /\ Scored(A2, 500) = (IF A2 THEN 500 ELSE 0)
        /\ Scored(A3, 400) = (IF A3 THEN 400 ELSE 0)
        /\ Scored(A4, 300) = (IF A4 THEN 300 ELSE 0)
        /\ Scored(A5, 200) = (IF A5 THEN 200 ELSE 0)
    BY DEF Scored
  <2>2. R \in SUBSET Nat /\ best \in R
    BY <1>3, <2>1
  <2>3. \A y \in R : best >= y
    BY <1>3, <2>1
  <2> HIDE DEF R, best
  <2>4. QED
    BY <2>2, <2>3, Maximum
<1>6. QED
  BY <1>1, <1>2, <1>3, <1>4, <1>5

\* So a product that scores no less has its match in no lower field.
LEMMA ScoreKeepsPriority ==
  ASSUME NEW p, NEW q, NEW sought \in Value,
         SearchScore(p, sought) >= SearchScore(q, sought)
  PROVE  Field(p, sought) <= Field(q, sought)
<1> DEFINE a == Field(p, sought)
           b == Field(q, sought)
           x == SearchScore(p, sought)
           y == SearchScore(q, sought)
<1>1. /\ a \in 1..7 /\ x \in Nat /\ (a < 6 => x = 700 - 100 * a)
      /\ (a = 6 => x \in 1..199) /\ (a = 7 => x = 0)
  BY ScoreByField
<1>2. /\ b \in 1..7 /\ y \in Nat /\ (b < 6 => y = 700 - 100 * b)
      /\ (b = 6 => y \in 1..199) /\ (b = 7 => y = 0)
  BY ScoreByField
<1> HIDE DEF a, b
<1>3. a <= b
  BY <1>1, <1>2
<1>4. QED
  BY <1>3 DEF a, b

\* A catalogue: ids are its primary key.
IsCatalog(catalog) ==
  /\ catalog \subseteq Product /\ IsFiniteSet(catalog)
  /\ \A p, q \in catalog : p.id = q.id => p = q

\* Before orders the products of a catalogue, one after another.
LEMMA BeforeOrders ==
  ASSUME NEW catalog, IsCatalog(catalog), NEW sought \in Value,
         NEW p \in catalog, NEW q \in catalog
  PROVE  /\ ~Before(p, p, sought)
         /\ p # q => (Before(p, q, sought) <=> ~Before(q, p, sought))
         /\ \A r \in catalog :
              Before(p, q, sought) /\ Before(q, r, sought) => Before(p, r, sought)
<1>1. \A r \in catalog : r.id \in Nat /\ SearchScore(r, sought) \in Nat
  BY ScoreByField DEF IsCatalog, Product
<1>2. p # q => p.id # q.id
  BY DEF IsCatalog
<1>3. QED
  BY <1>1, <1>2 DEF Before

\* How many of the matches are better.
Better(p, M, sought) == {q \in M : Before(q, p, sought)}

LEMMA BetterGrows ==
  ASSUME NEW M, IsCatalog(M), NEW sought \in Value, NEW p \in M, NEW q \in M,
         Before(p, q, sought)
  PROVE  Cardinality(Better(p, M, sought)) < Cardinality(Better(q, M, sought))
<1> DEFINE A == Better(p, M, sought)
           B == Better(q, M, sought)
<1>1. A \subseteq B /\ p \in B /\ p \notin A
  BY BeforeOrders DEF Better
<1>2. IsFiniteSet(B)
  <2>1. B \in SUBSET M /\ IsFiniteSet(M)
    BY DEF Better, IsCatalog
  <2>2. QED
    BY <2>1, FS_Subset
<1> HIDE DEF A, B
<1>3. Cardinality(A) <= Cardinality(B) /\ Cardinality(A) # Cardinality(B)
  BY <1>1, <1>2, FS_Subset
<1>4. Cardinality(A) \in Nat /\ Cardinality(B) \in Nat
  BY <1>1, <1>2, FS_Subset, FS_CardinalityType
<1>5. QED
  BY <1>3, <1>4 DEF A, B

\* Every rank from 1 to the number of matches is that of one of them.
LEMMA RanksTaken ==
  ASSUME NEW M, IsCatalog(M), NEW sought \in Value
  PROVE  /\ Cardinality(M) \in Nat
         /\ \A p \in M : Cardinality(Better(p, M, sought)) \in 0..(Cardinality(M) - 1)
         /\ \A n \in 0..(Cardinality(M) - 1) :
              \E p \in M : Cardinality(Better(p, M, sought)) = n
         /\ \A p, q \in M : Cardinality(Better(p, M, sought)) = Cardinality(Better(q, M, sought))
                            => p = q
<1> DEFINE place == [p \in M |-> Cardinality(Better(p, M, sought))]
           N == 0..(Cardinality(M) - 1)
<1>1. IsFiniteSet(M) /\ Cardinality(M) \in Nat
  BY FS_CardinalityType DEF IsCatalog
<1>2. ASSUME NEW p \in M PROVE Cardinality(Better(p, M, sought)) \in N
  <2>1. Better(p, M, sought) \in SUBSET M /\ p \notin Better(p, M, sought)
    BY BeforeOrders DEF Better
  <2>2. /\ IsFiniteSet(Better(p, M, sought))
        /\ Cardinality(Better(p, M, sought)) <= Cardinality(M)
        /\ Cardinality(Better(p, M, sought)) # Cardinality(M)
    BY <1>1, <2>1, FS_Subset
  <2>3. Cardinality(Better(p, M, sought)) \in Nat
    BY <2>2, FS_CardinalityType
  <2>4. QED
    BY <1>1, <2>2, <2>3
<1>3. ASSUME NEW p \in M, NEW q \in M,
             Cardinality(Better(p, M, sought)) = Cardinality(Better(q, M, sought))
      PROVE  p = q
  <2>1. SUFFICES ASSUME p # q PROVE FALSE
    OBVIOUS
  <2>2. Before(p, q, sought) \/ Before(q, p, sought)
    BY <2>1, BeforeOrders
  <2>3. Cardinality(Better(p, M, sought)) \in N
    BY <1>2
  <2>4. QED
    BY <1>3, <2>2, <2>3, BetterGrows
<1>4. IsFiniteSet(N) /\ Cardinality(N) = Cardinality(M)
  BY <1>1, FS_Interval
<1>5. place \in Injection(M, N)
  BY <1>2, <1>3 DEF Injection, IsInjective
<1>6. place \in Surjection(M, N)
  BY <1>4, <1>5, FS_Injection
<1>7. \A n \in N : \E p \in M : Cardinality(Better(p, M, sought)) = n
  BY <1>6 DEF Surjection
<1>8. QED
  BY <1>1, <1>2, <1>3, <1>7

\* found holds the first N of the matches by rank, and leaves none of them out.
Ranked(M, N, sought) ==
  [rank \in 1..N |->
     CHOOSE p \in M : Cardinality({q \in M : Before(q, p, sought)}) = rank - 1]
ShowsFirst(found, N, M, sought) ==
  /\ Cardinality(M) \in Nat /\ N \in Nat /\ N <= MaxResults
  /\ N <= Cardinality(M) /\ (N = MaxResults \/ N = Cardinality(M))
  /\ \A rank \in 1..N : /\ found[rank] \in M
                        /\ Cardinality(Better(found[rank], M, sought)) = rank - 1
  /\ \A p \in M : \/ \E rank \in 1..N : p = found[rank]
                  \/ Cardinality(Better(p, M, sought)) >= N

LEMMA SearchShows ==
  ASSUME NEW M, IsCatalog(M), NEW sought \in Value,
         NEW N, N = Min({MaxResults, Cardinality(M)})
  PROVE  ShowsFirst(Ranked(M, N, sought), N, M, sought)
<1> DEFINE found == Ranked(M, N, sought)
<1> DEFINE B(p) == Cardinality(Better(p, M, sought))
<1>1. /\ Cardinality(M) \in Nat
      /\ \A p \in M : B(p) \in 0..(Cardinality(M) - 1)
      /\ \A n \in 0..(Cardinality(M) - 1) : \E p \in M : B(p) = n
      /\ \A p, q \in M : B(p) = B(q) => p = q
  BY RanksTaken
<1>2. /\ N \in Nat /\ N <= MaxResults /\ N <= Cardinality(M)
      /\ N = MaxResults \/ N = Cardinality(M)
  <2>1. MaxResults \in Nat
    BY ResultsAssumption
  <2>2. CASE MaxResults <= Cardinality(M)
    <3>1. Min({MaxResults, Cardinality(M)}) = MaxResults
      BY <1>1, <2>1, <2>2, Minimum
    <3>2. QED
      BY <1>1, <2>1, <2>2, <3>1
  <2>3. CASE ~(MaxResults <= Cardinality(M))
    <3>1. Min({MaxResults, Cardinality(M)}) = Cardinality(M)
      BY <1>1, <2>1, <2>3, Minimum
    <3>2. QED
      BY <1>1, <2>1, <2>3, <3>1
  <2>4. QED
    BY <2>2, <2>3
<1>3. ASSUME NEW rank \in 1..N PROVE found[rank] \in M /\ B(found[rank]) = rank - 1
  <2>1. found[rank] = CHOOSE p \in M : B(p) = rank - 1
    BY DEF Better, Ranked
  <2>2. rank - 1 \in 0..(Cardinality(M) - 1)
    BY <1>1, <1>2
  <2>3. \E p \in M : B(p) = rank - 1
    BY <1>1, <2>2
  <2> HIDE DEF B
  <2>4. QED
    BY <2>1, <2>3
<1>4. ASSUME NEW p \in M, ~(B(p) >= N) PROVE \E rank \in 1..N : p = found[rank]
  <2>1. B(p) \in Nat
    BY <1>1
  <2> DEFINE r == B(p) + 1
  <2>2. r \in 1..N /\ r - 1 = B(p)
    BY <1>2, <1>4, <2>1
  <2> HIDE DEF r
  <2>3. found[r] \in M /\ B(found[r]) = B(p)
    BY <1>3, <2>2
  <2>4. p = found[r]
    BY <1>1, <2>3
  <2>5. QED
    BY <2>2, <2>4
<1>5. QED
  BY <1>1, <1>2, <1>3, <1>4 DEF ShowsFirst

\* The order of ranks is Before's.
LEMMA RankedBefore ==
  ASSUME NEW M, IsCatalog(M), NEW sought \in Value, NEW p \in M, NEW q \in M,
         Cardinality(Better(p, M, sought)) < Cardinality(Better(q, M, sought))
  PROVE  Field(p, sought) <= Field(q, sought)
<1>1. /\ Cardinality(M) \in Nat
      /\ Cardinality(Better(p, M, sought)) \in 0..(Cardinality(M) - 1)
      /\ Cardinality(Better(q, M, sought)) \in 0..(Cardinality(M) - 1)
  BY RanksTaken
<1>2. p # q
  BY <1>1
<1>3. ~Before(q, p, sought)
  <2>1. SUFFICES ASSUME Before(q, p, sought) PROVE FALSE
    OBVIOUS
  <2>2. Cardinality(Better(q, M, sought)) < Cardinality(Better(p, M, sought))
    BY <2>1, BetterGrows
  <2>3. QED
    BY <1>1, <2>2
<1>4. Before(p, q, sought)
  BY <1>2, <1>3, BeforeOrders
<1>5. SearchScore(p, sought) >= SearchScore(q, sought)
  BY <1>4, ScoreByField DEF Before
<1>6. QED
  BY <1>5, ScoreKeepsPriority

LEMMA MatchesCatalog ==
  ASSUME NEW catalog, IsCatalog(catalog), NEW sought, NEW categories
  PROVE  IsCatalog(Matches(catalog, sought, categories))
<1>1. Matches(catalog, sought, categories) \in SUBSET catalog
  BY DEF Matches
<1>2. IsFiniteSet(Matches(catalog, sought, categories))
  BY <1>1, FS_Subset DEF IsCatalog
<1>3. QED
  BY <1>1, <1>2 DEF IsCatalog

\* The documented priority of fields holds in the results of every search, and
\* none is left out while there is room.
THEOREM SearchKeepsPriority ==
  ASSUME NEW catalog, IsCatalog(catalog), NEW sought \in Value, NEW categories
  PROVE  NoOvertaking(catalog, sought, categories)
<1> DEFINE M == Matches(catalog, sought, categories)
           N == Min({MaxResults, Cardinality(M)})
           found == Search(catalog, sought, categories)
           shown == {found[rank] : rank \in DOMAIN found}
           active == {p \in catalog : p.active /\ p.category \in categories}
           B(p) == Cardinality(Better(p, M, sought))
<1>1. IsCatalog(M)
  BY MatchesCatalog
<1>2. found = Ranked(M, N, sought)
  BY DEF Search, Ranked
<1>3. \A p \in active : p \in M <=> SearchScore(p, sought) > 0
  BY DEF Matches
<1>4. M \subseteq active
  BY DEF Matches
<1> HIDE DEF M, active
<1>5. /\ Cardinality(M) \in Nat /\ N \in Nat /\ N <= MaxResults
      /\ N <= Cardinality(M) /\ (N = MaxResults \/ N = Cardinality(M))
      /\ \A rank \in 1..N : found[rank] \in M /\ B(found[rank]) = rank - 1
      /\ \A p \in M : (\E rank \in 1..N : p = found[rank]) \/ B(p) >= N
  <2> HIDE DEF found
  <2>1. ShowsFirst(found, N, M, sought)
    BY <1>1, <1>2, SearchShows
  <2> HIDE DEF N
  <2>2. QED
    BY <2>1 DEF ShowsFirst
<1>6. DOMAIN found = 1..N
  BY <1>2 DEF Ranked
<1> HIDE DEF found, N
<1>7. \A p \in active \ shown : p \in M => B(p) >= N /\ B(p) \in 0..(Cardinality(M) - 1)
  <2>1. \A p \in M : B(p) \in 0..(Cardinality(M) - 1)
    BY <1>1, RanksTaken
  <2>2. QED
    BY <1>5, <1>6, <2>1
<1>8. ASSUME NEW i \in DOMAIN found, NEW j \in DOMAIN found, i < j
      PROVE  Field(found[i], sought) <= Field(found[j], sought)
  <2>1. /\ found[i] \in M /\ found[j] \in M /\ i \in Nat /\ j \in Nat
        /\ B(found[i]) = i - 1 /\ B(found[j]) = j - 1
    BY <1>5, <1>6
  <2>2. B(found[i]) < B(found[j])
    BY <1>8, <2>1
  <2>3. QED
    BY <1>1, <2>1, <2>2, RankedBefore
<1>9. ASSUME NEW p \in active \ shown, NEW q \in shown
      PROVE  Field(q, sought) <= Field(p, sought)
  <2>1. PICK i \in 1..N : q = found[i]
    BY <1>6
  <2>2. q \in M /\ B(q) = i - 1 /\ i \in Nat /\ i <= N
    BY <1>5, <2>1
  <2>3. CASE p \in M
    <3>1. B(p) >= N /\ B(p) \in Nat
      BY <1>5, <1>7, <2>3
    <3>2. B(q) < B(p)
      BY <1>5, <2>2, <3>1
    <3>3. QED
      BY <1>1, <2>2, <2>3, <3>2, RankedBefore
  <2>4. CASE p \notin M
    <3>1. SearchScore(q, sought) >= SearchScore(p, sought)
      BY <1>3, <1>4, <2>2, <2>4, ScoreByField
    <3>2. QED
      BY <3>1, ScoreKeepsPriority
  <2>5. QED
    BY <2>3, <2>4
<1>10. ASSUME NEW p \in active \ shown, Field(p, sought) # 7
       PROVE  Cardinality(shown) = MaxResults
  <2>1. SearchScore(p, sought) > 0
    <3>1. /\ Field(p, sought) \in 1..7 /\ SearchScore(p, sought) \in Nat
          /\ Field(p, sought) < 6 => SearchScore(p, sought) = 700 - 100 * Field(p, sought)
          /\ Field(p, sought) = 6 => SearchScore(p, sought) \in 1..199
      BY ScoreByField
    <3>2. QED
      BY <1>10, <3>1
  <2>2. p \in M
    BY <1>3, <2>1
  <2>3. N < Cardinality(M)
    BY <1>5, <1>7, <2>2
  <2>4. N = MaxResults
    BY <1>5, <2>3
  <2>5. found \in Bijection(1..N, shown)
    <3>1. found \in [1..N -> shown]
      BY <1>2, <1>6 DEF Ranked
    <3>2. \A i, j \in 1..N : found[i] = found[j] => i = j
      BY <1>5
    <3>3. \A y \in shown : \E i \in 1..N : found[i] = y
      BY <1>6
    <3>4. QED
      BY <3>1, <3>2, <3>3 DEF Bijection, Injection, Surjection, IsInjective
  <2>6. ExistsBijection(1..N, shown)
    BY <2>5 DEF ExistsBijection
  <2>7. IsFiniteSet(1..N) /\ Cardinality(1..N) = N
    BY <1>5, FS_Interval
  <2> HIDE DEF shown
  <2>8. Cardinality(shown) = N
    BY <2>6, <2>7, FS_Bijection
  <2>9. QED
    BY <2>4, <2>8
<1>11. QED
  BY <1>8, <1>9, <1>10 DEF NoOvertaking, active, found

\* The same for the shelves of the run: any that are catalogues.
THEOREM NoFieldOvertaken ==
  ASSUME IsCatalog(shelf), query \in Value
  PROVE  NoneOvertaken
  BY SearchKeepsPriority DEF NoneOvertaken
=============================================================================
