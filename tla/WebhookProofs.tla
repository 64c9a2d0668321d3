--------------------------- MODULE WebhookProofs ---------------------------
(***************************************************************************)
(* Proofs about Webhook, for every set of requests, overlapping posts and  *)
(* messages: no malformed part hides a message beside it, what is answered *)
(* 200 is complete, and a batch goes in order.                             *)
(***************************************************************************)
EXTENDS Webhook, Induction

-----------------------------------------------------------------------------
(* Flattening a sequence of sequences, which is a recursive function on    *)
(* its positions.                                                          *)

FlatStep(ss, g, i) == IF i = 1 THEN ss[i] ELSE g[i - 1] \o ss[i]
Flats(ss) == CHOOSE g : g = [i \in 1..Len(ss) |-> FlatStep(ss, g, i)]

\* The recursive function FlattenSeq chooses exists: on the first n positions,
\* for every n.
LEMMA FlatsEquation ==
  ASSUME NEW T, NEW ss \in Seq(T)
  PROVE  \A i \in 1..Len(ss) : Flats(ss)[i] = FlatStep(ss, Flats(ss), i)
<1> DEFINE Good(g, n) == \A i \in 1..n : g[i] = FlatStep(ss, g, i)
           N == {n \in Nat : \E g : Good(g, n)}
<1>1. 0 \in N
  OBVIOUS
<1>2. ASSUME NEW n \in Nat, n \in N PROVE n + 1 \in N
  <2>1. PICK g : Good(g, n)
    BY <1>2
  <2>2. PICK h : \A i \in 1..(n + 1) : h[i] = FlatStep(ss, g, i)
    <3>1. \A i \in 1..(n + 1) : [k \in 1..(n + 1) |-> FlatStep(ss, g, k)][i] = FlatStep(ss, g, i)
      OBVIOUS
    <3>2. QED
      BY <3>1
  <2>3. \A i \in 1..n : h[i] = g[i]
    BY <2>1, <2>2
  <2>4. ASSUME NEW i \in 1..(n + 1) PROVE h[i] = FlatStep(ss, h, i)
    <3>1. i # 1 => i - 1 \in 1..n
      OBVIOUS
    <3>2. i # 1 => h[i - 1] = g[i - 1]
      BY <2>3, <3>1
    <3>3. QED
      BY <2>2, <3>2 DEF FlatStep
  <2>5. QED
    BY <2>4
<1>3. Len(ss) \in N
  <2> HIDE DEF N
  <2>1. Nat \subseteq N
    BY <1>1, <1>2, AllNumbers
  <2>2. QED
    BY <2>1
<1>4. PICK g : Good(g, Len(ss))
  BY <1>3
<1> DEFINE h == [i \in 1..Len(ss) |-> FlatStep(ss, g, i)]
<1>5. \A i \in 1..Len(ss) : h[i] = g[i]
  BY <1>4
<1>6. \A i \in 1..Len(ss) : FlatStep(ss, h, i) = FlatStep(ss, g, i)
  <2>1. ASSUME NEW i \in 1..Len(ss), i # 1 PROVE h[i - 1] = g[i - 1]
    <3>1. i - 1 \in 1..Len(ss)
      BY <2>1
    <3> HIDE DEF h
    <3>2. QED
      BY <1>5, <3>1
  <2> HIDE DEF h
  <2>2. QED
    BY <2>1 DEF FlatStep
<1>7. h = [i \in 1..Len(ss) |-> FlatStep(ss, h, i)]
  BY <1>6
<1> HIDE DEF h
<1>8. Flats(ss) = [i \in 1..Len(ss) |-> FlatStep(ss, Flats(ss), i)]
  BY <1>7 DEF Flats
<1>9. QED
  BY <1>8

LEMMA FlattenLast ==
  ASSUME NEW ss, Len(ss) # 0
  PROVE  FlattenSeq(ss) = Flats(ss)[Len(ss)]
BY DEF FlattenSeq, Flats, FlatStep

LEMMA FlattenNone == FlattenSeq(<<>>) = <<>>
BY DEF FlattenSeq

\* The one law of it the rest is proved from.
LEMMA FlattenAppend ==
  ASSUME NEW S, NEW ss \in Seq(Seq(S)), NEW x \in Seq(S)
  PROVE  /\ FlattenSeq(Append(ss, x)) = FlattenSeq(ss) \o x
         /\ FlattenSeq(ss) \in Seq(S)
<1> DEFINE tt == Append(ss, x)
           f == Flats(ss)
           g == Flats(tt)
<1>1. /\ tt \in Seq(Seq(S)) /\ Len(tt) = Len(ss) + 1 /\ Len(ss) \in Nat
      /\ \A i \in 1..Len(ss) : tt[i] = ss[i] /\ ss[i] \in Seq(S)
      /\ tt[Len(ss) + 1] = x
  OBVIOUS
<1> HIDE DEF tt
<1>2. /\ \A i \in 1..Len(ss) : f[i] = FlatStep(ss, f, i)
      /\ \A i \in 1..Len(tt) : g[i] = FlatStep(tt, g, i)
  BY <1>1, FlatsEquation
<1> DEFINE N == {n \in Nat : n \in 1..Len(ss) => f[n] = g[n] /\ f[n] \in Seq(S)}
<1> HIDE DEF f, g
<1>3. Nat \subseteq N
  <2>1. 0 \in N
    OBVIOUS
  <2>2. ASSUME NEW n \in Nat, n \in N PROVE n + 1 \in N
    <3>1. SUFFICES ASSUME n + 1 \in 1..Len(ss)
                   PROVE  f[n + 1] = g[n + 1] /\ f[n + 1] \in Seq(S)
      OBVIOUS
    <3>2. n + 1 \in 1..Len(tt) /\ tt[n + 1] = ss[n + 1] /\ ss[n + 1] \in Seq(S)
      BY <1>1, <3>1
    <3>3. f[n + 1] = FlatStep(ss, f, n + 1) /\ g[n + 1] = FlatStep(tt, g, n + 1)
      BY <1>2, <3>1, <3>2
    <3>4. CASE n = 0
      BY <3>2, <3>3, <3>4 DEF FlatStep
    <3>5. CASE n # 0
      <4>1. n \in 1..Len(ss)
        BY <1>1, <3>1, <3>5
      <4>2. f[n] = g[n] /\ f[n] \in Seq(S)
        BY <2>2, <4>1
      <4>3. n + 1 # 1 /\ (n + 1) - 1 = n
        BY <3>5
      <4>4. f[n + 1] = f[n] \o ss[n + 1] /\ g[n + 1] = g[n] \o tt[n + 1]
        BY <3>3, <4>3 DEF FlatStep
      <4>5. QED
        BY <3>2, <4>2, <4>4
    <3>6. QED
      BY <3>4, <3>5
  <2> HIDE DEF N
  <2>3. QED
    BY <2>1, <2>2, AllNumbers
<1>4. Len(tt) # 0 /\ Len(tt) \in 1..Len(tt)
  BY <1>1
<1>5. FlattenSeq(tt) = g[Len(tt)]
  BY <1>4, FlattenLast DEF g
<1>6. g[Len(tt)] = FlatStep(tt, g, Len(tt))
  BY <1>2, <1>4
<1>7. CASE ss = <<>>
  <2>1. Len(tt) = 1 /\ FlattenSeq(ss) = <<>>
    BY <1>1, <1>7, FlattenNone
  <2>2. FlattenSeq(tt) = x
    BY <1>1, <1>5, <1>6, <2>1, <1>7 DEF FlatStep
  <2>3. <<>> \o x = x /\ <<>> \in Seq(S)
    OBVIOUS
  <2>4. QED
    BY <2>1, <2>2, <2>3 DEF tt
<1>8. CASE ss # <<>>
  <2>1. Len(ss) # 0 /\ Len(ss) \in 1..Len(ss)
    BY <1>1, <1>8
  <2>2. FlattenSeq(ss) = f[Len(ss)]
    BY <2>1, FlattenLast DEF f
  <2>3. f[Len(ss)] = g[Len(ss)] /\ f[Len(ss)] \in Seq(S)
    BY <1>3, <2>1
  <2>4. Len(tt) # 1 /\ Len(tt) - 1 = Len(ss)
    BY <1>1, <2>1
  <2>5. g[Len(tt)] = g[Len(ss)] \o tt[Len(tt)]
    BY <1>6, <2>4 DEF FlatStep
  <2>6. tt[Len(tt)] = x
    BY <1>1
  <2>7. QED
    BY <1>5, <2>2, <2>3, <2>5, <2>6 DEF tt
<1>9. QED
  BY <1>7, <1>8

-----------------------------------------------------------------------------
(* The parser: what process_webhook acts upon is a listing of the places   *)
(* of well-formed messages, from the smallest part to the whole request.   *)

Outcomes == {outcome \in [kind : {"text_message", "unsupported_message", "ignored", "invalid"},
                          message : Message \cup {Nobody}] :
               MessagesOf(outcome) \in Seq(Message)}
MessagesIn(outcomes) == FlattenSeq([i \in DOMAIN outcomes |-> MessagesOf(outcomes[i])])
EachIn(parts) == [i \in DOMAIN parts |-> MessagesIn(parts[i])]

LEMMA IssuesHold ==
  ASSUME NEW kind \in {"ignored", "invalid"}
  PROVE  Issue(kind) \in Outcomes /\ MessagesOf(Issue(kind)) = <<>>
<1>1. <<>> \in Seq(Message)
  OBVIOUS
<1>2. QED
  BY <1>1 DEF Issue, Outcomes, MessagesOf

LEMMA MessagesInNone == MessagesIn(<<>>) = <<>>
<1>1. [i \in DOMAIN <<>> |-> MessagesOf(<<>>[i])] = <<>>
  OBVIOUS
<1>2. QED
  BY <1>1, FlattenNone DEF MessagesIn

\* An outcome more adds its message, if it has one.
LEMMA MessagesInAppend ==
  ASSUME NEW s \in Seq(Outcomes), NEW x \in Outcomes
  PROVE  /\ MessagesIn(Append(s, x)) = MessagesIn(s) \o MessagesOf(x)
         /\ MessagesIn(s) \in Seq(Message)
<1> DEFINE m(t) == [i \in DOMAIN t |-> MessagesOf(t[i])]
<1>1. m(s) \in Seq(Seq(Message))
  <2>1. \A i \in DOMAIN s : MessagesOf(s[i]) \in Seq(Message)
    BY DEF Outcomes
  <2>2. QED
    BY <2>1
<1>2. MessagesOf(x) \in Seq(Message)
  BY DEF Outcomes
<1>3. m(Append(s, x)) = Append(m(s), MessagesOf(x))
  <2>1. /\ Append(s, x) \in Seq(Outcomes) /\ Len(Append(s, x)) = Len(s) + 1 /\ Len(s) \in Nat
        /\ \A i \in 1..Len(s) : Append(s, x)[i] = s[i]
        /\ Append(s, x)[Len(s) + 1] = x
    OBVIOUS
  <2>2. DOMAIN m(Append(s, x)) = 1..(Len(s) + 1)
    BY <2>1
  <2>3. /\ DOMAIN Append(m(s), MessagesOf(x)) = 1..(Len(s) + 1)
        /\ \A i \in 1..Len(s) : Append(m(s), MessagesOf(x))[i] = MessagesOf(s[i])
        /\ Append(m(s), MessagesOf(x))[Len(s) + 1] = MessagesOf(x)
    BY <1>1, <1>2, <2>1
  <2>4. /\ \A i \in 1..Len(s) : m(Append(s, x))[i] = MessagesOf(s[i])
        /\ m(Append(s, x))[Len(s) + 1] = MessagesOf(x)
    BY <2>1, <2>2
  <2>5. m(Append(s, x)) \in Seq(Seq(Message)) /\ Append(m(s), MessagesOf(x)) \in Seq(Seq(Message))
    <3>1. \A i \in DOMAIN Append(s, x) : MessagesOf(Append(s, x)[i]) \in Seq(Message)
      BY <2>1 DEF Outcomes
    <3>2. QED
      BY <1>1, <1>2, <2>1, <3>1
  <2> HIDE DEF m
  <2>6. \A i \in 1..(Len(s) + 1) : m(Append(s, x))[i] = Append(m(s), MessagesOf(x))[i]
    <3>1. \A i \in 1..(Len(s) + 1) : i \in 1..Len(s) \/ i = Len(s) + 1
      BY <2>1
    <3>2. QED
      BY <2>3, <2>4, <3>1
  <2>7. QED
    BY <2>2, <2>3, <2>5, <2>6
<1> HIDE DEF m
<1>4. QED
  BY <1>1, <1>2, <1>3, FlattenAppend DEF MessagesIn, m

LEMMA NothingAfter == \A S : \A s \in Seq(S) : s \o <<>> = s
OBVIOUS

LEMMA MessagesInConcat ==
  ASSUME NEW s \in Seq(Outcomes)
  PROVE  \A t \in Seq(Outcomes) : MessagesIn(s \o t) = MessagesIn(s) \o MessagesIn(t)
<1> DEFINE F == {t \in Seq(Outcomes) : MessagesIn(s \o t) = MessagesIn(s) \o MessagesIn(t)}
<1>0. MessagesIn(s) \in Seq(Message)
  BY MessagesInAppend, IssuesHold
<1>1. <<>> \in F
  <2>1. s \o <<>> = s /\ MessagesIn(s) \o <<>> = MessagesIn(s) /\ <<>> \in Seq(Outcomes)
    BY <1>0, NothingAfter
  <2>2. QED
    BY <2>1, MessagesInNone
<1>2. ASSUME NEW t \in Seq(Outcomes), NEW x \in Outcomes, t \in F PROVE Append(t, x) \in F
  <2>1. s \o Append(t, x) = Append(s \o t, x) /\ s \o t \in Seq(Outcomes)
    OBVIOUS
  <2>2. /\ MessagesIn(Append(s \o t, x)) = MessagesIn(s \o t) \o MessagesOf(x)
        /\ MessagesIn(Append(t, x)) = MessagesIn(t) \o MessagesOf(x)
        /\ MessagesIn(t) \in Seq(Message)
    BY <2>1, MessagesInAppend
  <2>3. MessagesOf(x) \in Seq(Message) /\ Append(t, x) \in Seq(Outcomes)
    BY DEF Outcomes
  <2>4. MessagesIn(s \o t) = MessagesIn(s) \o MessagesIn(t)
    BY <1>2
  <2>5. (MessagesIn(s) \o MessagesIn(t)) \o MessagesOf(x)
          = MessagesIn(s) \o (MessagesIn(t) \o MessagesOf(x))
    BY <1>0, <2>2, <2>3
  <2>6. QED
    BY <2>1, <2>2, <2>3, <2>4, <2>5
<1>3. QED
  <2> HIDE DEF F
  <2>1. Seq(Outcomes) \subseteq F
    BY <1>1, <1>2, AllSequences
  <2>2. QED
    BY <2>1 DEF F

LEMMA MessagesInTypes ==
  ASSUME NEW s \in Seq(Outcomes)
  PROVE  MessagesIn(s) \in Seq(Message)
BY MessagesInAppend, IssuesHold

LEMMA FlattenTypes ==
  ASSUME NEW S, NEW ss \in Seq(Seq(S))
  PROVE  FlattenSeq(ss) \in Seq(S)
<1>1. <<>> \in Seq(S)
  OBVIOUS
<1>2. QED
  BY <1>1, FlattenAppend

LEMMA MakeSequence ==
  ASSUME NEW T, NEW n \in Nat, NEW g \in [1..n -> T]
  PROVE  g \in Seq(T) /\ Len(g) = n
OBVIOUS

LEMMA EachTypes ==
  ASSUME NEW ss \in Seq(Seq(Outcomes))
  PROVE  EachIn(ss) \in Seq(Seq(Message)) /\ Len(EachIn(ss)) = Len(ss)
<1>1. \A i \in 1..Len(ss) : MessagesIn(ss[i]) \in Seq(Message)
  BY MessagesInTypes
<1>2. EachIn(ss) \in [1..Len(ss) -> Seq(Message)] /\ Len(ss) \in Nat
  BY <1>1 DEF EachIn
<1>3. QED
  BY <1>2, MakeSequence

LEMMA EachAppended ==
  ASSUME NEW ss \in Seq(Seq(Outcomes)), NEW s \in Seq(Outcomes)
  PROVE  /\ EachIn(Append(ss, s)) = Append(EachIn(ss), MessagesIn(s))
         /\ EachIn(ss) \in Seq(Seq(Message))
<1>2. EachIn(ss) \in Seq(Seq(Message)) /\ Len(EachIn(ss)) = Len(ss)
  BY EachTypes
<1>3. /\ Append(ss, s) \in Seq(Seq(Outcomes)) /\ Len(Append(ss, s)) = Len(ss) + 1
      /\ Len(ss) \in Nat
      /\ \A i \in 1..Len(ss) : Append(ss, s)[i] = ss[i]
      /\ Append(ss, s)[Len(ss) + 1] = s
  OBVIOUS
<1>4. MessagesIn(s) \in Seq(Message)
  BY MessagesInTypes
<1>5. /\ DOMAIN Append(EachIn(ss), MessagesIn(s)) = 1..(Len(ss) + 1)
      /\ \A i \in 1..Len(ss) : Append(EachIn(ss), MessagesIn(s))[i] = EachIn(ss)[i]
      /\ Append(EachIn(ss), MessagesIn(s))[Len(ss) + 1] = MessagesIn(s)
      /\ Append(EachIn(ss), MessagesIn(s)) \in Seq(Seq(Message))
  BY <1>2, <1>3, <1>4
<1>6. DOMAIN EachIn(Append(ss, s)) = 1..(Len(ss) + 1)
  BY <1>3 DEF EachIn
<1>7. \A i \in 1..(Len(ss) + 1) : EachIn(Append(ss, s))[i] = Append(EachIn(ss), MessagesIn(s))[i]
  <2>1. ASSUME NEW i \in 1..Len(ss)
        PROVE  EachIn(Append(ss, s))[i] = Append(EachIn(ss), MessagesIn(s))[i]
    <3>1. EachIn(Append(ss, s))[i] = MessagesIn(ss[i])
      BY <1>3 DEF EachIn
    <3>2. EachIn(ss)[i] = MessagesIn(ss[i])
      BY DEF EachIn
    <3>3. QED
      BY <1>5, <3>1, <3>2
  <2>2. EachIn(Append(ss, s))[Len(ss) + 1] = MessagesIn(s)
    BY <1>3 DEF EachIn
  <2>3. \A i \in 1..(Len(ss) + 1) : i \in 1..Len(ss) \/ i = Len(ss) + 1
    BY <1>3
  <2>4. QED
    BY <1>5, <2>1, <2>2, <2>3
<1>8. EachIn(Append(ss, s)) \in Seq(Seq(Message))
  BY <1>3, EachTypes
<1>9. EachIn(Append(ss, s)) = Append(EachIn(ss), MessagesIn(s))
  BY <1>5, <1>6, <1>7, <1>8
<1>10. QED
  BY <1>2, <1>9

\* The messages of several outcomes' lists are those of each, one after the
\* other.
LEMMA MessagesInAll ==
  \A ss \in Seq(Seq(Outcomes)) : MessagesIn(FlattenSeq(ss)) = FlattenSeq(EachIn(ss))
<1> DEFINE F == {ss \in Seq(Seq(Outcomes)) : MessagesIn(FlattenSeq(ss)) = FlattenSeq(EachIn(ss))}
<1>1. <<>> \in F
  <2>1. EachIn(<<>>) = <<>> /\ <<>> \in Seq(Seq(Outcomes))
    BY DEF EachIn
  <2>2. QED
    BY <2>1, FlattenNone, MessagesInNone
<1>2. ASSUME NEW ss \in Seq(Seq(Outcomes)), NEW s \in Seq(Outcomes), ss \in F
      PROVE  Append(ss, s) \in F
  <2>1. FlattenSeq(Append(ss, s)) = FlattenSeq(ss) \o s /\ FlattenSeq(ss) \in Seq(Outcomes)
    BY FlattenAppend
  <2>2. MessagesIn(FlattenSeq(ss) \o s) = MessagesIn(FlattenSeq(ss)) \o MessagesIn(s)
    BY <2>1, MessagesInConcat
  <2>3. MessagesIn(s) \in Seq(Message)
    BY MessagesInTypes
  <2>4. FlattenSeq(EachIn(Append(ss, s))) = FlattenSeq(EachIn(ss)) \o MessagesIn(s)
    BY <2>3, EachAppended, FlattenAppend
  <2>5. MessagesIn(FlattenSeq(ss)) = FlattenSeq(EachIn(ss)) /\ Append(ss, s) \in Seq(Seq(Outcomes))
    BY <1>2
  <2>6. QED
    BY <2>1, <2>2, <2>4, <2>5
<1>3. QED
  <2> HIDE DEF F
  <2>1. Seq(Seq(Outcomes)) \subseteq F
    BY <1>1, <1>2, AllSequences
  <2>2. QED
    BY <2>1 DEF F

\* found is the messages at the places of P of the body, in their order.
Lists(found, P, body) ==
  /\ found \in Seq(Message)
  /\ \E place \in [DOMAIN found -> P] :
       /\ \A p \in P : \E n \in DOMAIN found : place[n] = p
       /\ \A n, k \in DOMAIN found : n < k => IsBefore(place[n], place[k])
       /\ \A n \in DOMAIN found : found[n] = MessageAt(body, place[n])

LEMMA ListsNone ==
  ASSUME NEW body
  PROVE  Lists(<<>>, {}, body)
<1>1. <<>> \in Seq(Message) /\ DOMAIN <<>> = {}
  OBVIOUS
<1>2. [n \in {} |-> n] \in [{} -> {}]
  OBVIOUS
<1>3. QED
  BY <1>1, <1>2 DEF Lists

LEMMA ListsOne ==
  ASSUME NEW body, NEW p, MessageAt(body, p) \in Message
  PROVE  Lists(<<MessageAt(body, p)>>, {p}, body)
<1> DEFINE found == <<MessageAt(body, p)>>
           place == [n \in {1} |-> p]
<1>1. found \in Seq(Message) /\ DOMAIN found = {1} /\ found[1] = MessageAt(body, p)
  OBVIOUS
<1>2. place \in [{1} -> {p}] /\ place[1] = p
  OBVIOUS
<1>3. \A n, k \in {1} : ~(n < k)
  OBVIOUS
<1> HIDE DEF found, place
<1>4. Lists(found, {p}, body)
  BY <1>1, <1>2, <1>3 DEF Lists
<1>5. QED
  BY <1>4 DEF found

\* A listing of later places put behind another.
LEMMA ListsBoth ==
  ASSUME NEW body, NEW P, NEW Q, NEW f, NEW g, Lists(f, P, body), Lists(g, Q, body),
         \A p \in P, q \in Q : IsBefore(p, q)
  PROVE  Lists(f \o g, P \cup Q, body)
<1>1. PICK a \in [DOMAIN f -> P] :
        /\ \A p \in P : \E n \in DOMAIN f : a[n] = p
        /\ \A n, k \in DOMAIN f : n < k => IsBefore(a[n], a[k])
        /\ \A n \in DOMAIN f : f[n] = MessageAt(body, a[n])
  BY DEF Lists
<1>2. PICK b \in [DOMAIN g -> Q] :
        /\ \A p \in Q : \E n \in DOMAIN g : b[n] = p
        /\ \A n, k \in DOMAIN g : n < k => IsBefore(b[n], b[k])
        /\ \A n \in DOMAIN g : g[n] = MessageAt(body, b[n])
  BY DEF Lists
<1> DEFINE h == f \o g
           place == [n \in DOMAIN h |-> IF n \in DOMAIN f THEN a[n] ELSE b[n - Len(f)]]
<1>3. f \in Seq(Message) /\ g \in Seq(Message)
  BY DEF Lists
<1>4. /\ h \in Seq(Message) /\ Len(f) \in Nat /\ Len(g) \in Nat
      /\ DOMAIN h = 1..(Len(f) + Len(g)) /\ DOMAIN f = 1..Len(f) /\ DOMAIN g = 1..Len(g)
      /\ \A n \in DOMAIN f : h[n] = f[n]
      /\ \A n \in DOMAIN h \ DOMAIN f : h[n] = g[n - Len(f)]
  BY <1>3
<1> HIDE DEF h
<1>5. \A n \in DOMAIN f : n \in DOMAIN h /\ place[n] = a[n] /\ a[n] \in P
  BY <1>4
<1>6. \A n \in DOMAIN h \ DOMAIN f :
        n - Len(f) \in DOMAIN g /\ place[n] = b[n - Len(f)] /\ b[n - Len(f)] \in Q
  BY <1>4
<1>7. place \in [DOMAIN h -> P \cup Q]
  BY <1>5, <1>6
<1> HIDE DEF place
<1>8. ASSUME NEW p \in P \cup Q PROVE \E n \in DOMAIN h : place[n] = p
  <2>1. CASE p \in P
    BY <1>1, <1>5, <2>1
  <2>2. CASE p \in Q
    <3>1. PICK n \in DOMAIN g : b[n] = p
      BY <1>2, <2>2
    <3>2. n + Len(f) \in DOMAIN h \ DOMAIN f /\ (n + Len(f)) - Len(f) = n
      BY <1>4, <3>1
    <3>3. place[n + Len(f)] = p
      BY <1>6, <3>1, <3>2
    <3>4. QED
      BY <3>2, <3>3
  <2>3. QED
    BY <2>1, <2>2
<1>9. ASSUME NEW n \in DOMAIN h, NEW k \in DOMAIN h, n < k PROVE IsBefore(place[n], place[k])
  <2>1. CASE n \in DOMAIN f /\ k \in DOMAIN f
    BY <1>1, <1>5, <1>9, <2>1
  <2>2. CASE n \in DOMAIN f /\ k \notin DOMAIN f
    BY <1>5, <1>6, <2>2
  <2>3. CASE n \notin DOMAIN f
    <3>1. k \notin DOMAIN f
      BY <1>4, <1>9, <2>3
    <3>2. n - Len(f) < k - Len(f)
      BY <1>4, <1>9
    <3>3. QED
      BY <1>2, <1>6, <2>3, <3>1, <3>2
  <2>4. QED
    BY <2>1, <2>2, <2>3
<1>10. ASSUME NEW n \in DOMAIN h PROVE h[n] = MessageAt(body, place[n])
  <2>1. CASE n \in DOMAIN f
    BY <1>1, <1>4, <1>5, <2>1
  <2>2. CASE n \notin DOMAIN f
    <3>1. n - Len(f) \in DOMAIN g /\ place[n] = b[n - Len(f)] /\ h[n] = g[n - Len(f)]
      BY <1>4, <1>6, <2>2
    <3>2. QED
      BY <1>2, <3>1
  <2>3. QED
    BY <2>1, <2>2
<1>11. Lists(h, P \cup Q, body)
  BY <1>4, <1>7, <1>8, <1>9, <1>10 DEF Lists
<1>12. QED
  BY <1>11 DEF h

\* Listings whose places follow on each other, one after the other.
LEMMA ListsAll ==
  ASSUME NEW body, NEW ss \in Seq(Seq(Message)), NEW Q,
         \A i \in 1..Len(ss) : Lists(ss[i], Q[i], body),
         \A i, k \in 1..Len(ss) : i < k => \A p \in Q[i], q \in Q[k] : IsBefore(p, q)
  PROVE  Lists(FlattenSeq(ss), UNION {Q[i] : i \in 1..Len(ss)}, body)
<1> DEFINE first(n) == [i \in 1..n |-> ss[i]]
           U(n) == UNION {Q[i] : i \in 1..n}
           N == {n \in Nat : n <= Len(ss) => Lists(FlattenSeq(first(n)), U(n), body)}
<1>1. 0 \in N
  <2>1. first(0) = <<>> /\ U(0) = {}
    OBVIOUS
  <2> HIDE DEF first, U
  <2>2. QED
    BY <2>1, FlattenNone, ListsNone
<1>2. ASSUME NEW n \in Nat, n \in N PROVE n + 1 \in N
  <2>1. SUFFICES ASSUME n + 1 <= Len(ss)
                 PROVE  Lists(FlattenSeq(first(n + 1)), U(n + 1), body)
    OBVIOUS
  <2>2. n + 1 \in 1..Len(ss) /\ ss[n + 1] \in Seq(Message)
    BY <2>1
  <2>3. first(n) \in Seq(Seq(Message))
    <3>1. \A i \in 1..n : ss[i] \in Seq(Message)
      BY <2>1
    <3>2. first(n) \in [1..n -> Seq(Message)]
      BY <3>1
    <3> HIDE DEF first
    <3>3. QED
      BY <3>2, MakeSequence
  <2>4. first(n + 1) = Append(first(n), ss[n + 1])
    BY <2>2
  <2>5. U(n + 1) = U(n) \cup Q[n + 1]
    <3>1. 1..(n + 1) = (1..n) \cup {n + 1}
      OBVIOUS
    <3>2. QED
      BY <3>1
  <2>6. \A p \in U(n), q \in Q[n + 1] : IsBefore(p, q)
    <3>1. \A i \in 1..n : i \in 1..Len(ss) /\ i < n + 1
      BY <2>1
    <3>2. QED
      BY <2>2, <3>1
  <2>7. Lists(FlattenSeq(first(n)), U(n), body)
    BY <1>2, <2>1
  <2> HIDE DEF first, U
  <2>8. FlattenSeq(Append(first(n), ss[n + 1])) = FlattenSeq(first(n)) \o ss[n + 1]
    BY <2>2, <2>3, FlattenAppend
  <2>9. Lists(FlattenSeq(first(n)) \o ss[n + 1], U(n) \cup Q[n + 1], body)
    BY <2>2, <2>6, <2>7, ListsBoth
  <2>10. QED
    BY <2>4, <2>5, <2>8, <2>9
<1>3. Len(ss) \in N
  <2> HIDE DEF N
  <2>1. Nat \subseteq N
    BY <1>1, <1>2, AllNumbers
  <2>2. QED
    BY <2>1
<1>4. first(Len(ss)) = ss
  OBVIOUS
<1>5. Lists(FlattenSeq(first(Len(ss))), U(Len(ss)), body)
  <2>1. Len(ss) \in Nat
    OBVIOUS
  <2> HIDE DEF first, U
  <2>2. QED
    BY <1>3, <2>1
<1>6. QED
  BY <1>4, <1>5

LEMMA MessagesInOne ==
  ASSUME NEW x \in Outcomes
  PROVE  <<x>> \in Seq(Outcomes) /\ MessagesIn(<<x>>) = MessagesOf(x)
<1>1. <<>> \in Seq(Outcomes) /\ <<x>> = Append(<<>>, x) /\ <<x>> \in Seq(Outcomes)
  OBVIOUS
<1>2. MessagesIn(Append(<<>>, x)) = MessagesIn(<<>>) \o MessagesOf(x)
  BY <1>1, MessagesInAppend
<1>3. MessagesOf(x) \in Seq(Message) /\ <<>> \o MessagesOf(x) = MessagesOf(x)
  <2>1. MessagesOf(x) \in Seq(Message)
    BY DEF Outcomes
  <2>2. QED
    BY <2>1
<1>4. QED
  BY <1>1, <1>2, <1>3, MessagesInNone

LEMMA IssuesList ==
  ASSUME NEW kind \in {"ignored", "invalid"}
  PROVE  <<Issue(kind)>> \in Seq(Outcomes) /\ MessagesIn(<<Issue(kind)>>) = <<>>
BY IssuesHold, MessagesInOne

\* A raw message is one message, unless it is malformed.
LEMMA OneParsed ==
  ASSUME NEW raw \in RawMessages
  PROVE  /\ ParseMessage(raw) \in Outcomes
         /\ MessagesOf(ParseMessage(raw)) = IF raw.form = "malformed" THEN <<>> ELSE <<raw.id>>
         /\ raw.id \in Message
<1>1. raw.id \in Message /\ raw.form \in {"malformed", "text", "media"}
  BY DEF RawMessages
<1>2. CASE raw.form = "malformed"
  BY <1>1, <1>2, IssuesHold DEF ParseMessage
<1>3. CASE raw.form # "malformed"
  <2>1. PICK kind \in {"text_message", "unsupported_message"} :
          ParseMessage(raw) = [kind |-> kind, message |-> raw.id]
    BY <1>3 DEF ParseMessage
  <2>2. MessagesOf(ParseMessage(raw)) = <<raw.id>> /\ <<raw.id>> \in Seq(Message)
    BY <1>1, <2>1 DEF MessagesOf
  <2>3. ParseMessage(raw) \in [kind : {"text_message", "unsupported_message", "ignored", "invalid"},
                               message : Message \cup {Nobody}]
    BY <1>1, <2>1
  <2>4. ParseMessage(raw) \in Outcomes
    BY <2>2, <2>3 DEF Outcomes
  <2>5. QED
    BY <1>1, <1>3, <2>2, <2>4
<1>4. QED
  BY <1>2, <1>3

\* Statuses hold no message.
LEMMA StatusesParsed ==
  ASSUME NEW change
  PROVE  ParseStatuses(change) \in Seq(Outcomes) /\ MessagesIn(ParseStatuses(change)) = <<>>
<1>1. <<>> \in Seq(Outcomes)
  OBVIOUS
<1>2. \/ ParseStatuses(change) = <<>>
      \/ ParseStatuses(change) = <<Issue("invalid")>>
      \/ ParseStatuses(change) = <<Issue("ignored")>>
  BY DEF ParseStatuses
<1>3. QED
  BY <1>1, <1>2, MessagesInNone, IssuesList

LEMMA ArrayParsed ==
  ASSUME NEW body, NEW e, NEW c, body.entries[e].changes[c] \in Changes,
         body.entries[e].changes[c].messages = "array"
  PROVE  LET change == body.entries[e].changes[c] IN
         /\ ParseMessages(change) \in Seq(Outcomes)
         /\ Lists(MessagesIn(ParseMessages(change)),
                  {<<e, c, i>> : i \in {i \in DOMAIN change.raw : change.raw[i].form # "malformed"}},
                  body)
<1> DEFINE change == body.entries[e].changes[c]
           raw == change.raw
           ss == [i \in 1..Len(raw) |-> MessagesOf(ParseMessage(raw[i]))]
           Q == [i \in 1..Len(raw) |-> IF raw[i].form = "malformed" THEN {} ELSE {<<e, c, i>>}]
           P == {<<e, c, i>> : i \in {i \in DOMAIN raw : raw[i].form # "malformed"}}
<1>1. raw \in Seq(RawMessages)
  BY DEF Changes
<1>2. /\ Len(raw) \in Nat /\ DOMAIN raw = 1..Len(raw)
      /\ \A i \in 1..Len(raw) : raw[i] \in RawMessages
  <2> HIDE DEF raw
  <2>1. QED
    BY <1>1
<1>3. ParseMessages(change) = [i \in 1..Len(raw) |-> ParseMessage(raw[i])]
  BY <1>2 DEF ParseMessages
<1>4. ParseMessages(change) \in Seq(Outcomes)
  <2>1. ParseMessages(change) \in [1..Len(raw) -> Outcomes]
    BY <1>2, <1>3, OneParsed
  <2>2. QED
    BY <1>2, <2>1, MakeSequence
<1>5. MessagesIn(ParseMessages(change)) = FlattenSeq(ss)
  <2>1. [i \in DOMAIN ParseMessages(change) |-> MessagesOf(ParseMessages(change)[i])] = ss
    BY <1>3
  <2>2. QED
    BY <2>1 DEF MessagesIn
<1>6. ss \in Seq(Seq(Message)) /\ Len(ss) = Len(raw)
  <2>1. ss \in [1..Len(raw) -> Seq(Message)]
    <3>1. \A i \in 1..Len(raw) : MessagesOf(ParseMessage(raw[i])) \in Seq(Message)
      BY <1>2, OneParsed DEF Outcomes
    <3>2. QED
      BY <3>1
  <2>2. QED
    BY <1>2, <2>1, MakeSequence
<1>7. ASSUME NEW i \in 1..Len(raw) PROVE Lists(ss[i], Q[i], body)
  <2>1. CASE raw[i].form = "malformed"
    <3>1. ss[i] = <<>> /\ Q[i] = {}
      BY <1>2, <2>1, OneParsed
    <3>2. QED
      BY <3>1, ListsNone
  <2>2. CASE raw[i].form # "malformed"
    <3>1. ss[i] = <<raw[i].id>> /\ Q[i] = {<<e, c, i>>} /\ raw[i].id \in Message
      BY <1>2, <2>2, OneParsed
    <3>2. raw[i].id = MessageAt(body, <<e, c, i>>)
      BY DEF MessageAt
    <3>3. Lists(<<MessageAt(body, <<e, c, i>>)>>, {<<e, c, i>>}, body)
      BY <3>1, <3>2, ListsOne
    <3>4. QED
      BY <3>1, <3>2, <3>3
  <2>3. QED
    BY <2>1, <2>2
<1>8. ASSUME NEW i \in 1..Len(raw), NEW k \in 1..Len(raw), i < k, NEW p \in Q[i], NEW q \in Q[k]
      PROVE  IsBefore(p, q)
  <2>1. p = <<e, c, i>> /\ q = <<e, c, k>>
    BY <1>8
  <2>2. QED
    BY <1>8, <2>1 DEF IsBefore
<1>9. UNION {Q[i] : i \in 1..Len(raw)} = P
  <2>1. ASSUME NEW p, p \in P PROVE p \in UNION {Q[i] : i \in 1..Len(raw)}
    <3>1. PICK i \in 1..Len(raw) : raw[i].form # "malformed" /\ p = <<e, c, i>>
      BY <1>2, <2>1
    <3>2. Q[i] = {<<e, c, i>>}
      BY <3>1
    <3> HIDE DEF Q
    <3>3. QED
      BY <3>1, <3>2
  <2>2. ASSUME NEW i \in 1..Len(raw), NEW p \in Q[i] PROVE p \in P
    <3>1. raw[i].form # "malformed" /\ p = <<e, c, i>>
      BY <2>2
    <3>2. QED
      BY <1>2, <3>1
  <2> HIDE DEF P, Q
  <2>3. QED
    BY <2>1, <2>2
<1>10. Lists(FlattenSeq(ss), P, body)
  <2> HIDE DEF ss, Q, P, raw
  <2>1. Lists(FlattenSeq(ss), UNION {Q[i] : i \in 1..Len(ss)}, body)
    BY <1>6, <1>7, <1>8, ListsAll
  <2>2. QED
    BY <1>6, <1>9, <2>1
<1>11. QED
  BY <1>4, <1>5, <1>10

LEMMA ChangeParsed ==
  ASSUME NEW body, NEW e, NEW c, body.entries[e].changes[c] \in Changes
  PROVE  /\ ParseChange(body.entries[e].changes[c]) \in Seq(Outcomes)
         /\ Lists(MessagesIn(ParseChange(body.entries[e].changes[c])), PlacesIn(body, e, c), body)
<1> DEFINE change == body.entries[e].changes[c]
<1>1. CASE change.form # "messages"
  <2>1. PICK kind \in {"ignored", "invalid"} : ParseChange(change) = <<Issue(kind)>>
    <3>1. change.form = "malformed" \/ change.form = "other"
      BY <1>1 DEF Changes
    <3>2. QED
      BY <3>1 DEF ParseChange
  <2>2. PlacesIn(body, e, c) = {}
    BY <1>1 DEF PlacesIn
  <2>3. QED
    BY <2>1, <2>2, IssuesList, ListsNone
<1>2. CASE change.form = "messages"
  <2> DEFINE all == ParseMessages(change) \o ParseStatuses(change)
  <2>1. /\ ParseMessages(change) \in Seq(Outcomes)
        /\ Lists(MessagesIn(ParseMessages(change)), PlacesIn(body, e, c), body)
    <3>1. CASE change.messages = "array"
      BY <1>2, <3>1, ArrayParsed DEF PlacesIn
    <3>2. CASE change.messages # "array"
      <4>1. PlacesIn(body, e, c) = {}
        BY <3>2 DEF PlacesIn
      <4>2. change.messages = "absent" \/ change.messages = "malformed"
        BY <3>2 DEF Changes
      <4>3. ParseMessages(change) = <<>> \/ ParseMessages(change) = <<Issue("invalid")>>
        BY <4>2 DEF ParseMessages
      <4>4. <<>> \in Seq(Outcomes)
        OBVIOUS
      <4>5. QED
        BY <4>1, <4>3, <4>4, MessagesInNone, IssuesList, ListsNone
    <3>3. QED
      BY <3>1, <3>2
  <2>2. ParseStatuses(change) \in Seq(Outcomes) /\ MessagesIn(ParseStatuses(change)) = <<>>
    BY StatusesParsed
  <2>3. MessagesIn(ParseMessages(change)) \in Seq(Message)
    BY <2>1, MessagesInTypes
  <2>4. all \in Seq(Outcomes) /\ MessagesIn(all) = MessagesIn(ParseMessages(change))
    <3>1. MessagesIn(all) = MessagesIn(ParseMessages(change)) \o <<>>
      BY <2>1, <2>2, MessagesInConcat
    <3>2. QED
      BY <2>1, <2>2, <2>3, <3>1, NothingAfter
  <2>5. ParseChange(change) = IF all = <<>> THEN <<Issue("ignored")>> ELSE all
    BY <1>2 DEF ParseChange
  <2>6. CASE all # <<>>
    BY <2>1, <2>4, <2>5, <2>6
  <2>7. CASE all = <<>>
    <3>1. MessagesIn(ParseMessages(change)) = <<>>
      BY <2>4, <2>7, MessagesInNone
    <3>2. ParseChange(change) = <<Issue("ignored")>>
      BY <2>5, <2>7
    <3>3. QED
      BY <2>1, <3>1, <3>2, IssuesList
  <2>8. QED
    BY <2>6, <2>7
<1>3. QED
  BY <1>1, <1>2

\* What lists the places of each part lists, put together, those of the whole.
LEMMA PartsListed ==
  ASSUME NEW body, NEW ss \in Seq(Seq(Outcomes)), NEW Q,
         \A i \in 1..Len(ss) : Lists(MessagesIn(ss[i]), Q[i], body),
         \A i, k \in 1..Len(ss) : i < k => \A p \in Q[i], q \in Q[k] : IsBefore(p, q)
  PROVE  Lists(MessagesIn(FlattenSeq(ss)), UNION {Q[i] : i \in 1..Len(ss)}, body)
<1>1. EachIn(ss) \in Seq(Seq(Message)) /\ Len(EachIn(ss)) = Len(ss)
  BY EachTypes
<1>2. \A i \in 1..Len(ss) : EachIn(ss)[i] = MessagesIn(ss[i])
  BY DEF EachIn
<1>3. Lists(FlattenSeq(EachIn(ss)), UNION {Q[i] : i \in 1..Len(EachIn(ss))}, body)
  <2>1. \A i \in 1..Len(EachIn(ss)) : Lists(EachIn(ss)[i], Q[i], body)
    BY <1>1, <1>2
  <2>2. \A i, k \in 1..Len(EachIn(ss)) : i < k => \A p \in Q[i], q \in Q[k] : IsBefore(p, q)
    BY <1>1
  <2>3. QED
    BY <1>1, <2>1, <2>2, ListsAll
<1>4. QED
  BY <1>1, <1>3, MessagesInAll

LEMMA PlaceParts ==
  ASSUME NEW body, NEW e, NEW c, NEW p \in PlacesIn(body, e, c)
  PROVE  p[1] = e /\ p[2] = c
<1>1. PICK i : p = <<e, c, i>>
  BY DEF PlacesIn
<1>2. QED
  BY <1>1

EntryPlaces(body, e) ==
  IF body.entries[e].form = "object"
  THEN UNION {PlacesIn(body, e, c) : c \in DOMAIN body.entries[e].changes} ELSE {}

LEMMA EntryParsed ==
  ASSUME NEW body, NEW e, body.entries[e] \in Entries
  PROVE  /\ ParseEntry(body.entries[e]) \in Seq(Outcomes)
         /\ Lists(MessagesIn(ParseEntry(body.entries[e])), EntryPlaces(body, e), body)
<1> DEFINE entry == body.entries[e]
           changes == entry.changes
           ss == [c \in 1..Len(changes) |-> ParseChange(changes[c])]
           Q == [c \in 1..Len(changes) |-> PlacesIn(body, e, c)]
<1>1. changes \in Seq(Changes)
  BY DEF Entries
<1>2. /\ Len(changes) \in Nat /\ DOMAIN changes = 1..Len(changes)
      /\ \A c \in 1..Len(changes) : changes[c] \in Changes
  <2> HIDE DEF changes
  <2>1. QED
    BY <1>1
<1>3. CASE entry.form = "malformed" \/ changes = <<>>
  <2>1. ParseEntry(entry) = <<Issue("invalid")>>
    BY <1>3 DEF ParseEntry
  <2>2. EntryPlaces(body, e) = {}
    <3>1. CASE entry.form = "malformed"
      BY <3>1 DEF EntryPlaces
    <3>2. CASE changes = <<>>
      <4>1. DOMAIN changes = {}
        BY <3>2
      <4>2. QED
        BY <4>1 DEF EntryPlaces
    <3>3. QED
      BY <1>3, <3>1, <3>2
  <2>3. QED
    BY <2>1, <2>2, IssuesList, ListsNone
<1>4. CASE ~(entry.form = "malformed" \/ changes = <<>>)
  <2>1. ParseEntry(entry) = FlattenSeq(ss)
    BY <1>2, <1>4 DEF ParseEntry
  <2>2. \A c \in 1..Len(changes) :
          ParseChange(changes[c]) \in Seq(Outcomes)
          /\ Lists(MessagesIn(ParseChange(changes[c])), PlacesIn(body, e, c), body)
    BY <1>2, ChangeParsed
  <2>3. ss \in Seq(Seq(Outcomes)) /\ Len(ss) = Len(changes)
    <3>1. ss \in [1..Len(changes) -> Seq(Outcomes)]
      BY <2>2
    <3>2. QED
      BY <1>2, <3>1, MakeSequence
  <2>4. \A c \in 1..Len(ss) : Lists(MessagesIn(ss[c]), Q[c], body)
    BY <2>2, <2>3
  <2>5. \A c, k \in 1..Len(ss) : c < k => \A p \in Q[c], q \in Q[k] : IsBefore(p, q)
    BY <2>3, PlaceParts DEF IsBefore
  <2>6. EntryPlaces(body, e) = UNION {Q[c] : c \in 1..Len(ss)}
    <3>1. entry.form = "object"
      BY <1>4 DEF Entries
    <3>2. EntryPlaces(body, e) = UNION {PlacesIn(body, e, c) : c \in 1..Len(changes)}
      BY <1>2, <3>1 DEF EntryPlaces
    <3>3. {PlacesIn(body, e, c) : c \in 1..Len(changes)} = {Q[c] : c \in 1..Len(ss)}
      BY <2>3
    <3>4. QED
      BY <3>2, <3>3
  <2>7. FlattenSeq(ss) \in Seq(Outcomes)
    BY <2>3, FlattenTypes
  <2>8. Lists(MessagesIn(FlattenSeq(ss)), UNION {Q[c] : c \in 1..Len(ss)}, body)
    <3> HIDE DEF ss, Q
    <3>1. QED
      BY <2>3, <2>4, <2>5, PartsListed
  <2>9. QED
    BY <2>1, <2>6, <2>7, <2>8
<1>5. QED
  BY <1>3, <1>4

\* What a request hands to process_webhook is messages, and if it is an object
\* every well-formed one of it, in order, whatever is beside them.
LEMMA Parsed ==
  ASSUME NEW body \in Requests
  PROVE  /\ Actionable(body) \in Seq(Message)
         /\ body.form = "object" => InOrder(Actionable(body), body)
<1> DEFINE entries == body.entries
           ss == [e \in 1..Len(entries) |-> ParseEntry(entries[e])]
           Q == [e \in 1..Len(entries) |-> EntryPlaces(body, e)]
<1>0. Actionable(body) = MessagesIn(Parse(body))
  BY DEF Actionable, MessagesIn
<1>1. entries \in Seq(Entries)
  BY DEF Requests
<1>2. /\ Len(entries) \in Nat /\ DOMAIN entries = 1..Len(entries)
      /\ \A e \in 1..Len(entries) : entries[e] \in Entries
  <2> HIDE DEF entries
  <2>1. QED
    BY <1>1
<1>3. \A e \in 1..Len(entries) :
        ParseEntry(entries[e]) \in Seq(Outcomes)
        /\ Lists(MessagesIn(ParseEntry(entries[e])), EntryPlaces(body, e), body)
  BY <1>2, EntryParsed
<1>4. ss \in Seq(Seq(Outcomes)) /\ Len(ss) = Len(entries)
  <2>1. ss \in [1..Len(entries) -> Seq(Outcomes)]
    BY <1>3
  <2>2. QED
    BY <1>2, <2>1, MakeSequence
<1>5. \A e, k \in 1..Len(ss) : e < k => \A p \in Q[e], q \in Q[k] : IsBefore(p, q)
  <2>1. \A e \in 1..Len(entries) : \A p \in EntryPlaces(body, e) : p[1] = e
    BY PlaceParts DEF EntryPlaces
  <2>2. QED
    BY <1>4, <2>1 DEF IsBefore
<1>6. Lists(MessagesIn(FlattenSeq(ss)), UNION {Q[e] : e \in 1..Len(ss)}, body)
  <2>1. \A e \in 1..Len(ss) : Lists(MessagesIn(ss[e]), Q[e], body)
    BY <1>3, <1>4
  <2> HIDE DEF ss, Q
  <2>2. QED
    BY <1>4, <1>5, <2>1, PartsListed
<1>7. Parse(body) = <<Issue("invalid")>> \/ Parse(body) = FlattenSeq(ss)
  BY <1>2 DEF Parse
<1>8. Parse(body) \in Seq(Outcomes)
  BY <1>4, <1>7, IssuesList, FlattenTypes
<1>9. Places(body) = UNION {Q[e] : e \in 1..Len(ss)}
  <2>1. ASSUME NEW p \in Places(body) PROVE p \in UNION {Q[e] : e \in 1..Len(ss)}
    <3>1. PICK e \in 1..Len(entries) : /\ entries[e].form = "object"
                                       /\ p \in UNION {PlacesIn(body, e, c) : c \in DOMAIN entries[e].changes}
      BY <1>2, <2>1 DEF Places
    <3>2. p \in Q[e]
      BY <3>1 DEF EntryPlaces
    <3>3. QED
      BY <1>4, <3>1, <3>2
  <2>2. ASSUME NEW e \in 1..Len(ss), NEW p \in Q[e] PROVE p \in Places(body)
    <3>1. p \in EntryPlaces(body, e) /\ e \in DOMAIN entries
      BY <1>2, <1>4, <2>2
    <3>2. QED
      BY <3>1 DEF EntryPlaces, Places
  <2> HIDE DEF Q
  <2>3. QED
    BY <2>1, <2>2
<1>10. ASSUME body.form = "object" PROVE InOrder(Actionable(body), body)
  <2>1. Lists(MessagesIn(Parse(body)), Places(body), body)
    <3>1. CASE entries = <<>>
      <4>1. Parse(body) = <<Issue("invalid")>>
        BY <3>1 DEF Parse
      <4>2. Places(body) = {}
        <5>1. DOMAIN entries = {}
          BY <3>1
        <5>2. QED
          BY <5>1 DEF Places
      <4>3. QED
        BY <4>1, <4>2, IssuesList, ListsNone
    <3>2. CASE entries # <<>>
      <4>1. Parse(body) = FlattenSeq(ss)
        BY <1>2, <1>10, <3>2 DEF Parse
      <4>2. QED
        BY <1>6, <1>9, <4>1
    <3>3. QED
      BY <3>1, <3>2
  <2>2. QED
    BY <1>0, <2>1 DEF Lists, InOrder
<1>11. QED
  BY <1>0, <1>8, <1>10, MessagesInTypes
-----------------------------------------------------------------------------
(* The handlers.                                                           *)

\* The messages of a request are those of its body, which Meta does not change
\* when it posts the request again.
RequestSound == messages = [b \in Batch |-> Actionable(payload[b])] /\ payload \in Posted

\* A malformed part hides no message beside it: process_webhook is handed every
\* well-formed message of a request, each once and in the order of the request.
THEOREM NothingIsHidden == Spec => []NothingHidden
<1>1. Init => RequestSound
  BY DEF Init, RequestSound
<1>2. ASSUME RequestSound, [Next]_vars PROVE RequestSound'
  <2>1. UNCHANGED request
    BY <1>2
    DEF Next, Step, vars, Post, Refuse, Receive, RefuseId, PassOver, Busy, Resume, InDoubt,
        Acquire, BeginCall, Delivered, NotAccepted, Failed, Complete, Crash, LeaseExpires,
        OwnerStalls, Expire
  <2>2. QED
    BY <1>2, <2>1 DEF RequestSound, request
<1>3. RequestSound => NothingHidden
  BY PostedAssumption, Parsed DEF RequestSound, NothingHidden
<1>4. QED
  BY <1>1, <1>2, <1>3, PTL DEF Spec

LEMMA DeliveryParts ==
  ASSUME NEW d \in Delivery
  PROVE  d[1] \in Batch /\ d # Nobody
BY NobodyAssumption DEF Delivery

\* Where a handler is, and what it has acknowledged.
HandlersOK ==
  /\ at \in [Delivery -> {"idle", "received", "claim", "process", "call", "finish"}]
  /\ acked \subseteq Batch
  /\ pos \in [Delivery -> Nat]
  /\ \A d \in Delivery :
       IF at[d] \in {"idle", "received"} THEN pos[d] = 1
       ELSE pos[d] \in DOMAIN messages[d[1]]

LEMMA AnswerTypes ==
  ASSUME TypeOK, NEW d \in Delivery, NEW status, Answer(d, status), messages' = messages
  PROVE  HandlersOK'
BY DeliveryParts DEF TypeOK, HandlersOK, Answer, Go

LEMMA NextTypes ==
  ASSUME TypeOK, NEW d \in Delivery, NextMessage(d), messages' = messages,
         at[d] \notin {"idle", "received"}
  PROVE  HandlersOK'
<1>1. CASE pos[d] < Len(messages[d[1]])
  <2>1. messages[d[1]] \in Seq(Message) /\ pos[d] \in DOMAIN messages[d[1]]
    BY DeliveryParts DEF TypeOK
  <2>2. pos[d] + 1 \in DOMAIN messages[d[1]] /\ pos[d] + 1 \in Nat
    BY <1>1, <2>1
  <2>3. pos' = [pos EXCEPT ![d] = pos[d] + 1] /\ Go(d, "claim") /\ acked' = acked
    BY <1>1 DEF NextMessage
  <2>4. \A e \in Delivery : IF at'[e] \in {"idle", "received"} THEN pos'[e] = 1
                            ELSE pos'[e] \in DOMAIN messages'[e[1]]
    BY <2>2, <2>3 DEF TypeOK, Go
  <2>5. QED
    BY <2>2, <2>3, <2>4 DEF TypeOK, HandlersOK, Go
<1>2. CASE ~(pos[d] < Len(messages[d[1]]))
  BY <1>2, AnswerTypes DEF NextMessage
<1>3. QED
  BY <1>1, <1>2

\* The message a handler past the parser is about.
LEMMA CurrentTypes ==
  ASSUME TypeOK, NEW d \in Delivery, at[d] \notin {"idle", "received"}
  PROVE  Current(d) \in Message
<1>1. messages[d[1]] \in Seq(Message) /\ pos[d] \in DOMAIN messages[d[1]]
  BY DeliveryParts DEF TypeOK
<1>2. QED
  BY <1>1 DEF Current

\* The state stays within its types, and a handler past the parser is about a
\* message of its batch.
THEOREM WebhookTypes == Spec => []TypeOK
<1>1. Init => TypeOK
  <2>1. \A bodies \in Posted : \A b \in Batch : Actionable(bodies[b]) \in Seq(Message)
    BY PostedAssumption, Parsed
  <2>2. QED
    BY <2>1, FaultAssumption DEF Init, TypeOK
<1>2. ASSUME TypeOK, [Next]_vars PROVE TypeOK'
  <2>a. ASSUME HandlersOK', UNCHANGED request, faults' = faults \/ Fault,
               stage' \in [Message -> {"open", "uncertain", "delivered", "complete"}],
               owner' \in [Message -> Delivery \cup {Nobody}],
               leased' \in [Message -> BOOLEAN]
        PROVE  TypeOK'
    <3>1. faults' \in Nat
      BY <1>2, <2>a DEF TypeOK, Fault
    <3>2. QED
      BY <1>2, <2>a, <3>1 DEF TypeOK, HandlersOK, request
  <2>1. ASSUME NEW d \in Delivery, Post(d) PROVE TypeOK'
    <3>1. HandlersOK'
      BY <1>2, <2>1 DEF Post, Go, TypeOK, HandlersOK, request
    <3>2. QED
      BY <1>2, <2>1, <3>1, <2>a DEF Post, TypeOK, records
  <2>2. ASSUME NEW d \in Delivery, Refuse(d) \/ RefuseId(d) \/ Busy(d) \/ Failed(d) \/ Crash(d)
        PROVE  TypeOK'
    <3>1. PICK status : Answer(d, status)
      BY <2>2 DEF Refuse, RefuseId, Busy, Failed, Crash
    <3>2. /\ UNCHANGED request /\ UNCHANGED records
          /\ faults' = faults \/ Fault
      BY <2>2 DEF Refuse, RefuseId, Busy, Failed, Crash
    <3>3. HandlersOK'
      BY <1>2, <3>1, <3>2, AnswerTypes DEF request
    <3>4. QED
      BY <1>2, <3>2, <3>3, <2>a DEF TypeOK, records
  <2>3. ASSUME NEW d \in Delivery, Receive(d) PROVE TypeOK'
    <3>1. /\ UNCHANGED request /\ UNCHANGED records /\ faults' = faults
      BY <2>3 DEF Receive
    <3>2. CASE Answer(d, 200) \/ Answer(d, 503)
      <4>1. HandlersOK'
        BY <1>2, <3>1, <3>2, AnswerTypes DEF request
      <4>2. QED
        BY <1>2, <3>1, <4>1, <2>a DEF TypeOK, records
    <3>3. CASE messages[d[1]] # <<>> /\ Go(d, "claim") /\ UNCHANGED <<pos, acked>>
      <4>1. messages[d[1]] \in Seq(Message) /\ pos[d] = 1
        BY <1>2, <2>3, DeliveryParts DEF TypeOK, Receive
      <4>2. 1 \in DOMAIN messages[d[1]]
        BY <3>3, <4>1
      <4>3. HandlersOK'
        BY <1>2, <3>1, <3>3, <4>1, <4>2 DEF TypeOK, HandlersOK, Go, request
      <4>4. QED
        BY <1>2, <3>1, <4>3, <2>a DEF TypeOK, records
    <3>4. QED
      BY <2>3, <3>2, <3>3 DEF Receive
  <2>4. ASSUME NEW d \in Delivery, PassOver(d) \/ Complete(d) PROVE TypeOK'
    <3>1. /\ at[d] \notin {"idle", "received"} /\ NextMessage(d)
          /\ UNCHANGED request /\ faults' = faults
      BY <2>4 DEF PassOver, Complete
    <3>2. HandlersOK'
      BY <1>2, <3>1, NextTypes DEF request
    <3>3. QED
      BY <1>2, <2>4, <3>1, <3>2, <2>a DEF PassOver, Complete, TypeOK, records
  <2>5. ASSUME NEW d \in Delivery, Resume(d) \/ InDoubt(d) PROVE TypeOK'
    <3>1. /\ at[d] = "claim" /\ UNCHANGED request /\ UNCHANGED <<stage, faults>>
          /\ owner' = [owner EXCEPT ![Current(d)] = d]
          /\ leased' = [leased EXCEPT ![Current(d)] = TRUE]
      BY <2>5 DEF Resume, InDoubt, Acquire
    <3>2. HandlersOK'
      <4>1. CASE Resume(d)
        BY <1>2, <3>1, <4>1 DEF Resume, Go, TypeOK, HandlersOK, request
      <4>2. CASE InDoubt(d)
        BY <1>2, <3>1, <4>2, AnswerTypes DEF InDoubt, request
      <4>3. QED
        BY <2>5, <4>1, <4>2
    <3>3. QED
      BY <1>2, <3>1, <3>2, <2>a DEF TypeOK
  <2>6. ASSUME NEW d \in Delivery, BeginCall(d) \/ Delivered(d) \/ NotAccepted(d) PROVE TypeOK'
    <3>1. /\ UNCHANGED request /\ UNCHANGED <<owner, leased>>
          /\ faults' = faults \/ Fault
          /\ \E s \in {"uncertain", "delivered", "open"} :
               stage' = [stage EXCEPT ![Current(d)] = s]
      BY <2>6 DEF BeginCall, Delivered, NotAccepted
    <3>2. HandlersOK'
      <4>1. CASE NotAccepted(d)
        BY <1>2, <3>1, <4>1, AnswerTypes DEF NotAccepted, request
      <4>2. CASE BeginCall(d) \/ Delivered(d)
        BY <1>2, <3>1, <4>2 DEF BeginCall, Delivered, Go, TypeOK, HandlersOK, request
      <4>3. QED
        BY <2>6, <4>1, <4>2
    <3>3. stage' \in [Message -> {"open", "uncertain", "delivered", "complete"}]
      BY <1>2, <3>1 DEF TypeOK
    <3>4. QED
      BY <1>2, <3>1, <3>2, <3>3, <2>a DEF TypeOK
  <2>7. ASSUME NEW m \in Message, LeaseExpires(m) \/ OwnerStalls(m) PROVE TypeOK'
    <3>1. Expire(m) /\ (faults' = faults \/ Fault)
      BY <2>7 DEF LeaseExpires, OwnerStalls
    <3>2. HandlersOK'
      BY <1>2, <3>1 DEF Expire, TypeOK, HandlersOK, request, handlers
    <3>3. QED
      BY <1>2, <3>1, <3>2, <2>a DEF Expire, TypeOK
  <2>8. CASE UNCHANGED vars
    BY <1>2, <2>8 DEF TypeOK, vars, request, records, handlers
  <2>9. QED
    BY <1>2, <2>1, <2>2, <2>3, <2>4, <2>5, <2>6, <2>7, <2>8 DEF Next, Step
<1>3. QED
  BY <1>1, <1>2, PTL DEF Spec
-----------------------------------------------------------------------------
(* The inductive invariant.                                                *)

CompleteStays ==
  \A m \in Message : stage[m] = "complete" => stage'[m] = "complete"

\* How the handler of d moves on in a step.
Moves(d) ==
  \/ UNCHANGED <<pos, acked>>
  \/ \E status : status # 200 /\ Answer(d, status)
  \/ Answer(d, 200) /\ messages[d[1]] = <<>>
  \/ /\ at[d] \notin {"idle", "received"} /\ NextMessage(d)
     /\ stage'[Current(d)] = "complete"

LEMMA MoveSound ==
  ASSUME TypeOK, EarlierComplete, AcknowledgedIsComplete, CompleteStays,
         messages' = messages, NEW d \in Delivery, Moves(d)
  PROVE  EarlierComplete' /\ AcknowledgedIsComplete'
<1>1. \A b \in Batch : \A i \in DOMAIN messages[b] : messages[b][i] \in Message
  BY DEF TypeOK
<1>2. \A e \in Delivery : \A i \in 1 .. pos[e] - 1 :
        /\ messages[e[1]][i] \in Message
        /\ stage'[messages[e[1]][i]] = "complete"
  <2>1. SUFFICES ASSUME NEW e \in Delivery, NEW i \in 1 .. pos[e] - 1
                 PROVE  /\ messages[e[1]][i] \in Message
                        /\ stage'[messages[e[1]][i]] = "complete"
    OBVIOUS
  <2>2. messages[e[1]] \in Seq(Message) /\ pos[e] \in Nat /\ i \in Nat
    BY DeliveryParts DEF TypeOK
  <2>3. pos[e] = 1 \/ pos[e] \in DOMAIN messages[e[1]]
    BY DEF TypeOK
  <2>4. i \in DOMAIN messages[e[1]]
    BY <2>2, <2>3
  <2>5. messages[e[1]][i] \in Message
    BY <2>2, <2>4
  <2>6. QED
    BY <2>5 DEF EarlierComplete, CompleteStays
<1>3. \A b \in acked : \A i \in DOMAIN messages[b] : stage'[messages[b][i]] = "complete"
  BY <1>1 DEF AcknowledgedIsComplete, CompleteStays, TypeOK
<1>4. CASE UNCHANGED <<pos, acked>>
  BY <1>2, <1>3, <1>4 DEF EarlierComplete, AcknowledgedIsComplete
<1>5. CASE \E status : status # 200 /\ Answer(d, status)
  <2>1. pos' = [pos EXCEPT ![d] = 1] /\ acked' = acked
    BY <1>5 DEF Answer
  <2>2. \A e \in Delivery : \A i \in 1 .. pos'[e] - 1 : i \in 1 .. pos[e] - 1
    BY <2>1 DEF TypeOK
  <2>3. QED
    BY <1>2, <1>3, <2>1, <2>2 DEF EarlierComplete, AcknowledgedIsComplete
<1>6. CASE Answer(d, 200) /\ messages[d[1]] = <<>>
  <2>1. pos' = [pos EXCEPT ![d] = 1] /\ acked' = acked \cup {d[1]}
    BY <1>6 DEF Answer
  <2>2. \A e \in Delivery : \A i \in 1 .. pos'[e] - 1 : i \in 1 .. pos[e] - 1
    BY <2>1 DEF TypeOK
  <2>3. QED
    BY <1>2, <1>3, <1>6, <2>1, <2>2 DEF EarlierComplete, AcknowledgedIsComplete
<1>7. CASE /\ at[d] \notin {"idle", "received"} /\ NextMessage(d)
           /\ stage'[Current(d)] = "complete"
  <2>0. /\ messages[d[1]] \in Seq(Message) /\ pos[d] \in DOMAIN messages[d[1]]
        /\ pos[d] \in Nat
    BY <1>7, DeliveryParts DEF TypeOK
  <2>1. \A i \in 1 .. pos[d] : stage'[messages[d[1]][i]] = "complete"
    <3>1. SUFFICES ASSUME NEW i \in 1 .. pos[d]
                   PROVE  stage'[messages[d[1]][i]] = "complete"
      OBVIOUS
    <3>2. CASE i = pos[d]
      BY <1>7, <3>2 DEF Current
    <3>3. CASE i # pos[d]
      <4>1. i \in 1 .. pos[d] - 1
        BY <2>0, <3>3
      <4>2. QED
        BY <1>2, <4>1
    <3>4. QED
      BY <3>2, <3>3
  <2>2. CASE pos[d] < Len(messages[d[1]])
    <3>1. pos' = [pos EXCEPT ![d] = pos[d] + 1] /\ acked' = acked
      BY <1>7, <2>2 DEF NextMessage
    <3>2. \A e \in Delivery : \A i \in 1 .. pos'[e] - 1 :
            i \in 1 .. pos[e] - 1 \/ (e = d /\ i \in 1 .. pos[d])
      BY <3>1, <2>0 DEF TypeOK
    <3>3. QED
      BY <1>2, <1>3, <2>1, <3>1, <3>2 DEF EarlierComplete, AcknowledgedIsComplete
  <2>3. CASE ~(pos[d] < Len(messages[d[1]]))
    <3>1. pos' = [pos EXCEPT ![d] = 1] /\ acked' = acked \cup {d[1]}
      BY <1>7, <2>3 DEF NextMessage, Answer
    <3>2. \A e \in Delivery : \A i \in 1 .. pos'[e] - 1 : i \in 1 .. pos[e] - 1
      BY <3>1 DEF TypeOK
    <3>3. \A i \in DOMAIN messages[d[1]] : i \in 1 .. pos[d]
      BY <2>0, <2>3
    <3>4. QED
      BY <1>2, <1>3, <2>1, <3>1, <3>2, <3>3 DEF EarlierComplete, AcknowledgedIsComplete
  <2>4. QED
    BY <2>2, <2>3
<1>8. QED
  BY <1>4, <1>5, <1>6, <1>7 DEF Moves

\* A step of d leaves the other handlers, and takes no record for them.
LEMMA OwnersKept ==
  ASSUME TypeOK, OwnersAttend, messages' = messages, NEW d \in Delivery,
         \A e \in Delivery : e # d => at'[e] = at[e] /\ pos'[e] = pos[e],
         \A e \in Delivery, m \in Message : e # d /\ owner'[m] = e =>
            owner[m] = e /\ (stage[m] # "complete" => stage'[m] # "complete"),
         Attending(d)' /\ owner'[Current(d)'] = d => stage'[Current(d)'] # "complete"
  PROVE  OwnersAttend'
<1>1. SUFFICES ASSUME NEW e \in Delivery, Attending(e)', owner'[Current(e)'] = e
               PROVE  stage'[Current(e)'] # "complete"
  BY DEF OwnersAttend
<1>2. CASE e = d
  BY <1>1, <1>2
<1>3. CASE e # d
  <2>1. Attending(e) /\ Current(e)' = Current(e)
    BY <1>1, <1>3 DEF Attending, Current
  <2>2. Current(e) \in Message
    BY <2>1, CurrentTypes DEF Attending
  <2>3. QED
    BY <1>1, <1>3, <2>1, <2>2 DEF OwnersAttend
<1>4. QED
  BY <1>2, <1>3

\* A handler that answers or goes on to its next message attends to none.
LEMMA EndsUnattended ==
  ASSUME TypeOK, NEW d \in Delivery,
         (\E status : Answer(d, status)) \/ NextMessage(d)
  PROVE  /\ ~Attending(d)'
         /\ \A e \in Delivery : e # d => at'[e] = at[e] /\ pos'[e] = pos[e]
BY DEF TypeOK, NextMessage, Answer, Go, Attending

\* The invariant holds in every reachable state.
THEOREM SoundBatches == Spec => []BatchSound
<1>1. Init => BatchSound
  BY DEF Init, BatchSound, EarlierComplete, AcknowledgedIsComplete, OwnersAttend, Attending
<1>2. ASSUME TypeOK, BatchSound, [Next]_vars PROVE BatchSound'
  <2>0. TypeOK /\ EarlierComplete /\ AcknowledgedIsComplete /\ OwnersAttend
    BY <1>2 DEF BatchSound
  <2>1. ASSUME NEW d \in Delivery, Post(d) PROVE BatchSound'
    <3>1. /\ UNCHANGED <<messages, stage, owner, pos, acked>> /\ at' = [at EXCEPT ![d] = "received"]
      BY <2>1 DEF Post, Go, request, records
    <3>2. EarlierComplete' /\ AcknowledgedIsComplete'
      BY <2>0, <3>1, MoveSound DEF CompleteStays, Moves
    <3>3. OwnersAttend'
      BY <2>0, <3>1, OwnersKept DEF Attending, TypeOK
    <3>4. QED
      BY <3>2, <3>3 DEF BatchSound
  <2>2. ASSUME NEW d \in Delivery,
               Refuse(d) \/ RefuseId(d) \/ Busy(d) \/ Failed(d) \/ Crash(d)
        PROVE  BatchSound'
    <3>1. /\ UNCHANGED <<messages, stage, owner>>
          /\ \E status : status # 200 /\ Answer(d, status)
      BY <2>2 DEF Refuse, RefuseId, Busy, Failed, Crash, request, records
    <3>2. EarlierComplete' /\ AcknowledgedIsComplete'
      BY <2>0, <3>1, MoveSound DEF CompleteStays, Moves
    <3>3. OwnersAttend'
      BY <2>0, <3>1, EndsUnattended, OwnersKept
    <3>4. QED
      BY <3>2, <3>3 DEF BatchSound
  <2>3. ASSUME NEW d \in Delivery, Receive(d) PROVE BatchSound'
    <3>1. /\ UNCHANGED <<messages, stage, owner>>
          /\ \/ Answer(d, 200) /\ messages[d[1]] = <<>>
             \/ Answer(d, 503)
             \/ Go(d, "claim") /\ UNCHANGED <<pos, acked>>
      BY <2>3 DEF Receive, request, records
    <3>2. EarlierComplete' /\ AcknowledgedIsComplete'
      BY <2>0, <3>1, MoveSound DEF CompleteStays, Moves
    <3>3. /\ ~Attending(d)'
          /\ \A e \in Delivery : e # d => at'[e] = at[e] /\ pos'[e] = pos[e]
      BY <2>0, <3>1, EndsUnattended DEF Go, Attending, TypeOK
    <3>4. OwnersAttend'
      BY <2>0, <3>1, <3>3, OwnersKept
    <3>5. QED
      BY <3>2, <3>4 DEF BatchSound
  <2>4. ASSUME NEW d \in Delivery, PassOver(d) PROVE BatchSound'
    <3>1. /\ UNCHANGED <<messages, stage, owner>>
          /\ at[d] = "claim" /\ stage[Current(d)] = "complete" /\ NextMessage(d)
      BY <2>4 DEF PassOver, request, records
    <3>2. EarlierComplete' /\ AcknowledgedIsComplete'
      BY <2>0, <3>1, MoveSound DEF CompleteStays, Moves
    <3>3. OwnersAttend'
      BY <2>0, <3>1, EndsUnattended, OwnersKept
    <3>4. QED
      BY <3>2, <3>3 DEF BatchSound
  <2>5. ASSUME NEW d \in Delivery, Complete(d) PROVE BatchSound'
    <3>1. /\ messages' = messages /\ at[d] = "finish" /\ NextMessage(d)
          /\ stage' = [stage EXCEPT ![Current(d)] = "complete"]
          /\ owner' = [owner EXCEPT ![Current(d)] = Nobody]
      BY <2>5 DEF Complete, request
    <3>2. Current(d) \in Message
      BY <2>0, <3>1, CurrentTypes
    <3>3. CompleteStays /\ stage'[Current(d)] = "complete"
      BY <2>0, <3>1, <3>2 DEF TypeOK, CompleteStays
    <3>4. EarlierComplete' /\ AcknowledgedIsComplete'
      BY <2>0, <3>1, <3>3, MoveSound DEF Moves
    <3>5. \A e \in Delivery, m \in Message : owner'[m] = e =>
            owner[m] = e /\ (stage[m] # "complete" => stage'[m] # "complete")
      BY <2>0, <3>1, <3>2, DeliveryParts DEF TypeOK
    <3>6. OwnersAttend'
      BY <2>0, <3>1, <3>5, EndsUnattended, OwnersKept
    <3>7. QED
      BY <3>4, <3>6 DEF BatchSound
  <2>6. ASSUME NEW d \in Delivery, Resume(d) \/ InDoubt(d) PROVE BatchSound'
    <3>1. /\ UNCHANGED <<messages, stage>> /\ at[d] = "claim"
          /\ stage[Current(d)] # "complete"
          /\ owner' = [owner EXCEPT ![Current(d)] = d]
      BY <2>6 DEF Resume, InDoubt, Acquire, request
    <3>2. Current(d) \in Message
      BY <2>0, <3>1, CurrentTypes
    <3>3. \A e \in Delivery, m \in Message : e # d /\ owner'[m] = e => owner[m] = e
      BY <2>0, <3>1, <3>2 DEF TypeOK
    <3>4. CASE Resume(d)
      <4>1. UNCHANGED <<pos, acked>> /\ \E place : at' = [at EXCEPT ![d] = place]
        BY <3>4 DEF Resume, Go
      <4>2. EarlierComplete' /\ AcknowledgedIsComplete'
        BY <2>0, <3>1, <4>1, MoveSound DEF CompleteStays, Moves
      <4>3. /\ \A e \in Delivery : e # d => at'[e] = at[e] /\ pos'[e] = pos[e]
            /\ Current(d)' = Current(d)
        BY <2>0, <3>1, <4>1 DEF TypeOK, Current
      <4>4. OwnersAttend'
        BY <2>0, <3>1, <3>3, <4>3, OwnersKept
      <4>5. QED
        BY <4>2, <4>4 DEF BatchSound
    <3>5. CASE InDoubt(d)
      <4>1. Answer(d, 503)
        BY <3>5 DEF InDoubt
      <4>2. EarlierComplete' /\ AcknowledgedIsComplete'
        BY <2>0, <3>1, <4>1, MoveSound DEF CompleteStays, Moves
      <4>3. OwnersAttend'
        BY <2>0, <3>1, <3>3, <4>1, EndsUnattended, OwnersKept
      <4>4. QED
        BY <4>2, <4>3 DEF BatchSound
    <3>6. QED
      BY <2>6, <3>4, <3>5
  <2>7. ASSUME NEW d \in Delivery, BeginCall(d) \/ Delivered(d) \/ NotAccepted(d)
        PROVE  BatchSound'
    <3>1. /\ UNCHANGED <<messages, owner>> /\ Attending(d) /\ owner[Current(d)] = d
          /\ \E s \in {"uncertain", "delivered", "open"} :
               stage' = [stage EXCEPT ![Current(d)] = s]
      BY <2>7 DEF BeginCall, Delivered, NotAccepted, Owns, Attending, request
    <3>2. Current(d) \in Message /\ stage[Current(d)] # "complete"
      BY <2>0, <3>1, CurrentTypes DEF Attending, OwnersAttend
    <3>3. CompleteStays
      BY <2>0, <3>1, <3>2 DEF TypeOK, CompleteStays
    <3>4. \A m \in Message : stage[m] # "complete" => stage'[m] # "complete"
      BY <2>0, <3>1, <3>2 DEF TypeOK
    <3>5. CASE NotAccepted(d)
      <4>1. Answer(d, 503)
        BY <3>5 DEF NotAccepted
      <4>2. EarlierComplete' /\ AcknowledgedIsComplete'
        BY <2>0, <3>1, <3>3, <4>1, MoveSound DEF Moves
      <4>3. OwnersAttend'
        BY <2>0, <3>1, <3>4, <4>1, EndsUnattended, OwnersKept
      <4>4. QED
        BY <4>2, <4>3 DEF BatchSound
    <3>6. CASE BeginCall(d) \/ Delivered(d)
      <4>1. UNCHANGED <<pos, acked>> /\ \E place : at' = [at EXCEPT ![d] = place]
        BY <3>6 DEF BeginCall, Delivered, Go
      <4>2. EarlierComplete' /\ AcknowledgedIsComplete'
        BY <2>0, <3>1, <3>3, <4>1, MoveSound DEF Moves
      <4>3. /\ \A e \in Delivery : e # d => at'[e] = at[e] /\ pos'[e] = pos[e]
            /\ Current(d)' = Current(d)
        BY <2>0, <3>1, <4>1 DEF TypeOK, Current
      <4>4. OwnersAttend'
        BY <2>0, <3>1, <3>2, <3>4, <4>3, OwnersKept
      <4>5. QED
        BY <4>2, <4>4 DEF BatchSound
    <3>7. QED
      BY <2>7, <3>5, <3>6
  <2>8. ASSUME NEW m \in Message, LeaseExpires(m) \/ OwnerStalls(m) PROVE BatchSound'
    BY <2>0, <2>8
    DEF LeaseExpires, OwnerStalls, Expire, request, handlers, BatchSound, EarlierComplete,
        AcknowledgedIsComplete, OwnersAttend, Attending, Current
  <2>9. CASE UNCHANGED vars
    BY <2>0, <2>9
    DEF vars, request, records, handlers, BatchSound, EarlierComplete,
        AcknowledgedIsComplete, OwnersAttend, Attending, Current
  <2>10. QED
    BY <1>2, <2>1, <2>2, <2>3, <2>4, <2>5, <2>6, <2>7, <2>8, <2>9 DEF Next, Step
<1>3. QED
  BY <1>1, <1>2, WebhookTypes, PTL DEF Spec

\* What was answered 200 is complete, every message of it.
THEOREM AcknowledgedAreComplete == Spec => []AcknowledgedIsComplete
<1>1. BatchSound => AcknowledgedIsComplete
  BY DEF BatchSound
<1>2. QED
  BY <1>1, SoundBatches, PTL

\* A message is begun when those before it in its request are complete.
THEOREM BatchesInOrder == Spec => []EarlierComplete
<1>1. BatchSound => EarlierComplete
  BY DEF BatchSound
<1>2. QED
  BY <1>1, SoundBatches, PTL
=============================================================================
