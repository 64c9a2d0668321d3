----------------------------- MODULE MCWebhook -----------------------------
(***************************************************************************)
(* Instances of Webhook for TLC: requests of up to two entries, changes    *)
(* and messages, well-formed and not, and a second request that shares     *)
(* messages with the first.                                                *)
(***************************************************************************)
EXTENDS Webhook

CONSTANTS m1, m2, m3, b1, b2

Text(m) == [form |-> "text", id |-> m]
Media(m) == [form |-> "media", id |-> m]
Bad == [form |-> "malformed", id |-> m1]

BadChange == [form |-> "malformed", messages |-> "absent", statuses |-> "absent", raw |-> <<>>]
OtherChange == [BadChange EXCEPT !.form = "other"]
Change(listed, raw, statuses) ==
  [form |-> "messages", messages |-> listed, statuses |-> statuses, raw |-> raw]
Array(raw) == Change("array", raw, "absent")

Entry(changes) == [form |-> "object", changes |-> changes]
BadEntry == [form |-> "malformed", changes |-> <<>>]
Request(form, entries) == [form |-> form, entries |-> entries]

\* No message, or not a request to act upon.
Barren ==
  {Request(form, <<Entry(<<Array(<<Text(m1)>>)>>)>>) :
     form \in {"oversized", "unsigned", "unreadable", "malformed"}}
  \cup {Request("object", <<>>), Request("object", <<BadEntry, Entry(<<>>)>>)}
  \cup {Request("object", <<Entry(<<Change(listed, <<>>, statuses)>>)>>) :
          listed \in {"absent", "malformed", "array"},
          statuses \in {"absent", "empty", "malformed", "array"}}

\* Messages beside every kind of malformed or ignored part.
Mixed ==
  {Request("object", <<Entry(<<c, Array(<<Bad, Text(m1)>>)>>), BadEntry,
                       Entry(<<Array(<<Media(m2)>>)>>)>>) :
     c \in {BadChange, OtherChange, Array(<<Bad>>), Change("malformed", <<>>, "array")}}
  \cup {Request("object", <<BadEntry, Entry(<<Change("array", <<Text(m1), Bad, Media(m2)>>, s)>>)>>) :
          s \in {"empty", "malformed", "array"}}

\* A message whose id is refused, between two others.
Blocked == Request("object", <<Entry(<<Array(<<Text(m1), Text(m3)>>), Array(<<Media(m2)>>)>>)>>)

Several(raw) == Request("object", <<Entry(<<Array(raw)>>)>>)

\* Each form of the first request beside one that is refused; two requests with
\* the same messages in another order, and a blocked one beside one that shares
\* a message with it.
MCPosted ==
  {b1 :> body @@ b2 :> Request("unsigned", <<>>) : body \in Barren \cup Mixed}
  \cup {b1 :> Several(<<Text(m1), Text(m2)>>) @@ b2 :> Several(<<Text(m2), Text(m1)>>),
        b1 :> Blocked @@ b2 :> Several(<<Text(m1)>>)}
=============================================================================
