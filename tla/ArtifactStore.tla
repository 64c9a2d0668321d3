--------------------------- MODULE ArtifactStore ---------------------------
(***************************************************************************)
(* What the quotation storage promises its callers: a quotation id gets at *)
(* most one PDF, whoever asks for it, and a caller that is told the path   *)
(* finds its own PDF there for good.                                       *)
(***************************************************************************)
CONSTANTS Run, Id, None

VARIABLES
  final,   \* Id -> the run whose PDF it is, or None
  issued   \* Run -> the id whose path it was given, or None

Init ==
  /\ final = [i \in Id |-> None]
  /\ issued = [r \in Run |-> None]

Publish(r, i) ==
  /\ final[i] = None
  /\ final' = [final EXCEPT ![i] = r]
  /\ UNCHANGED issued

Issue(r, i) ==
  /\ final[i] = r
  /\ issued[r] = None
  /\ issued' = [issued EXCEPT ![r] = i]
  /\ UNCHANGED final

Next == \E r \in Run, i \in Id : Publish(r, i) \/ Issue(r, i)

Spec == Init /\ [][Next]_<<final, issued>>
=============================================================================
