---------------------------- MODULE PacketDelivery ----------------------------
(***************************************************************************)
(* What sending a packet promises (spfnet/node.go: Send, cmd/control:      *)
(* sendpacket), seen from the outside: the packet reaches its destination  *)
(* at most once, and who is told "sent" can rely on it having arrived.     *)
(* Who is told of a failure knows nothing: the packet may have arrived, or *)
(* may yet arrive.                                                         *)
(***************************************************************************)
EXTENDS Naturals

CONSTANT Packet

VARIABLES
  asked,      \* the packets somebody has asked to send
  delivered,  \* how often each one was delivered
  answer      \* what each one's sender was told

vars == <<asked, delivered, answer>>

Init ==
  /\ asked = {}
  /\ delivered = [p \in Packet |-> 0]
  /\ answer = [p \in Packet |-> "none"]

Ask(p) ==
  /\ p \notin asked
  /\ asked' = asked \cup {p}
  /\ UNCHANGED <<delivered, answer>>

Deliver(p) ==
  /\ p \in asked
  /\ delivered[p] = 0
  /\ delivered' = [delivered EXCEPT ![p] = 1]
  /\ UNCHANGED <<asked, answer>>

Confirm(p) ==
  /\ answer[p] = "none"
  /\ delivered[p] = 1
  /\ answer' = [answer EXCEPT ![p] = "success"]
  /\ UNCHANGED <<asked, delivered>>

\* Several senders fail together when the process they run in ends.
GiveUp(ps) ==
  /\ \A p \in ps : p \in asked /\ answer[p] = "none"
  /\ answer' = [p \in Packet |-> IF p \in ps THEN "failure" ELSE answer[p]]
  /\ UNCHANGED <<asked, delivered>>

Next ==
  \/ \E p \in Packet : Ask(p) \/ Deliver(p) \/ Confirm(p)
  \/ \E ps \in SUBSET Packet : GiveUp(ps)

Spec == Init /\ [][Next]_vars

=============================================================================
