------------------------------ MODULE Forwarding ------------------------------
(***************************************************************************)
(* Packets on their way through the cluster                                *)
(* (internal/route/forward_manager.go, with the ways in: spfnet/node.go,   *)
(* cmd/control/main.go, grpc_server.go: SendPacket).                       *)
(*                                                                         *)
(* A router that forwards a packet calls the next one and waits for its    *)
(* answer, so a packet under way is a chain of calls, one frame per        *)
(* router.  All of them share the sender's deadline, and a caller that     *)
(* gives up does not stop the handlers beyond it: they learn of it later.  *)
(* Each router looks the next hop up in its own table, at the moment it    *)
(* has the packet; tables and node entries change meanwhile.               *)
(***************************************************************************)
EXTENDS Naturals, Sequences, FiniteSets

CONSTANTS
  Node,
  Destination,  \* the routers packets are sent to
  Packet,
  None,         \* no next hop; also the place of a process outside the cluster
  MaxFrames,    \* bound: calls in one chain
  MaxChanges,   \* bound: changes of tables and node entries
  MaxFaults     \* bound: crashes and broken connections

ASSUME ForwardingAssumption ==
  /\ Destination \subseteq Node
  /\ IsFiniteSet(Packet)
  /\ None \notin Node
  /\ MaxFrames \in Nat \ {0} /\ MaxChanges \in Nat /\ MaxFaults \in Nat

VARIABLES
  table,      \* the installed next hop of each router for each destination
  entries,    \* the nodes each router's topology has an entry for
  packet,     \* what was asked: destination, router to start at, with a deadline?
  frames,     \* each packet's chain of calls
  inflight,   \* the chain's last call has been sent and not yet been accepted
  expired,    \* the deadline has passed
  stats,      \* ForwardStats of each router
  delivered,  \* history: how often each packet reached its destination
  broken,     \* history: packets that met a fault
  steady,     \* history: packets whose tables have had no circle and not changed
  changes, faults

asking == <<packet, expired>>
tables == <<table, entries, steady, changes>>
vars == <<asking, tables, frames, inflight, stats, delivered, broken, faults>>

\* A frame is a goroutine: the control tool, ControlServer.SendPacket, the
\* caller of ForwardManager.SendPacket or a HandleIncomingPacket.
Role == {"tool", "control", "sender", "handler"}
Active == {"route", "call", "wait"}
Frame == [role : Role, at : Node \cup {None}, pc : Active \cup {"won", "lost", "gone"}, hop : Node \cup {None}]

Request == [dest : Destination, source : Node, timed : BOOLEAN]
NoRequest == [dest |-> None, source |-> None, timed |-> FALSE]

Counters == [sent : Nat, received : Nat, forwarded : Nat, delivered : Nat, dropped : Nat]
NoStats == [sent |-> 0, received |-> 0, forwarded |-> 0, delivered |-> 0, dropped |-> 0]

\* The control tool and the control service keep no statistics.
Counts(f) == f.role \in {"sender", "handler"}

Begun(p) == frames[p] # <<>>
Last(p) == frames[p][Len(frames[p])]

\* A router never has a route to itself, and a next hop was in its topology
\* when the table was computed.
Tables(n) ==
  {t \in [Destination -> (entries[n] \ {n}) \cup {None}] : n \in Destination => t[n] = None}

\* Some routers pass packets for d round among themselves.
Circle(d) == \E rs \in SUBSET (Node \ {d}) : rs # {} /\ \A n \in rs : table[n][d] \in rs

-----------------------------------------------------------------------------

\* Routers that know each other and have computed their tables, each from its
\* own idea of the links.
Init ==
  /\ entries = [n \in Node |-> Node]
  /\ table \in [Node -> [Destination -> Node \cup {None}]]
  /\ \A n \in Node : table[n] \in Tables(n)
  /\ packet = [p \in Packet |-> NoRequest]
  /\ frames = [p \in Packet |-> <<>>]
  /\ inflight = [p \in Packet |-> FALSE]
  /\ expired = [p \in Packet |-> FALSE]
  /\ stats = [n \in Node |-> NoStats]
  /\ delivered = [p \in Packet |-> 0]
  /\ broken = {} /\ steady = {}
  /\ changes = 0 /\ faults = 0

Ask(p, d, source, timed) ==
  /\ ~Begun(p)
  /\ packet' = [packet EXCEPT ![p] = [dest |-> d, source |-> source, timed |-> timed]]
  /\ steady' = IF Circle(d) THEN steady ELSE steady \cup {p}
  /\ UNCHANGED <<table, entries, expired, delivered, broken, changes, faults>>

\* Send, which gives the packet five seconds, and SendWithContext, whose
\* context need not have a deadline.
SendPacket(p, n, d, timed) ==
  /\ Ask(p, d, n, timed)
  /\ frames' = [frames EXCEPT ![p] = <<[role |-> "sender", at |-> n, pc |-> "route", hop |-> None]>>]
  /\ stats' = [stats EXCEPT ![n].sent = @ + 1]
  /\ UNCHANGED inflight

\* The control tool asks router n to send from router source; ten seconds.
DoSendPacket(p, n, source, d) ==
  /\ Ask(p, d, source, TRUE)
  /\ frames' = [frames EXCEPT ![p] = <<[role |-> "tool", at |-> None, pc |-> "wait", hop |-> n]>>]
  /\ inflight' = [inflight EXCEPT ![p] = TRUE]
  /\ UNCHANGED stats

-----------------------------------------------------------------------------
(* One call in the chain (forwardPacket, HandleIncomingPacket).            *)

At(p, i, pc) == i \in DOMAIN frames[p] /\ frames[p][i].pc = pc

\* forwardPacket returns an error to whoever called it.
Drop(p, i) ==
  /\ frames' = [frames EXCEPT ![p][i].pc = "lost"]
  /\ stats' = IF Counts(frames[p][i]) THEN [stats EXCEPT ![frames[p][i].at].dropped = @ + 1] ELSE stats

\* Mutants of GetRoute: the missing route goes unnoticed; a packet without a
\* route is handed to anybody.
GetRouteUnchecked(p, i) ==
  /\ At(p, i, "route")
  /\ frames' = [frames EXCEPT ![p][i].pc = "call", ![p][i].hop = table[frames[p][i].at][packet[p].dest]]
  /\ UNCHANGED <<asking, tables, stats, inflight, delivered, broken, faults>>

GetRouteOrAny(p, i) ==
  LET n == frames[p][i].at
      hop == table[n][packet[p].dest]
  IN  /\ At(p, i, "route")
      /\ frames' = [frames EXCEPT ![p][i].pc = "call",
                                  ![p][i].hop = IF hop = None THEN CHOOSE m \in Node : m # n ELSE hop]
      /\ UNCHANGED <<asking, tables, stats, inflight, delivered, broken, faults>>

\* The next hop is read from the table of this moment.
GetRoute(p, i) ==
  LET hop == table[frames[p][i].at][packet[p].dest]
  IN  /\ At(p, i, "route")
      /\ IF hop = None THEN Drop(p, i)
         ELSE /\ frames' = [frames EXCEPT ![p][i].pc = "call", ![p][i].hop = hop]
              /\ UNCHANGED stats
      /\ UNCHANGED <<asking, tables, inflight, delivered, broken, faults>>

\* A router may have no entry (any more) for the next hop of its table.
CanReach(f) == Counts(f) => f.hop \in entries[f.at]

\* The call fails before it leaves: no entry, or the deadline has passed.
CallFails(p, i) ==
  /\ At(p, i, "call")
  /\ ~CanReach(frames[p][i]) \/ expired[p]
  /\ Drop(p, i)
  /\ UNCHANGED <<asking, tables, inflight, delivered, broken, faults>>

Call(p, i) ==
  /\ At(p, i, "call")
  /\ CanReach(frames[p][i]) /\ ~expired[p]
  /\ frames' = [frames EXCEPT ![p][i].pc = "wait"]
  /\ inflight' = [inflight EXCEPT ![p] = TRUE]
  /\ UNCHANGED <<asking, tables, stats, delivered, broken, faults>>

\* Who accepts a call: ControlServer.SendPacket, which calls the source, or
\* HandleIncomingPacket, which delivers or forwards.
Accepted(p) ==
  LET n == Last(p).hop
  IN  IF Last(p).role = "tool"
      THEN [role |-> "control", at |-> n, pc |-> "call", hop |-> packet[p].source]
      ELSE [role |-> "handler", at |-> n, pc |-> IF n = packet[p].dest THEN "won" ELSE "route", hop |-> None]

\* The next goroutine starts, even if the caller has given up meanwhile.
Arrive(p) ==
  LET f == Accepted(p)
  IN  /\ inflight[p]
      /\ Len(frames[p]) < MaxFrames
      /\ inflight' = [inflight EXCEPT ![p] = FALSE]
      /\ frames' = [frames EXCEPT ![p] = Append(@, f)]
      /\ stats' = IF ~Counts(f) THEN stats
                  ELSE IF f.pc = "won"
                       THEN [stats EXCEPT ![f.at].received = @ + 1, ![f.at].delivered = @ + 1]
                       ELSE [stats EXCEPT ![f.at].received = @ + 1]
      /\ delivered' = [delivered EXCEPT ![p] = IF f.pc = "won" THEN @ + 1 ELSE @]
      /\ UNCHANGED <<asking, tables, broken, faults>>

\* Mutants of Return: whether the answer was a success is not looked at; an
\* unsuccessful answer is not counted; "forwarded" is answered without success.
ReturnAnything(p, i) ==
  /\ At(p, i, "wait")
  /\ At(p, i + 1, "won") \/ At(p, i + 1, "lost")
  /\ frames' = [frames EXCEPT ![p][i].pc = "won"]
  /\ stats' = IF Counts(frames[p][i]) THEN [stats EXCEPT ![frames[p][i].at].forwarded = @ + 1] ELSE stats
  /\ UNCHANGED <<asking, tables, inflight, delivered, broken, faults>>

ReturnUncounted(p, i) ==
  /\ At(p, i, "wait")
  /\ \/ At(p, i + 1, "won") /\ frames' = [frames EXCEPT ![p][i].pc = "won"]
        /\ stats' = IF Counts(frames[p][i]) THEN [stats EXCEPT ![frames[p][i].at].forwarded = @ + 1] ELSE stats
     \/ At(p, i + 1, "lost") /\ frames' = [frames EXCEPT ![p][i].pc = "lost"] /\ UNCHANGED stats
  /\ UNCHANGED <<asking, tables, inflight, delivered, broken, faults>>

ReturnNotForwarded(p, i) ==
  /\ At(p, i, "wait")
  /\ \/ /\ At(p, i + 1, "won") /\ frames[p][i + 1].at = packet[p].dest
        /\ frames' = [frames EXCEPT ![p][i].pc = "won"]
        /\ stats' = IF Counts(frames[p][i]) THEN [stats EXCEPT ![frames[p][i].at].forwarded = @ + 1] ELSE stats
     \/ At(p, i + 1, "won") /\ frames[p][i + 1].at # packet[p].dest /\ Drop(p, i)
     \/ At(p, i + 1, "lost") /\ Drop(p, i)
  /\ UNCHANGED <<asking, tables, inflight, delivered, broken, faults>>

\* The answer of the next call is passed on.
Return(p, i) ==
  /\ At(p, i, "wait")
  /\ \/ /\ At(p, i + 1, "won")
        /\ frames' = [frames EXCEPT ![p][i].pc = "won"]
        /\ stats' = IF Counts(frames[p][i]) THEN [stats EXCEPT ![frames[p][i].at].forwarded = @ + 1] ELSE stats
     \/ At(p, i + 1, "lost") /\ Drop(p, i)
  /\ UNCHANGED <<asking, tables, inflight, delivered, broken, faults>>

\* Its own caller has returned, which cancels the context of this call.
Cancelled(p, i) == At(p, i - 1, "won") \/ At(p, i - 1, "lost") \/ At(p, i - 1, "gone")

\* The called process has ended, or the call has been lost on the way.
Unanswerable(p, i) == At(p, i + 1, "gone") \/ (i = Len(frames[p]) /\ ~inflight[p])

\* Mutant of GiveUp: the context is not passed on to the call.
GiveUpNever(p, i) ==
  /\ At(p, i, "wait")
  /\ Unanswerable(p, i)
  /\ Drop(p, i)
  /\ UNCHANGED <<asking, tables, inflight, delivered, broken, faults>>

GiveUp(p, i) ==
  /\ At(p, i, "wait")
  /\ expired[p] \/ Cancelled(p, i) \/ Unanswerable(p, i)
  /\ Drop(p, i)
  /\ UNCHANGED <<asking, tables, inflight, delivered, broken, faults>>

Expire(p) ==
  /\ Begun(p) /\ packet[p].timed /\ ~expired[p]
  /\ expired' = [expired EXCEPT ![p] = TRUE]
  /\ UNCHANGED <<packet, tables, frames, inflight, stats, delivered, broken, faults>>

-----------------------------------------------------------------------------
(* The network, the hosts, and what the rest of a router does meanwhile.   *)

Fault == faults < MaxFaults /\ faults' = faults + 1

\* A caller's connection breaks; it cannot know what has become of its call.
Disconnect(p, i) ==
  /\ Fault
  /\ At(p, i, "wait")
  /\ Drop(p, i)
  /\ broken' = broken \cup {p}
  /\ UNCHANGED <<asking, tables, inflight, delivered>>

\* A call is lost before anyone accepts it.
Lose(p) ==
  /\ inflight[p]
  /\ inflight' = [inflight EXCEPT ![p] = FALSE]
  /\ \/ Fault /\ broken' = broken \cup {p}
     \/ Last(p).pc = "lost" /\ UNCHANGED <<faults, broken>>
  /\ UNCHANGED <<asking, tables, frames, stats, delivered>>

Lives(f, n) == f.at = n /\ f.pc \in Active

\* A router's process ends and is started again: it knows only itself.
Crash(n) ==
  /\ Fault
  /\ frames' = [p \in Packet |-> [i \in DOMAIN frames[p] |->
                 IF Lives(frames[p][i], n) THEN [frames[p][i] EXCEPT !.pc = "gone"] ELSE frames[p][i]]]
  /\ broken' = broken \cup {p \in Packet : \E i \in DOMAIN frames[p] : Lives(frames[p][i], n)}
  /\ stats' = [stats EXCEPT ![n] = NoStats]
  /\ table' = [table EXCEPT ![n] = [d \in Destination |-> None]]
  /\ entries' = [entries EXCEPT ![n] = {n}]
  /\ steady' = {}
  /\ UNCHANGED <<asking, inflight, delivered, changes>>

Change == changes < MaxChanges /\ changes' = changes + 1

\* RecomputeRoutes replaces the table under the calls that are under way.
RecomputeRoutes(n, t) ==
  /\ Change
  /\ t \in Tables(n)
  /\ table' = [table EXCEPT ![n] = t]
  /\ steady' = {}
  /\ UNCHANGED <<asking, entries, frames, inflight, stats, delivered, broken, faults>>

\* A node enters or leaves a topology; the table follows later.
UpdateEntries(n, es) ==
  /\ Change
  /\ entries' = [entries EXCEPT ![n] = es]
  /\ UNCHANGED <<asking, table, steady, frames, inflight, stats, delivered, broken, faults>>

-----------------------------------------------------------------------------

Frames == 1..MaxFrames

Begin(p) == \E n \in Node, d \in Destination :
  \/ \E timed \in BOOLEAN : SendPacket(p, n, d, timed)
  \/ \E source \in Node : DoSendPacket(p, n, source, d)

Step(p, i) == GetRoute(p, i) \/ CallFails(p, i) \/ Call(p, i) \/ Return(p, i) \/ GiveUp(p, i)

Fail ==
  \/ \E p \in Packet : Lose(p) \/ \E i \in Frames : Disconnect(p, i)
  \/ \E n \in Node : Crash(n)

Next ==
  \/ \E p \in Packet : Begin(p) \/ Arrive(p) \/ Expire(p) \/ \E i \in Frames : Step(p, i)
  \/ \E n \in Node : \/ \E t \in [Destination -> Node \cup {None}] : RecomputeRoutes(n, t)
                     \/ \E m \in Node \ {n} : \/ UpdateEntries(n, entries[n] \cup {m})
                                              \/ UpdateEntries(n, entries[n] \ {m})
  \/ Fail

\* Goroutines run on, calls arrive where nothing goes wrong, time passes.
Fairness == \A p \in Packet :
  /\ WF_vars(Arrive(p)) /\ WF_vars(Expire(p))
  /\ \A i \in Frames : WF_vars(Step(p, i))

Spec == Init /\ [][Next]_vars /\ Fairness

-----------------------------------------------------------------------------

\* Every variable stays in its domain. Within a chain a call that others wait
\* for has somebody to be passed on to, and only the last call may still be
\* on its way to the next router.
TypeOK ==
  /\ entries \in [Node -> SUBSET Node]
  /\ table \in [Node -> [Destination -> Node \cup {None}]]
  /\ packet \in [Packet -> Request \cup {NoRequest}]
  /\ frames \in [Packet -> Seq(Frame)]
  /\ \A p \in Packet : Len(frames[p]) <= MaxFrames
  /\ inflight \in [Packet -> BOOLEAN]
  /\ expired \in [Packet -> BOOLEAN]
  /\ stats \in [Node -> Counters]
  /\ delivered \in [Packet -> Nat]
  /\ broken \subseteq Packet /\ steady \subseteq Packet
  /\ changes \in 0..MaxChanges /\ faults \in 0..MaxFaults
  /\ \A p \in Packet : \A i \in DOMAIN frames[p] :
       LET f == frames[p][i]
       IN  /\ f.role = "tool" => i = 1 /\ f.pc # "route"
           /\ f.role # "tool" => f.at # None
           /\ f.pc \in {"call", "wait"} => f.hop # None
           /\ i < Len(frames[p]) => f.pc \notin {"route", "call"}

\* The calls router n is occupied with.
Occupied(n) ==
  {x \in Packet \X Frames :
     x[2] \in DOMAIN frames[x[1]] /\ Counts(frames[x[1]][x[2]]) /\ Lives(frames[x[1]][x[2]], n)}

\* What a router has taken on it has forwarded, delivered or dropped, or is
\* still occupied with, whatever order answers, deadlines and broken
\* connections come in. (forward_manager.go: every return of forwardPacket and
\* HandleIncomingPacket counts exactly once.)
PacketsConserved ==
  \A n \in Node :
    stats[n].sent + stats[n].received =
      stats[n].forwarded + stats[n].delivered + stats[n].dropped + Cardinality(Occupied(n))

\* A failure is reported for a packet that did arrive only when the deadline
\* passed or something broke; without them a failure is the truth.
\* (forward_manager.go: forwardPacket passes each answer back unchanged.)
FailureIsHonest ==
  \A p \in Packet :
    delivered[p] > 0 /\ At(p, 1, "lost") => expired[p] \/ p \in broken

\* As long as the tables send no packet for its destination in a circle and
\* none is replaced, no router handles it twice: what circles there are come
\* from tables that disagree, not from forwarding. (forward_manager.go:
\* nothing but the tables decides where a packet goes, VisitedNodes is
\* never looked at.)
LoopsNeedDisagreement ==
  \A p \in steady : \A i, j \in DOMAIN frames[p] :
    Counts(frames[p][i]) /\ Counts(frames[p][j]) /\ frames[p][i].at = frames[p][j].at => i = j

Answer(p) ==
  CASE At(p, 1, "won") -> "success"
    [] At(p, 1, "lost") \/ At(p, 1, "gone") -> "failure"
    [] OTHER -> "none"

Delivery == INSTANCE PacketDelivery WITH
  asked <- {p \in Packet : Begun(p)}, answer <- [p \in Packet |-> Answer(p)]

\* Forwarding hop by hop keeps the promise of sending: at most one delivery,
\* and a success told to the sender, over any number of hops, only after it.
\* (forward_manager.go and grpc_server.go: SendPacket, seen from outside.)
ImplementsDelivery == Delivery!Spec

\* A sender gets an answer: at the deadline at the latest, and without one if
\* the tables stay free of circles. (spfnet/node.go: Send; grpc_server.go:
\* the deadline of SendPacket holds for the whole chain.)
SendsReturn ==
  \A p \in Packet : Begun(p) ~> (Answer(p) # "none" \/ (~packet[p].timed /\ p \notin steady))

=============================================================================
