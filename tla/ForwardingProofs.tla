-------------------------- MODULE ForwardingProofs --------------------------
(***************************************************************************)
(* Forwarding hop by hop keeps what sending a packet promises, for every   *)
(* number of routers, packets, hops and faults.                            *)
(*                                                                         *)
(* The induction is on the chain of calls of one packet.  From a call that *)
(* has won, all later ones have won, so the last of them has delivered; if *)
(* nothing went wrong, the same holds of calls that are lost, so nothing   *)
(* was delivered and nothing is under way.                                 *)
(***************************************************************************)
EXTENDS Forwarding, SequenceTheorems, FiniteSetTheorems, TLAPS

-----------------------------------------------------------------------------
(* The inductive invariant. *)

Domains ==
  /\ entries \in [Node -> SUBSET Node]
  /\ table \in [Node -> [Destination -> Node \cup {None}]]
  /\ packet \in [Packet -> Request \cup {NoRequest}]
  /\ frames \in [Packet -> Seq(Frame)]
  /\ inflight \in [Packet -> BOOLEAN]
  /\ expired \in [Packet -> BOOLEAN]
  /\ stats \in [Node -> Counters]
  /\ delivered \in [Packet -> Nat]
  /\ broken \subseteq Packet /\ steady \subseteq Packet
  /\ changes \in 0..MaxChanges /\ faults \in 0..MaxFaults

\* What TypeOK says of one chain.
Framed(p) ==
  /\ Len(frames[p]) <= MaxFrames
  /\ \A i \in DOMAIN frames[p] :
       /\ frames[p][i].role = "tool" => i = 1 /\ frames[p][i].pc # "route"
       /\ frames[p][i].role # "tool" => frames[p][i].at # None
       /\ frames[p][i].pc = "call" \/ frames[p][i].pc = "wait" => frames[p][i].hop # None
       /\ i < Len(frames[p]) => frames[p][i].pc # "route" /\ frames[p][i].pc # "call"

Idle(pc) == pc = "wait" \/ pc = "lost" \/ pc = "gone"

\* Why it has won, or been lost, and what its last call has to do with it.
Sound(p) ==
  LET n == Len(frames[p])
  IN  /\ Begun(p) => packet[p] \in Request
      /\ \A i, j \in DOMAIN frames[p] : i <= j /\ frames[p][i].pc = "won" => frames[p][j].pc = "won"
      /\ delivered[p] = IF At(p, n, "won") THEN 1 ELSE 0
      /\ inflight[p] => n \in DOMAIN frames[p] /\ Idle(frames[p][n].pc) /\ frames[p][n].hop # None
      /\ \A i \in DOMAIN frames[p] : frames[p][i].pc = "gone" => p \in broken
      /\ ~expired[p] /\ p \notin broken =>
           /\ At(p, n, "wait") => inflight[p]
           /\ \A i, j \in DOMAIN frames[p] :
                frames[p][i].pc = "lost" => ~inflight[p] /\ (i <= j => frames[p][j].pc = "lost")

IInv == Domains /\ \A p \in Packet : Framed(p) /\ Sound(p)

\* The inductive invariant contains the type invariant.
LEMMA Typed == ASSUME IInv PROVE TypeOK
<1>1. \A p \in Packet : \A i \in DOMAIN frames[p] :
         /\ frames[p][i].role = "tool" => i = 1 /\ frames[p][i].pc # "route"
         /\ frames[p][i].role # "tool" => frames[p][i].at # None
         /\ frames[p][i].pc \in {"call", "wait"} => frames[p][i].hop # None
         /\ i < Len(frames[p]) => frames[p][i].pc \notin {"route", "call"}
  BY Zenon DEF IInv, Framed
<1>2. \A p \in Packet : Len(frames[p]) <= MaxFrames
  BY DEF IInv, Framed
<1>3. QED
  BY <1>1, <1>2, Zenon DEF IInv, Domains, TypeOK

-----------------------------------------------------------------------------
(* What the actions do to the chains. *)

LEMMA ChainType ==
  ASSUME frames \in [Packet -> Seq(Frame)], NEW p \in Packet
  PROVE  /\ Len(frames[p]) \in Nat /\ DOMAIN frames[p] = 1..Len(frames[p])
         /\ \A i \in DOMAIN frames[p] : frames[p][i] \in Frame
         /\ Begun(p) <=> Len(frames[p]) > 0
         /\ Begun(p) => Len(frames[p]) \in DOMAIN frames[p]
<1>1. frames[p] \in Seq(Frame)
  OBVIOUS
<1>2. Len(frames[p]) \in Nat /\ DOMAIN frames[p] = 1..Len(frames[p])
  BY <1>1
<1>3. \A i \in DOMAIN frames[p] : frames[p][i] \in Frame
  BY <1>1
<1>4. frames[p] = <<>> <=> Len(frames[p]) = 0
  BY <1>1, EmptySeq
<1>5. QED
  BY <1>2, <1>3, <1>4 DEF Begun

\* One frame changes, and nothing else does.
Moved(p, i, f) ==
  /\ frames' \in [Packet -> Seq(Frame)]
  /\ \A q \in Packet \ {p} : frames'[q] = frames[q]
  /\ Len(frames'[p]) = Len(frames[p]) /\ DOMAIN frames'[p] = DOMAIN frames[p]
  /\ \A j \in DOMAIN frames[p] : frames'[p][j] = IF j = i THEN f ELSE frames[p][j]

\* One chain grows.
Extended(p, f) ==
  /\ frames' \in [Packet -> Seq(Frame)]
  /\ \A q \in Packet \ {p} : frames'[q] = frames[q]
  /\ Len(frames'[p]) = Len(frames[p]) + 1
  /\ DOMAIN frames'[p] = 1..(Len(frames[p]) + 1)
  /\ \A j \in DOMAIN frames[p] : frames'[p][j] = frames[p][j]
  /\ frames'[p][Len(frames[p]) + 1] = f

LEMMA MovedBy ==
  ASSUME frames \in [Packet -> Seq(Frame)], NEW p \in Packet, NEW i \in DOMAIN frames[p], NEW f \in Frame,
         frames' = [frames EXCEPT ![p] = [frames[p] EXCEPT ![i] = f]]
  PROVE  Moved(p, i, f)
<1> DEFINE c == [frames[p] EXCEPT ![i] = f]
<1>1. c \in Seq(Frame) /\ Len(c) = Len(frames[p])
  BY ExceptSeq
<1>2. DOMAIN c = DOMAIN frames[p] /\ \A j \in DOMAIN frames[p] : c[j] = IF j = i THEN f ELSE frames[p][j]
  OBVIOUS
<1>3. \A q \in Packet : frames'[q] = IF q = p THEN c ELSE frames[q]
  OBVIOUS
<1> HIDE DEF c
<1>4. frames' \in [Packet -> Seq(Frame)]
  BY <1>1
<1>5. QED
  BY <1>1, <1>2, <1>3, <1>4 DEF Moved

LEMMA ExtendedBy ==
  ASSUME frames \in [Packet -> Seq(Frame)], NEW p \in Packet, NEW f \in Frame,
         frames' = [frames EXCEPT ![p] = Append(frames[p], f)]
  PROVE  Extended(p, f)
<1> DEFINE c == Append(frames[p], f)
<1>1. /\ c \in Seq(Frame) /\ Len(c) = Len(frames[p]) + 1
      /\ \A j \in DOMAIN frames[p] : c[j] = frames[p][j]
      /\ c[Len(frames[p]) + 1] = f
  BY AppendProperties
<1>2. \A q \in Packet : frames'[q] = IF q = p THEN c ELSE frames[q]
  OBVIOUS
<1> HIDE DEF c
<1>3. frames' \in [Packet -> Seq(Frame)]
  BY <1>1
<1>4. DOMAIN frames'[p] = 1..Len(frames'[p])
  BY <1>3
<1>5. QED
  BY <1>1, <1>2, <1>3, <1>4 DEF Extended

\* A chain of one.
LEMMA StartedBy ==
  ASSUME frames \in [Packet -> Seq(Frame)], NEW p \in Packet, NEW f \in Frame, ~Begun(p),
         frames' = [frames EXCEPT ![p] = <<f>>]
  PROVE  Extended(p, f)
<1>1. <<f>> = Append(frames[p], f)
  BY DEF Begun
<1>2. QED
  BY <1>1, ExtendedBy

\* A step to another place.
To(f, pc) == [f EXCEPT !.pc = pc]

LEMMA ToType ==
  ASSUME NEW f \in Frame, NEW pc \in Active \cup {"won", "lost", "gone"}
  PROVE  /\ To(f, pc) \in Frame
         /\ To(f, pc).role = f.role /\ To(f, pc).at = f.at /\ To(f, pc).hop = f.hop
         /\ To(f, pc).pc = pc
  BY DEF To, Frame

\* The failure of a call: the caller's caller is told, and it is counted.
LEMMA DropMoves ==
  ASSUME frames \in [Packet -> Seq(Frame)], NEW p \in Packet, NEW i \in DOMAIN frames[p], Drop(p, i)
  PROVE  Moved(p, i, To(frames[p][i], "lost"))
<1>1. frames[p][i] \in Frame
  BY ChainType
<1>2. frames' = [frames EXCEPT ![p] = [frames[p] EXCEPT ![i] = To(frames[p][i], "lost")]]
  BY DEF Drop, To
<1>3. QED
  BY <1>1, <1>2, MovedBy, ToType DEF Active

-----------------------------------------------------------------------------
(* The statistics stay numbers. *)

\* A frame that counts runs on a router.
LEMMA CountsAt ==
  ASSUME IInv, NEW p \in Packet, NEW i \in DOMAIN frames[p], Counts(frames[p][i])
  PROVE  frames[p][i].at \in Node
<1>1. frames[p][i] \in Frame
  BY ChainType DEF IInv, Domains
<1>2. frames[p][i].at \in Node \cup {None}
  BY <1>1 DEF Frame
<1>3. frames[p][i].role # "tool"
  BY DEF Counts
<1>4. frames[p][i].at # None
  BY <1>3 DEF IInv, Framed
<1>5. QED
  BY <1>2, <1>4

LEMMA CountersUp ==
  ASSUME NEW s \in [Node -> Counters], NEW n \in Node
  PROVE  /\ [s EXCEPT ![n].sent = @ + 1] \in [Node -> Counters]
         /\ [s EXCEPT ![n].received = @ + 1] \in [Node -> Counters]
         /\ [s EXCEPT ![n].received = @ + 1, ![n].delivered = @ + 1] \in [Node -> Counters]
         /\ [s EXCEPT ![n].forwarded = @ + 1] \in [Node -> Counters]
         /\ [s EXCEPT ![n].dropped = @ + 1] \in [Node -> Counters]
         /\ [s EXCEPT ![n] = NoStats] \in [Node -> Counters]
<1>1. /\ s[n] \in Counters /\ NoStats \in Counters
      /\ \A c \in Counters : [s EXCEPT ![n] = c] \in [Node -> Counters]
  BY DEF Counters, NoStats
<1>2. \A c \in Counters, k \in Nat :
        /\ [c EXCEPT !.sent = k] \in Counters
        /\ [c EXCEPT !.received = k] \in Counters
        /\ [c EXCEPT !.forwarded = k] \in Counters
        /\ [c EXCEPT !.delivered = k] \in Counters
        /\ [c EXCEPT !.dropped = k] \in Counters
  BY DEF Counters
<1>3. /\ s[n].sent + 1 \in Nat /\ s[n].received + 1 \in Nat /\ s[n].forwarded + 1 \in Nat
      /\ s[n].delivered + 1 \in Nat /\ s[n].dropped + 1 \in Nat
  BY <1>1 DEF Counters
<1>4. [s EXCEPT ![n].received = @ + 1, ![n].delivered = @ + 1]
        = [s EXCEPT ![n] = [[s[n] EXCEPT !.received = s[n].received + 1] EXCEPT !.delivered = s[n].delivered + 1]]
  BY <1>1 DEF Counters
<1>5. [s EXCEPT ![n].received = @ + 1, ![n].delivered = @ + 1] \in [Node -> Counters]
  BY <1>1, <1>2, <1>3, <1>4
<1>6. QED
  BY <1>1, <1>2, <1>3, <1>5

LEMMA DropCounts ==
  ASSUME IInv, NEW p \in Packet, NEW i \in DOMAIN frames[p], Drop(p, i)
  PROVE  stats' \in [Node -> Counters]
<1>1. stats \in [Node -> Counters]
  BY DEF IInv, Domains
<1>2. CASE Counts(frames[p][i])
  BY <1>1, <1>2, CountsAt, CountersUp DEF Drop
<1>3. CASE ~Counts(frames[p][i])
  BY <1>1, <1>3 DEF Drop
<1>4. QED
  BY <1>2, <1>3

-----------------------------------------------------------------------------
(* What a step may do to a chain. *)

\* Nothing.
Untouched(p) ==
  /\ frames'[p] = frames[p] /\ packet'[p] = packet[p] /\ inflight'[p] = inflight[p]
  /\ expired'[p] = expired[p] /\ delivered'[p] = delivered[p]
  /\ p \in broken' <=> p \in broken

LEMMA UntouchedStays ==
  ASSUME NEW p \in Packet, Framed(p), Sound(p), Untouched(p)
  PROVE  Framed(p)' /\ Sound(p)'
  BY DEF Untouched, Framed, Sound, Begun, At, Idle

\* A call goes on, or its failure is certain.
LEMMA MoveStays ==
  ASSUME IInv, NEW p \in Packet, NEW i \in DOMAIN frames[p], NEW f \in Frame, Moved(p, i, f),
         frames[p][i].pc = "route" \/ frames[p][i].pc = "call" \/ frames[p][i].pc = "wait",
         f.role = frames[p][i].role, f.at = frames[p][i].at,
         packet'[p] = packet[p], expired'[p] = expired[p], delivered'[p] = delivered[p],
         p \in broken => p \in broken',
         \/ f.pc = "call" /\ frames[p][i].pc = "route" /\ f.hop # None /\ inflight'[p] = inflight[p]
         \/ f.pc = "wait" /\ frames[p][i].pc = "call" /\ f.hop # None /\ inflight'[p] = TRUE
         \/ f.pc = "won" /\ frames[p][i].pc = "wait" /\ At(p, i + 1, "won") /\ inflight'[p] = inflight[p]
         \/ /\ f.pc = "lost" /\ f.hop = frames[p][i].hop /\ inflight'[p] = inflight[p]
            /\ ~expired[p] /\ p \notin broken' =>
                 ~inflight[p] /\ \A j \in DOMAIN frames[p] : j > i => frames[p][j].pc = "lost"
  PROVE  Framed(p)' /\ Sound(p)'
<1> DEFINE n == Len(frames[p])
<1>1. n \in Nat /\ DOMAIN frames[p] = 1..n /\ i \in 1..n /\ n \in DOMAIN frames[p] /\ Begun(p)
  BY ChainType DEF IInv, Domains
<1>2. Framed(p) /\ Sound(p)
  BY DEF IInv
<1>3. /\ Len(frames'[p]) = n /\ DOMAIN frames'[p] = DOMAIN frames[p]
      /\ \A j \in DOMAIN frames[p] : frames'[p][j] = IF j = i THEN f ELSE frames[p][j]
  BY DEF Moved
<1>4. Framed(p)'
  BY <1>1, <1>2, <1>3 DEF Framed
<1>5. packet'[p] \in Request
  BY <1>1, <1>2 DEF Sound
<1>6. \A j, k \in DOMAIN frames'[p] : j <= k /\ frames'[p][j].pc = "won" => frames'[p][k].pc = "won"
  BY <1>1, <1>2, <1>3 DEF Sound, At
<1>7. At(p, n, "won")' <=> At(p, n, "won")
  BY <1>1, <1>2, <1>3 DEF At, Sound
<1>8. ASSUME inflight'[p]
      PROVE  Idle(frames'[p][n].pc) /\ frames'[p][n].hop # None
  <2>1. CASE i < n
    <3>1. frames[p][i].pc # "route" /\ frames[p][i].pc # "call"
      BY <1>1, <1>2, <2>1 DEF Framed
    <3>2. inflight[p]
      BY <1>8, <3>1
    <3>3. Idle(frames[p][n].pc) /\ frames[p][n].hop # None
      BY <1>2, <3>2 DEF Sound
    <3>4. frames'[p][n] = frames[p][n]
      BY <1>1, <1>3, <2>1
    <3>5. QED
      BY <3>3, <3>4
  <2>2. CASE i = n /\ f.pc = "wait"
    BY <1>1, <1>3, <2>2 DEF Idle
  <2>3. CASE i = n /\ f.pc = "lost"
    <3>1. inflight[p] /\ f.hop = frames[p][n].hop
      BY <1>8, <2>3
    <3>2. QED
      BY <1>1, <1>2, <1>3, <2>3, <3>1 DEF Sound, Idle
  <2>4. i = n => f.pc # "call"
    BY <1>1, <1>2, <1>8 DEF Sound, Idle
  <2>5. i = n => f.pc # "won"
    BY <1>1 DEF At
  <2>6. i < n \/ i = n
    BY <1>1
  <2>7. f.pc = "call" \/ f.pc = "wait" \/ f.pc = "won" \/ f.pc = "lost"
    OBVIOUS
  <2> HIDE DEF n
  <2>8. QED
    BY <2>1, <2>2, <2>3, <2>4, <2>5, <2>6, <2>7
<1>9. inflight'[p] => n \in DOMAIN frames'[p] /\ Idle(frames'[p][n].pc) /\ frames'[p][n].hop # None
  BY <1>1, <1>3, <1>8
<1>10. \A j \in DOMAIN frames'[p] : frames'[p][j].pc = "gone" => p \in broken'
  BY <1>1, <1>2, <1>3 DEF Sound
<1>11. ASSUME ~expired'[p], p \notin broken'
       PROVE  /\ At(p, n, "wait")' => inflight'[p]
              /\ \A j, k \in DOMAIN frames'[p] :
                   frames'[p][j].pc = "lost" => ~inflight'[p] /\ (j <= k => frames'[p][k].pc = "lost")
  <2>1. ~expired[p] /\ p \notin broken
    BY <1>11
  <2>2. /\ At(p, n, "wait") => inflight[p]
        /\ \A j, k \in DOMAIN frames[p] :
             frames[p][j].pc = "lost" => ~inflight[p] /\ (j <= k => frames[p][k].pc = "lost")
    BY <1>2, <2>1 DEF Sound
  <2>3. CASE f.pc = "lost"
    <3>1. ~inflight[p] /\ inflight'[p] = inflight[p]
      BY <1>11, <2>1, <2>3
    <3>2. \A j \in DOMAIN frames[p] : j > i => frames[p][j].pc = "lost"
      BY <1>11, <2>1, <2>3
    <3>3. ~At(p, n, "wait")'
      BY <1>1, <1>3, <2>2, <2>3, <3>1 DEF At
    <3>4. QED
      BY <1>1, <1>3, <2>2, <2>3, <3>1, <3>2, <3>3
  <2>4. CASE f.pc # "lost"
    <3>1. \A j \in DOMAIN frames[p] : frames[p][j].pc = "lost" => j > i
      BY <1>1, <2>2
    <3>2. \A j \in DOMAIN frames[p] : frames[p][j].pc # "lost"
      <4>1. f.pc = "call" => i = n
        BY <1>1, <1>2 DEF Framed
      <4>2. f.pc = "wait" => i = n
        BY <1>1, <1>2 DEF Framed
      <4>3. f.pc = "won" => \A j \in DOMAIN frames[p] : j > i => frames[p][j].pc = "won"
        BY <1>1, <1>2 DEF Sound, At
      <4>4. f.pc = "call" \/ f.pc = "wait" \/ f.pc = "won"
        BY <2>4
      <4>5. QED
        BY <1>1, <3>1, <4>1, <4>2, <4>3, <4>4
    <3>3. \A j \in DOMAIN frames'[p] : frames'[p][j].pc # "lost"
      BY <1>3, <2>4, <3>2
    <3>4. At(p, n, "wait")' => inflight'[p]
      <4>1. CASE f.pc = "wait"
        BY <4>1
      <4>2. CASE f.pc # "wait"
        <5>1. At(p, n, "wait")' => At(p, n, "wait")
          BY <1>1, <1>3, <4>2 DEF At
        <5>2. At(p, n, "wait") => inflight'[p]
          BY <2>2, <2>4, <4>2
        <5>3. QED
          BY <5>1, <5>2
      <4>3. QED
        BY <4>1, <4>2
    <3>5. QED
      BY <3>3, <3>4
  <2>5. QED
    BY <2>3, <2>4
<1>12. QED
  BY <1>3, <1>4, <1>5, <1>6, <1>7, <1>9, <1>10, <1>11, <1>2 DEF Sound, Begun, At

\* The call that was under way is accepted, or a chain begins.
LEMMA ExtensionStays ==
  ASSUME IInv, NEW p \in Packet, NEW f \in Frame, Extended(p, f), Len(frames[p]) < MaxFrames,
         Begun(p) => inflight[p] /\ f.role # "tool",
         f.role = "tool" => f.pc # "route", f.role # "tool" => f.at # None,
         \/ f.pc = "route" /\ inflight'[p] = FALSE
         \/ f.pc = "call" /\ f.hop # None /\ inflight'[p] = FALSE
         \/ f.pc = "wait" /\ f.hop # None /\ inflight'[p] = TRUE
         \/ f.pc = "won" /\ inflight'[p] = FALSE,
         packet'[p] \in Request, expired'[p] = expired[p], p \in broken' <=> p \in broken,
         delivered'[p] = IF f.pc = "won" THEN delivered[p] + 1 ELSE delivered[p]
  PROVE  Framed(p)' /\ Sound(p)'
<1> DEFINE n == Len(frames[p])
<1>1. n \in Nat /\ DOMAIN frames[p] = 1..n /\ (n > 0 => Begun(p)) /\ MaxFrames \in Nat
  BY ChainType, ForwardingAssumption DEF IInv, Domains
<1>2. Framed(p) /\ Sound(p)
  BY DEF IInv
<1>3. /\ Len(frames'[p]) = n + 1 /\ DOMAIN frames'[p] = 1..(n + 1)
      /\ \A j \in 1..n : frames'[p][j] = frames[p][j]
      /\ frames'[p][n + 1] = f
  BY <1>1 DEF Extended
<1>4. n > 0 => inflight[p] /\ Idle(frames[p][n].pc)
  <2>1. inflight[p] => Idle(frames[p][n].pc)
    BY <1>2 DEF Sound
  <2>2. n > 0 => inflight[p]
    BY <1>1, Zenon
  <2>3. QED
    BY <2>1, <2>2, Zenon
<1>5. \A j \in 1..n : frames[p][j].pc # "won"
  BY <1>1, <1>2, <1>4 DEF Sound, Idle
<1>6. \A j \in 1..n : ~expired[p] /\ p \notin broken => frames[p][j].pc # "lost"
  BY <1>1, <1>2, <1>4 DEF Sound
<1>7. Framed(p)'
  <2>1. ASSUME NEW i \in 1..n
        PROVE  /\ frames'[p][i].role = "tool" => i = 1 /\ frames'[p][i].pc # "route"
               /\ frames'[p][i].role # "tool" => frames'[p][i].at # None
               /\ frames'[p][i].pc \in {"call", "wait"} => frames'[p][i].hop # None
               /\ frames'[p][i].pc \notin {"route", "call"}
    <3>1. frames'[p][i] = frames[p][i] /\ i \in DOMAIN frames[p] /\ (i = n \/ i < n)
      BY <1>1, <1>3
    <3>2. i = n => frames[p][i].pc \notin {"route", "call"}
      BY <1>1, <1>4 DEF Idle
    <3>3. QED
      BY <1>2, <3>1, <3>2 DEF Framed
  <2>2. /\ f.role = "tool" => n + 1 = 1 /\ f.pc # "route"
        /\ f.role # "tool" => f.at # None
        /\ f.pc \in {"call", "wait"} => f.hop # None
    <3>1. f.role = "tool" => n = 0
      BY <1>1
    <3>2. QED
      BY <1>1, <3>1
  <2>3. \A i \in 1..(n + 1) : i \in 1..n \/ (i = n + 1 /\ ~(i < n + 1))
    BY <1>1
  <2>4. n + 1 <= MaxFrames
    BY <1>1
  <2> HIDE DEF n
  <2>5. QED
    BY <1>3, <2>1, <2>2, <2>3, <2>4 DEF Framed
<1>8. delivered[p] = 0
  <2>1. delivered[p] = IF At(p, n, "won") THEN 1 ELSE 0
    BY <1>2 DEF Sound
  <2>2. ~At(p, n, "won")
    BY <1>1, <1>5 DEF At
  <2>3. QED
    BY <2>1, <2>2
<1>9. \A j, k \in 1..(n + 1) : j <= k /\ frames'[p][j].pc = "won" => frames'[p][k].pc = "won"
  <2>1. \A j \in 1..n : frames'[p][j].pc # "won"
    BY <1>3, <1>5
  <2>2. \A j, k \in 1..(n + 1) : j <= k => j \in 1..n \/ k = j
    BY <1>1
  <2> HIDE DEF n
  <2>3. QED
    BY <2>1, <2>2
<1>10. inflight'[p] => Idle(f.pc) /\ f.hop # None
  BY DEF Idle
<1>11. \A j \in 1..(n + 1) : frames'[p][j].pc = "gone" => p \in broken'
  <2>1. \A j \in 1..n : frames'[p][j].pc = "gone" => p \in broken'
    BY <1>1, <1>2, <1>3 DEF Sound
  <2>2. f.pc # "gone"
    OBVIOUS
  <2>3. QED
    BY <1>1, <1>3, <2>1, <2>2
<1>12. ~expired'[p] /\ p \notin broken' =>
         /\ f.pc = "wait" => inflight'[p]
         /\ \A j \in 1..(n + 1) : frames'[p][j].pc # "lost"
  <2>1. f.pc = "wait" => inflight'[p]
    OBVIOUS
  <2>2. f.pc # "lost"
    OBVIOUS
  <2>3. ~expired'[p] /\ p \notin broken' => \A j \in 1..n : frames'[p][j].pc # "lost"
    BY <1>3, <1>6
  <2>4. \A j \in 1..(n + 1) : j \in 1..n \/ j = n + 1
    BY <1>1
  <2>5. QED
    BY <1>3, <2>1, <2>2, <2>3, <2>4
<1>13. n + 1 \in 1..(n + 1)
  BY <1>1
<1> HIDE DEF n
<1>14. QED
  BY <1>3, <1>7, <1>8, <1>9, <1>10, <1>11, <1>12, <1>13 DEF Sound, Begun, At

-----------------------------------------------------------------------------
(* What a step looks like from outside. *)

Seen == [Delivery!Next]_(Delivery!vars)

LEMMA Answers ==
  ASSUME NEW p
  PROVE  /\ At(p, 1, "won") => Answer(p) = "success"
         /\ At(p, 1, "lost") => Answer(p) = "failure"
         /\ At(p, 1, "gone") => Answer(p) = "failure"
         /\ ~At(p, 1, "won") /\ ~At(p, 1, "lost") /\ ~At(p, 1, "gone") => Answer(p) = "none"
  BY DEF Answer, At

LEMMA AnswersNext ==
  ASSUME NEW p
  PROVE  /\ At(p, 1, "won")' => Answer(p)' = "success"
         /\ At(p, 1, "lost")' => Answer(p)' = "failure"
         /\ At(p, 1, "gone")' => Answer(p)' = "failure"
         /\ ~At(p, 1, "won")' /\ ~At(p, 1, "lost")' /\ ~At(p, 1, "gone")' => Answer(p)' = "none"
  BY DEF Answer, At

\* What the sender sees of a chain that does not change.
LEMMA SameSeen ==
  ASSUME NEW p, frames'[p] = frames[p]
  PROVE  (Begun(p)' <=> Begun(p)) /\ Answer(p)' = Answer(p)
  BY DEF Begun, Answer, At

LEMMA NothingSeen ==
  ASSUME \A p \in Packet : (Begun(p)' <=> Begun(p)) /\ Answer(p)' = Answer(p), UNCHANGED delivered
  PROVE  Seen
<1>1. {p \in Packet : Begun(p)}' = {p \in Packet : Begun(p)}
  OBVIOUS
<1>2. [p \in Packet |-> Answer(p)]' = [p \in Packet |-> Answer(p)]
  OBVIOUS
<1>3. QED
  BY <1>1, <1>2 DEF Seen, Delivery!vars

\* Those whose calls ended without an answer give up together.
LEMMA FailuresSeen ==
  ASSUME NEW ps \in SUBSET Packet, UNCHANGED delivered,
         \A p \in Packet : Begun(p)' <=> Begun(p),
         \A p \in ps : Begun(p) /\ Answer(p) = "none" /\ Answer(p)' = "failure",
         \A p \in Packet \ ps : Answer(p)' = Answer(p)
  PROVE  Seen
<1>1. {p \in Packet : Begun(p)}' = {p \in Packet : Begun(p)}
  OBVIOUS
<1>2. Delivery!GiveUp(ps)
  BY <1>1 DEF Delivery!GiveUp
<1>3. QED
  BY <1>2 DEF Seen, Delivery!Next

\* A sender hears only of its own call, the first of the chain.
LEMMA MoveSeen ==
  ASSUME IInv, NEW p \in Packet, NEW i \in DOMAIN frames[p], NEW f \in Frame, Moved(p, i, f),
         frames[p][i].pc = "route" \/ frames[p][i].pc = "call" \/ frames[p][i].pc = "wait",
         f.pc = "call" \/ f.pc = "wait" \/ f.pc = "lost" \/ (f.pc = "won" /\ delivered[p] = 1),
         UNCHANGED delivered
  PROVE  Seen
<1>1. /\ Begun(p) /\ Len(frames[p]) > 0 /\ DOMAIN frames[p] = 1..Len(frames[p]) /\ Len(frames[p]) \in Nat
      /\ Begun(p)'
  <2>1. Begun(p) /\ Len(frames[p]) > 0 /\ DOMAIN frames[p] = 1..Len(frames[p]) /\ Len(frames[p]) \in Nat
    BY ChainType DEF IInv, Domains
  <2>2. frames'[p] # <<>>
    BY <2>1 DEF Moved
  <2>3. QED
    BY <2>1, <2>2 DEF Begun
<1>2. \A q \in Packet \ {p} : (Begun(q)' <=> Begun(q)) /\ Answer(q)' = Answer(q)
  BY SameSeen DEF Moved
<1>3. \A q \in Packet : Begun(q)' <=> Begun(q)
  BY <1>1, <1>2
<1>4. CASE i # 1
  <2>1. 1 \in DOMAIN frames[p] /\ 1 \in DOMAIN frames'[p] /\ frames'[p][1] = frames[p][1]
    BY <1>1, <1>4 DEF Moved
  <2>2. Answer(p)' = Answer(p)
    BY <2>1 DEF Answer, At
  <2>3. QED
    BY <1>2, <1>3, <2>2, NothingSeen
<1>5. CASE i = 1
  <2>1. Answer(p) = "none"
    BY <1>5, Answers DEF At
  <2>2. At(p, 1, f.pc)' /\ frames'[p][1].pc = f.pc
    BY <1>1, <1>5 DEF At, Moved
  <2>3. CASE f.pc = "lost"
    BY <1>1, <1>2, <1>3, <2>1, <2>2, <2>3, AnswersNext, FailuresSeen
  <2>4. CASE f.pc = "won"
    <3>1. Answer(p)' = "success"
      BY <2>2, <2>4, AnswersNext
    <3>2. {q \in Packet : Begun(q)}' = {q \in Packet : Begun(q)}
      BY <1>3
    <3>3. [q \in Packet |-> Answer(q)]' = [[q \in Packet |-> Answer(q)] EXCEPT ![p] = "success"]
      BY <1>2, <3>1
    <3>4. Delivery!Confirm(p)
      BY <2>1, <2>4, <3>2, <3>3 DEF Delivery!Confirm
    <3>5. QED
      BY <3>4 DEF Seen, Delivery!Next
  <2>5. CASE f.pc = "call" \/ f.pc = "wait"
    <3>1. Answer(p)' = "none"
      BY <2>2, <2>5, AnswersNext DEF At
    <3>2. QED
      BY <1>2, <1>3, <2>1, <3>1, NothingSeen
  <2>6. QED
    BY <2>3, <2>4, <2>5
<1>6. QED
  BY <1>4, <1>5

\* A chain that begins is a request; one that reaches the destination, a
\* delivery, the first there is.
LEMMA ExtensionSeen ==
  ASSUME IInv, NEW p \in Packet, NEW f \in Frame, Extended(p, f),
         f.pc = "route" \/ f.pc = "call" \/ f.pc = "wait" \/ f.pc = "won",
         Begun(p) => inflight[p], ~Begun(p) => f.pc # "won",
         delivered' = [delivered EXCEPT ![p] = IF f.pc = "won" THEN @ + 1 ELSE @]
  PROVE  Seen
<1>1. Sound(p) /\ Domains /\ delivered[p] \in Nat
  BY DEF IInv, Domains
<1>2. /\ Len(frames[p]) \in Nat /\ DOMAIN frames[p] = 1..Len(frames[p])
      /\ Begun(p) <=> Len(frames[p]) > 0
  BY <1>1, ChainType DEF Domains
<1>3. Begun(p)'
  BY <1>2 DEF Extended, Begun
<1>4. \A q \in Packet \ {p} : (Begun(q)' <=> Begun(q)) /\ Answer(q)' = Answer(q)
  BY SameSeen DEF Extended
<1>5. CASE ~Begun(p)
  <2>1. Answer(p) = "none"
    BY <1>2, <1>5, Answers DEF At
  <2>2. frames'[p][1] = f /\ f.pc # "won"
    BY <1>2, <1>5 DEF Extended
  <2>3. Answer(p)' = "none"
    BY <2>2, AnswersNext DEF At
  <2>4. [q \in Packet |-> Answer(q)]' = [q \in Packet |-> Answer(q)]
    BY <1>4, <2>1, <2>3
  <2>5. {q \in Packet : Begun(q)}' = {q \in Packet : Begun(q)} \cup {p}
    BY <1>3, <1>4
  <2>6. delivered' = delivered
    BY <1>1, <2>2 DEF Domains
  <2>7. Delivery!Ask(p)
    BY <1>5, <2>4, <2>5, <2>6 DEF Delivery!Ask
  <2>8. QED
    BY <2>7 DEF Seen, Delivery!Next
<1>6. CASE Begun(p)
  <2>1. Answer(p)' = Answer(p)
    BY <1>2, <1>6 DEF Extended, Answer, At
  <2>2. \A q \in Packet : (Begun(q)' <=> Begun(q)) /\ Answer(q)' = Answer(q)
    BY <1>3, <1>4, <1>6, <2>1
  <2>3. CASE f.pc # "won"
    <3>1. delivered' = delivered
      BY <1>1, <2>3 DEF Domains
    <3>2. QED
      BY <2>2, <3>1, NothingSeen
  <2>4. CASE f.pc = "won"
    <3>1. delivered[p] = 0
      BY <1>1, <1>6 DEF Sound, Idle, At
    <3>2. [q \in Packet |-> Answer(q)]' = [q \in Packet |-> Answer(q)]
      BY <2>2
    <3>3. {q \in Packet : Begun(q)}' = {q \in Packet : Begun(q)}
      BY <2>2
    <3>4. delivered' = [delivered EXCEPT ![p] = 1]
      BY <1>1, <2>4, <3>1 DEF Domains
    <3>5. Delivery!Deliver(p)
      BY <1>6, <3>1, <3>2, <3>3, <3>4 DEF Delivery!Deliver
    <3>6. QED
      BY <3>5 DEF Seen, Delivery!Next
  <2>5. QED
    BY <2>3, <2>4
<1>7. QED
  BY <1>5, <1>6

-----------------------------------------------------------------------------
(* Packets whose tables have had no circle and have not changed. *)

\* Every router on its way has passed the packet on to where its table, still
\* the same, says; only the tool and the control service come before them.
Straight(p) ==
  LET d == packet[p].dest
      c == frames[p]
  IN  /\ Begun(p) /\ ~Circle(d) /\ d \in Destination
      /\ \A i, j \in DOMAIN c : i <= j /\ Counts(c[i]) => Counts(c[j])
      /\ \A i \in DOMAIN c : Counts(c[i]) /\ c[i].hop # None => c[i].hop = table[c[i].at][d]
      /\ \A i \in DOMAIN c : Counts(c[i]) /\ i < Len(c) => c[i].hop # None /\ c[i + 1].at = c[i].hop

NoSelfRoute == \A d \in Destination : table[d][d] = None

Undisturbed == NoSelfRoute /\ \A p \in steady : Straight(p)

Keeps == Undisturbed => Undisturbed'

LEMMA SameStraight ==
  ASSUME NEW p, Straight(p), frames'[p] = frames[p], packet'[p] = packet[p], table' = table
  PROVE  Straight(p)'
  BY DEF Straight, Circle, Counts, Begun

\* A call that goes on keeps to the table.
LEMMA MoveKeeps ==
  ASSUME IInv, NEW p \in Packet, NEW i \in DOMAIN frames[p], NEW f \in Frame, Moved(p, i, f),
         f.role = frames[p][i].role, f.at = frames[p][i].at, UNCHANGED <<packet, table, steady>>,
         \/ f.hop = frames[p][i].hop
         \/ i = Len(frames[p]) /\ f.hop = table[f.at][packet[p].dest]
  PROVE  Keeps
<1> SUFFICES ASSUME Undisturbed PROVE Undisturbed'
  BY DEF Keeps
<1>1. ASSUME NEW q \in steady', q # p PROVE Straight(q)'
  BY <1>1, SameStraight DEF Undisturbed, Moved, IInv, Domains
<1>2. ASSUME p \in steady' PROVE Straight(p)'
  <2> DEFINE d == packet[p].dest
             n == Len(frames[p])
  <2>1. Straight(p) /\ n \in Nat /\ DOMAIN frames[p] = 1..n
    BY <1>2, ChainType DEF Undisturbed, IInv, Domains
  <2>2. /\ Len(frames'[p]) = n /\ DOMAIN frames'[p] = 1..n
        /\ \A j \in 1..n : frames'[p][j] = IF j = i THEN f ELSE frames[p][j]
    BY <2>1 DEF Moved
  <2>3. ~Circle(d)' /\ d' = d /\ d \in Destination
    BY <2>1 DEF Straight, Circle
  <2>4. \A j \in 1..n : /\ Counts(frames'[p][j]) <=> Counts(frames[p][j])
                        /\ frames'[p][j].at = frames[p][j].at
                        /\ j < n => frames'[p][j].hop = frames[p][j].hop
    BY <2>1, <2>2 DEF Counts
  <2>5. \A j, k \in 1..n : j <= k /\ Counts(frames'[p][j]) => Counts(frames'[p][k])
    BY <2>1, <2>4 DEF Straight
  <2>6. \A j \in 1..n : Counts(frames'[p][j]) /\ frames'[p][j].hop # None =>
                          frames'[p][j].hop = table'[frames'[p][j].at][d]
    <3> TAKE j \in 1..n
    <3>1. CASE j = i
      BY <2>1, <2>2, <2>4, <3>1 DEF Straight
    <3>2. CASE j # i
      BY <2>1, <2>2, <2>4, <3>2 DEF Straight
    <3>3. QED
      BY <3>1, <3>2
  <2>7. \A j \in 1..n : Counts(frames'[p][j]) /\ j < n =>
                          frames'[p][j].hop # None /\ frames'[p][j + 1].at = frames'[p][j].hop
    <3> TAKE j \in 1..n
    <3>1. j < n => j + 1 \in 1..n
      BY <2>1
    <3>2. QED
      BY <2>1, <2>4, <3>1 DEF Straight
  <2>8. Begun(p)'
    BY <2>1, <2>2 DEF Begun
  <2> HIDE DEF n
  <2>9. QED
    BY <2>2, <2>3, <2>5, <2>6, <2>7, <2>8 DEF Straight
<1>3. NoSelfRoute'
  BY DEF Undisturbed, NoSelfRoute
<1>4. QED
  BY <1>1, <1>2, <1>3 DEF Undisturbed

\* A chain that grows continues where its last router points; one that
\* begins has a source nobody points at yet.
LEMMA ExtensionKeeps ==
  ASSUME IInv, NEW p \in Packet, NEW f \in Frame, Extended(p, f),
         f.hop = None \/ ~Counts(f),
         ~Begun(p) => packet'[p].dest \in Destination /\ (p \in steady' => p \in steady \/ ~Circle(packet[p].dest)'),
         Begun(p) => /\ packet' = packet /\ (p \in steady' => p \in steady)
                     /\ f.at = frames[p][Len(frames[p])].hop /\ f.at # None
                     /\ Counts(frames[p][Len(frames[p])]) => Counts(f),
         \A q \in Packet \ {p} : packet'[q] = packet[q] /\ (q \in steady' => q \in steady),
         UNCHANGED table, steady' \subseteq Packet
  PROVE  Keeps
<1> SUFFICES ASSUME Undisturbed PROVE Undisturbed'
  BY DEF Keeps
<1>1. ASSUME NEW q \in steady', q # p PROVE Straight(q)'
  BY <1>1, SameStraight DEF Undisturbed, Extended
<1>2. ASSUME p \in steady' PROVE Straight(p)'
  <2> DEFINE d == packet[p].dest
             n == Len(frames[p])
  <2>1. n \in Nat /\ DOMAIN frames[p] = 1..n /\ (Begun(p) <=> n > 0)
    BY ChainType DEF IInv, Domains
  <2>2. /\ Len(frames'[p]) = n + 1 /\ DOMAIN frames'[p] = 1..(n + 1)
        /\ \A j \in 1..n : frames'[p][j] = frames[p][j]
        /\ frames'[p][n + 1] = f
    BY <2>1 DEF Extended
  <2>3. Begun(p)'
    BY <2>1, <2>2 DEF Begun
  <2>4. CASE ~Begun(p)
    <3>1. n = 0 /\ ~Circle(packet[p].dest)' /\ packet'[p].dest \in Destination
      BY <1>2, <2>1, <2>4 DEF Undisturbed, Straight
    <3>2. Len(frames'[p]) = 1 /\ DOMAIN frames'[p] = {1} /\ frames'[p][1] = f
      BY <2>2, <3>1
    <3>3. QED
      BY <3>1, <3>2, <2>3 DEF Straight
  <2>5. CASE Begun(p)
    <3>1. Straight(p) /\ packet' = packet /\ n \in 1..n
      BY <1>2, <2>1, <2>5 DEF Undisturbed
    <3>2. ~Circle(d)' /\ d' = d /\ d \in Destination
      BY <3>1 DEF Straight, Circle
    <3>3. \A j, k \in 1..(n + 1) : j <= k /\ Counts(frames'[p][j]) => Counts(frames'[p][k])
      <4>1. \A j \in 1..n : Counts(frames[p][j]) => Counts(frames[p][n])
        BY <2>1, <3>1 DEF Straight
      <4>2. \A j \in 1..n : Counts(frames[p][j]) => Counts(f)
        BY <2>5, <4>1
      <4>3. \A j, k \in 1..n : j <= k /\ Counts(frames[p][j]) => Counts(frames[p][k])
        BY <2>1, <3>1 DEF Straight
      <4> HIDE DEF n
      <4>4. QED
        BY <2>1, <2>2, <4>2, <4>3
    <3>4. \A j \in 1..(n + 1) : Counts(frames'[p][j]) /\ frames'[p][j].hop # None =>
                                  frames'[p][j].hop = table'[frames'[p][j].at][d]
      <4> TAKE j \in 1..(n + 1)
      <4>1. CASE j \in 1..n
        BY <2>1, <2>2, <3>1, <4>1 DEF Straight
      <4>2. CASE j = n + 1
        BY <2>2, <4>2
      <4>3. QED
        BY <2>1, <4>1, <4>2
    <3>5. \A j \in 1..(n + 1) : Counts(frames'[p][j]) /\ j < n + 1 =>
                                  frames'[p][j].hop # None /\ frames'[p][j + 1].at = frames'[p][j].hop
      <4> TAKE j \in 1..(n + 1)
      <4>1. CASE j < n
        <5>1. j \in 1..n /\ j + 1 \in 1..n
          BY <2>1, <4>1
        <5>2. QED
          BY <2>1, <2>2, <3>1, <4>1, <5>1 DEF Straight
      <4>2. CASE j = n
        BY <2>1, <2>2, <2>5, <4>2
      <4>3. QED
        BY <2>1, <4>1, <4>2
    <3> HIDE DEF n
    <3>6. QED
      BY <2>2, <2>3, <3>2, <3>3, <3>4, <3>5 DEF Straight
  <2>6. QED
    BY <2>4, <2>5
<1>3. NoSelfRoute'
  BY DEF Undisturbed, NoSelfRoute
<1>4. QED
  BY <1>1, <1>2, <1>3 DEF Undisturbed

\* Whatever else changes a table ends the matter.
LEMMA QuietKeeps ==
  ASSUME \/ UNCHANGED <<packet, frames, table>> /\ steady' \subseteq steady
         \/ steady' = {} /\ (NoSelfRoute => NoSelfRoute')
  PROVE  Keeps
  BY SameStraight DEF Keeps, Undisturbed, NoSelfRoute

\* A packet that comes round again has been passed round a circle.
LEMMA StraightLine ==
  ASSUME IInv, NoSelfRoute, NEW p \in Packet, Straight(p),
         NEW i \in DOMAIN frames[p], NEW j \in DOMAIN frames[p],
         Counts(frames[p][i]), Counts(frames[p][j]), frames[p][i].at = frames[p][j].at, i < j
  PROVE  FALSE
<1> DEFINE d == packet[p].dest
           rs == {frames[p][k].at : k \in i..(j - 1)}
<1>1. /\ Len(frames[p]) \in Nat /\ DOMAIN frames[p] = 1..Len(frames[p])
      /\ \A k \in DOMAIN frames[p] : frames[p][k] \in Frame
  BY ChainType DEF IInv, Domains
<1>2. \A k \in i..(j - 1) : k \in DOMAIN frames[p] /\ k < Len(frames[p]) /\ k + 1 \in (i + 1)..j
  BY <1>1
<1>3. \A k \in i..(j - 1) : Counts(frames[p][k]) /\ frames[p][k].at \in Node
  <2> TAKE k \in i..(j - 1)
  <2>1. \A a, b \in DOMAIN frames[p] : a <= b /\ Counts(frames[p][a]) => Counts(frames[p][b])
    BY DEF Straight
  <2>2. i <= k /\ k \in DOMAIN frames[p]
    BY <1>1, <1>2
  <2>3. Counts(frames[p][k])
    BY <2>1, <2>2
  <2>4. QED
    BY <2>2, <2>3, CountsAt
<1>4. \A k \in i..(j - 1) : table[frames[p][k].at][d] = frames[p][k + 1].at /\ table[frames[p][k].at][d] # None
  BY <1>2, <1>3 DEF Straight
<1>5. \A k \in (i + 1)..j : frames[p][k].at \in rs
  <2> TAKE k \in (i + 1)..j
  <2>1. CASE k = j
    BY <1>1, <2>1
  <2>2. CASE k # j
    BY <1>1, <2>2
  <2>3. QED
    BY <2>1, <2>2
<1>6. d \notin rs
  BY <1>3, <1>4 DEF Straight, NoSelfRoute
<1>7. rs # {} /\ rs \in SUBSET (Node \ {d})
  BY <1>1, <1>3, <1>6
<1>8. \A n \in rs : table[n][d] \in rs
  BY <1>2, <1>4, <1>5
<1> HIDE DEF rs
<1>9. QED
  BY <1>7, <1>8 DEF Straight, Circle

-----------------------------------------------------------------------------
(* What routers have taken on and not yet accounted for. *)

Open(c) == (c.sent + c.received) - (c.forwarded + c.delivered + c.dropped)

Balances == PacketsConserved => PacketsConserved'

\* The elements of Occupied.
Busy(x, m) ==
  x[2] \in DOMAIN frames[x[1]] /\ Counts(frames[x[1]][x[2]]) /\ Lives(frames[x[1]][x[2]], m)

LEMMA OpenOf ==
  ASSUME NEW s \in [Node -> Counters], NEW n \in Node, NEW m \in Node
  PROVE  /\ Open(s[m]) \in Int
         /\ Open([s EXCEPT ![n].sent = @ + 1][m]) = IF m = n THEN Open(s[m]) + 1 ELSE Open(s[m])
         /\ Open([s EXCEPT ![n].received = @ + 1][m]) = IF m = n THEN Open(s[m]) + 1 ELSE Open(s[m])
         /\ Open([s EXCEPT ![n].forwarded = @ + 1][m]) = IF m = n THEN Open(s[m]) - 1 ELSE Open(s[m])
         /\ Open([s EXCEPT ![n].dropped = @ + 1][m]) = IF m = n THEN Open(s[m]) - 1 ELSE Open(s[m])
         /\ Open([s EXCEPT ![n].received = @ + 1, ![n].delivered = @ + 1][m]) = Open(s[m])
         /\ Open([s EXCEPT ![n] = NoStats][m]) = IF m = n THEN 0 ELSE Open(s[m])
<1>1. s[m] \in Counters /\ s[n] \in Counters
  OBVIOUS
<1>2. Open(s[m]) \in Int
  BY <1>1 DEF Open, Counters
<1>3. Open([s EXCEPT ![n].sent = @ + 1][m]) = IF m = n THEN Open(s[m]) + 1 ELSE Open(s[m])
  BY <1>1 DEF Open, Counters
<1>4. Open([s EXCEPT ![n].received = @ + 1][m]) = IF m = n THEN Open(s[m]) + 1 ELSE Open(s[m])
  BY <1>1 DEF Open, Counters
<1>5. Open([s EXCEPT ![n].forwarded = @ + 1][m]) = IF m = n THEN Open(s[m]) - 1 ELSE Open(s[m])
  BY <1>1 DEF Open, Counters
<1>6. Open([s EXCEPT ![n].dropped = @ + 1][m]) = IF m = n THEN Open(s[m]) - 1 ELSE Open(s[m])
  BY <1>1 DEF Open, Counters
<1>7. Open([s EXCEPT ![n].received = @ + 1, ![n].delivered = @ + 1][m]) = Open(s[m])
  BY <1>1 DEF Open, Counters
<1>8. Open([s EXCEPT ![n] = NoStats][m]) = IF m = n THEN 0 ELSE Open(s[m])
  BY <1>1 DEF Open, Counters, NoStats
<1>9. QED
  BY <1>2, <1>3, <1>4, <1>5, <1>6, <1>7, <1>8

LEMMA OccupiedFinite ==
  ASSUME NEW n
  PROVE  IsFiniteSet(Occupied(n)) /\ Cardinality(Occupied(n)) \in Nat
<1>1. IsFiniteSet(Packet) /\ IsFiniteSet(Frames)
  BY ForwardingAssumption, FS_Interval DEF Frames
<1>2. IsFiniteSet(Packet \X Frames)
  BY <1>1, FS_Product
<1>3. Occupied(n) \in SUBSET (Packet \X Frames)
  BY DEF Occupied
<1>4. QED
  BY <1>2, <1>3, FS_Subset, FS_CardinalityType

LEMMA ConservedMeans ==
  ASSUME IInv
  PROVE  PacketsConserved <=> \A m \in Node : Open(stats[m]) = Cardinality(Occupied(m))
<1>1. \A m \in Node : stats[m] \in Counters /\ Cardinality(Occupied(m)) \in Nat
  BY OccupiedFinite DEF IInv, Domains
<1>2. \A c \in Counters, k \in Nat :
        c.sent + c.received = c.forwarded + c.delivered + c.dropped + k <=> Open(c) = k
  BY DEF Open, Counters
<1>3. QED
  BY <1>1, <1>2 DEF PacketsConserved

LEMMA Conserves ==
  ASSUME stats' \in [Node -> Counters], \A m \in Node : Open(stats'[m]) = Cardinality(Occupied(m)'),
         \A m \in Node : Cardinality(Occupied(m)') \in Nat
  PROVE  PacketsConserved'
<1>1. \A c \in Counters, k \in Nat :
        c.sent + c.received = c.forwarded + c.delivered + c.dropped + k <=> Open(c) = k
  BY DEF Open, Counters
<1>2. QED
  BY <1>1 DEF PacketsConserved

LEMMA InActive ==
  ASSUME NEW pc
  PROVE  pc \in Active <=> pc = "route" \/ pc = "call" \/ pc = "wait"
  BY Zenon DEF Active

\* A call that ends frees its router.
LEMMA MoveOccupies ==
  ASSUME IInv, NEW p \in Packet, NEW i \in DOMAIN frames[p], NEW f \in Frame, Moved(p, i, f),
         frames[p][i].pc = "route" \/ frames[p][i].pc = "call" \/ frames[p][i].pc = "wait",
         f.role = frames[p][i].role, f.at = frames[p][i].at, NEW m \in Node
  PROVE  /\ Counts(f) /\ f.at = m => <<p, i>> \in Occupied(m)
         /\ Occupied(m)' = IF f.pc \in Active \/ ~Counts(f) \/ f.at # m THEN Occupied(m)
                           ELSE Occupied(m) \ {<<p, i>>}
<1>1. i \in Frames /\ frames[p][i].pc \in Active
  BY ChainType, InActive, ForwardingAssumption DEF IInv, Domains, Framed, Frames
<1>2. Counts(f) <=> Counts(frames[p][i])
  BY DEF Counts
<1>3. Counts(f) /\ f.at = m => <<p, i>> \in Occupied(m)
  BY <1>1, <1>2 DEF Occupied, Lives
<1>4. ASSUME NEW x \in Packet \X Frames
      PROVE  Busy(x, m)' <=> Busy(x, m) /\ (x = <<p, i>> => f.pc \in Active)
  <2>1. x = <<x[1], x[2]>> /\ x[1] \in Packet
    OBVIOUS
  <2>2. CASE x[1] = p /\ x[2] = i
    <3>1. x = <<p, i>> /\ frames'[x[1]][x[2]] = f /\ x[2] \in DOMAIN frames'[x[1]] /\ x[2] \in DOMAIN frames[x[1]]
      BY <2>1, <2>2 DEF Moved
    <3>2. QED
      BY <1>1, <1>2, <2>2, <3>1 DEF Busy, Lives
  <2>3. CASE ~(x[1] = p /\ x[2] = i)
    <3>1. /\ x # <<p, i>> /\ DOMAIN frames'[x[1]] = DOMAIN frames[x[1]]
          /\ x[2] \in DOMAIN frames[x[1]] => frames'[x[1]][x[2]] = frames[x[1]][x[2]]
      BY <2>1, <2>3 DEF Moved
    <3>2. QED
      BY <3>1 DEF Busy, Counts, Lives
  <2>4. QED
    BY <2>2, <2>3
<1>5. Occupied(m) = {x \in Packet \X Frames : Busy(x, m)}
  BY DEF Occupied, Busy
<1>6. Occupied(m)' = {x \in Packet \X Frames : Busy(x, m)'}
  BY DEF Occupied, Busy, Frames
<1>7. <<p, i>> \in Occupied(m) => Counts(f) /\ f.at = m
  BY <1>2 DEF Occupied, Lives
<1>8. QED
  BY <1>3, <1>4, <1>5, <1>6, <1>7

LEMMA MoveBalances ==
  ASSUME IInv, NEW p \in Packet, NEW i \in DOMAIN frames[p], NEW f \in Frame, Moved(p, i, f),
         frames[p][i].pc = "route" \/ frames[p][i].pc = "call" \/ frames[p][i].pc = "wait",
         f.role = frames[p][i].role, f.at = frames[p][i].at,
         \/ f.pc = "call" /\ UNCHANGED stats
         \/ f.pc = "wait" /\ UNCHANGED stats
         \/ f.pc = "won" /\ stats' = IF Counts(frames[p][i])
                                     THEN [stats EXCEPT ![frames[p][i].at].forwarded = @ + 1] ELSE stats
         \/ f.pc = "lost" /\ stats' = IF Counts(frames[p][i])
                                      THEN [stats EXCEPT ![frames[p][i].at].dropped = @ + 1] ELSE stats
  PROVE  Balances
<1> SUFFICES ASSUME PacketsConserved PROVE PacketsConserved'
  BY DEF Balances
<1>1. stats \in [Node -> Counters] /\ (Counts(f) <=> Counts(frames[p][i]))
  BY DEF IInv, Domains, Counts
<1>2. Counts(f) => f.at \in Node
  BY <1>1, CountsAt
<1>3. f.pc \in Active <=> f.pc = "call" \/ f.pc = "wait"
  BY InActive
<1>4. stats' \in [Node -> Counters] /\ \A m \in Node :
        Open(stats'[m]) = IF f.pc \in Active \/ ~Counts(f) \/ f.at # m THEN Open(stats[m]) ELSE Open(stats[m]) - 1
  <2>1. CASE f.pc \in Active \/ ~Counts(f)
    <3>1. stats' = stats
      BY <1>1, <1>3, <2>1
    <3>2. QED
      BY <1>1, <2>1, <3>1
  <2>2. CASE f.pc \notin Active /\ Counts(f)
    <3>1. f.at \in Node /\ f.pc # "call" /\ f.pc # "wait"
      BY <1>2, <1>3, <2>2
    <3>2. \/ stats' = [stats EXCEPT ![f.at].forwarded = @ + 1]
          \/ stats' = [stats EXCEPT ![f.at].dropped = @ + 1]
      BY <1>1, <2>2, <3>1
    <3>3. stats' \in [Node -> Counters]
      <4>1. CASE stats' = [stats EXCEPT ![f.at].forwarded = @ + 1]
        BY <1>1, <3>1, <4>1, CountersUp
      <4>2. CASE stats' = [stats EXCEPT ![f.at].dropped = @ + 1]
        BY <1>1, <3>1, <4>2, CountersUp
      <4>3. QED
        BY <3>2, <4>1, <4>2
    <3>4. \A m \in Node : Open(stats'[m]) = IF m = f.at THEN Open(stats[m]) - 1 ELSE Open(stats[m])
      <4> TAKE m \in Node
      <4>1. CASE stats' = [stats EXCEPT ![f.at].forwarded = @ + 1]
        BY <1>1, <3>1, <4>1, OpenOf
      <4>2. CASE stats' = [stats EXCEPT ![f.at].dropped = @ + 1]
        BY <1>1, <3>1, <4>2, OpenOf
      <4>3. QED
        BY <3>2, <4>1, <4>2
    <3>5. QED
      BY <2>2, <3>3, <3>4
  <2>3. QED
    BY <2>1, <2>2
<1>5. \A m \in Node :
        /\ Counts(f) /\ f.at = m => <<p, i>> \in Occupied(m)
        /\ Occupied(m)' = IF f.pc \in Active \/ ~Counts(f) \/ f.at # m THEN Occupied(m)
                          ELSE Occupied(m) \ {<<p, i>>}
  <2> TAKE m \in Node
  <2>1. QED
    BY MoveOccupies
<1>6. ASSUME NEW m \in Node
      PROVE  Open(stats'[m]) = Cardinality(Occupied(m)') /\ Cardinality(Occupied(m)') \in Nat
  <2>1. Open(stats[m]) = Cardinality(Occupied(m)) /\ IsFiniteSet(Occupied(m)) /\ Cardinality(Occupied(m)) \in Nat
    BY ConservedMeans, OccupiedFinite
  <2>2. CASE f.pc \in Active \/ ~Counts(f) \/ f.at # m
    BY <1>4, <1>5, <2>1, <2>2
  <2>3. CASE f.pc \notin Active /\ Counts(f) /\ f.at = m
    <3>1. Occupied(m)' = Occupied(m) \ {<<p, i>>} /\ <<p, i>> \in Occupied(m)
      BY <1>5, <2>3
    <3>2. Cardinality(Occupied(m)') = Cardinality(Occupied(m)) - 1 /\ Cardinality(Occupied(m)') \in Nat
      BY <2>1, <3>1, FS_RemoveElement, FS_CardinalityType
    <3>3. QED
      BY <1>4, <2>1, <2>3, <3>2
  <2>4. QED
    BY <2>2, <2>3
<1>7. QED
  BY <1>4, <1>6, Conserves

\* A call that starts on a router occupies it until it ends.
LEMMA ExtensionOccupies ==
  ASSUME IInv, NEW p \in Packet, NEW f \in Frame, Extended(p, f), Len(frames[p]) < MaxFrames, NEW m \in Node
  PROVE  /\ <<p, Len(frames[p]) + 1>> \notin Occupied(m)
         /\ Occupied(m)' = IF Counts(f) /\ Lives(f, m) THEN Occupied(m) \cup {<<p, Len(frames[p]) + 1>>}
                           ELSE Occupied(m)
<1> DEFINE k == Len(frames[p]) + 1
<1>1. k \in Frames /\ k \notin DOMAIN frames[p] /\ k \in Nat /\ DOMAIN frames[p] = 1..(k - 1)
  BY ChainType, ForwardingAssumption DEF IInv, Domains, Frames
<1>2. /\ DOMAIN frames'[p] = 1..k /\ frames'[p][k] = f
      /\ \A j \in DOMAIN frames[p] : frames'[p][j] = frames[p][j]
      /\ \A q \in Packet \ {p} : frames'[q] = frames[q]
  BY DEF Extended
<1> HIDE DEF k
<1>3. ASSUME NEW x \in Packet \X Frames
      PROVE  Busy(x, m)' <=> Busy(x, m) \/ (x = <<p, k>> /\ Counts(f) /\ Lives(f, m))
  <2>1. x = <<x[1], x[2]>> /\ x[1] \in Packet /\ x[2] \in Frames
    OBVIOUS
  <2>2. CASE x = <<p, k>>
    <3>1. x[1] = p /\ x[2] = k /\ k \in 1..k
      BY <1>1, <2>2 DEF Frames
    <3>2. QED
      BY <1>1, <1>2, <2>2, <3>1 DEF Busy, Lives, Counts
  <2>3. CASE x # <<p, k>> /\ x[1] = p
    <3>1. x[2] # k
      BY <2>1, <2>3
    <3>2. x[2] \in DOMAIN frames'[p] <=> x[2] \in DOMAIN frames[p]
      BY <1>1, <1>2, <2>1, <3>1 DEF Frames
    <3>3. QED
      BY <1>2, <2>3, <3>2 DEF Busy, Lives, Counts
  <2>4. CASE x[1] # p
    <3>1. frames'[x[1]] = frames[x[1]] /\ x # <<p, k>>
      BY <1>2, <2>1, <2>4
    <3>2. QED
      BY <3>1 DEF Busy, Lives, Counts
  <2>5. QED
    BY <2>2, <2>3, <2>4
<1>4. Occupied(m) = {x \in Packet \X Frames : Busy(x, m)}
  BY DEF Occupied, Busy
<1>5. Occupied(m)' = {x \in Packet \X Frames : Busy(x, m)'}
  BY DEF Occupied, Busy, Frames
<1>6. <<p, k>> \notin Occupied(m) /\ <<p, k>> \in Packet \X Frames
  BY <1>1 DEF Occupied
<1>7. Occupied(m)' = IF Counts(f) /\ Lives(f, m) THEN Occupied(m) \cup {<<p, k>>} ELSE Occupied(m)
  BY <1>3, <1>4, <1>5, <1>6
<1>8. QED
  BY <1>6, <1>7 DEF k

LEMMA ExtensionBalances ==
  ASSUME IInv, NEW p \in Packet, NEW f \in Frame, Extended(p, f), Len(frames[p]) < MaxFrames,
         Counts(f) => f.at \in Node,
         \/ ~Counts(f) /\ UNCHANGED stats
         \/ Counts(f) /\ f.pc = "route" /\ stats' = [stats EXCEPT ![f.at].sent = @ + 1]
         \/ Counts(f) /\ f.pc = "route" /\ stats' = [stats EXCEPT ![f.at].received = @ + 1]
         \/ /\ Counts(f) /\ f.pc = "won"
            /\ stats' = [stats EXCEPT ![f.at].received = @ + 1, ![f.at].delivered = @ + 1]
  PROVE  Balances
<1> DEFINE x == <<p, Len(frames[p]) + 1>>
<1> SUFFICES ASSUME PacketsConserved PROVE PacketsConserved'
  BY DEF Balances
<1>1. stats \in [Node -> Counters]
  BY DEF IInv, Domains
<1>2. f.pc \in Active <=> f.pc = "route" \/ f.pc = "call" \/ f.pc = "wait"
  BY InActive
<1>3. \A m \in Node : Lives(f, m) <=> f.at = m /\ f.pc \in Active
  BY DEF Lives
<1>4. stats' \in [Node -> Counters] /\ \A m \in Node :
        Open(stats'[m]) = IF Counts(f) /\ Lives(f, m) THEN Open(stats[m]) + 1 ELSE Open(stats[m])
  <2>1. CASE ~Counts(f) /\ UNCHANGED stats
    BY <1>1, <2>1
  <2>2. CASE Counts(f) /\ f.pc = "route" /\ stats' = [stats EXCEPT ![f.at].sent = @ + 1]
    <3>1. stats' \in [Node -> Counters]
      BY <1>1, <2>2, CountersUp
    <3>2. \A m \in Node : Open(stats'[m]) = IF m = f.at THEN Open(stats[m]) + 1 ELSE Open(stats[m])
      BY <1>1, <2>2, OpenOf
    <3>3. QED
      BY <1>2, <1>3, <2>2, <3>1, <3>2
  <2>3. CASE Counts(f) /\ f.pc = "route" /\ stats' = [stats EXCEPT ![f.at].received = @ + 1]
    <3>1. stats' \in [Node -> Counters]
      BY <1>1, <2>3, CountersUp
    <3>2. \A m \in Node : Open(stats'[m]) = IF m = f.at THEN Open(stats[m]) + 1 ELSE Open(stats[m])
      BY <1>1, <2>3, OpenOf
    <3>3. QED
      BY <1>2, <1>3, <2>3, <3>1, <3>2
  <2>4. CASE /\ Counts(f) /\ f.pc = "won"
             /\ stats' = [stats EXCEPT ![f.at].received = @ + 1, ![f.at].delivered = @ + 1]
    <3>1. stats' \in [Node -> Counters]
      BY <1>1, <2>4, CountersUp
    <3>2. \A m \in Node : Open(stats'[m]) = Open(stats[m])
      BY <1>1, <2>4, OpenOf
    <3>3. QED
      BY <1>2, <1>3, <2>4, <3>1, <3>2
  <2>5. QED
    BY <2>1, <2>2, <2>3, <2>4
<1>5. \A m \in Node :
        /\ x \notin Occupied(m)
        /\ Occupied(m)' = IF Counts(f) /\ Lives(f, m) THEN Occupied(m) \cup {x} ELSE Occupied(m)
  <2> TAKE m \in Node
  <2>1. QED
    BY ExtensionOccupies
<1> HIDE DEF x
<1>6. ASSUME NEW m \in Node
      PROVE  Open(stats'[m]) = Cardinality(Occupied(m)') /\ Cardinality(Occupied(m)') \in Nat
  <2>1. Open(stats[m]) = Cardinality(Occupied(m)) /\ IsFiniteSet(Occupied(m)) /\ Cardinality(Occupied(m)) \in Nat
    BY ConservedMeans, OccupiedFinite
  <2>2. CASE ~(Counts(f) /\ Lives(f, m))
    BY <1>4, <1>5, <2>1, <2>2
  <2>3. CASE Counts(f) /\ Lives(f, m)
    <3>1. Occupied(m)' = Occupied(m) \cup {x} /\ x \notin Occupied(m)
      BY <1>5, <2>3
    <3>2. Cardinality(Occupied(m)') = Cardinality(Occupied(m)) + 1
      BY <2>1, <3>1, FS_AddElement
    <3>3. QED
      BY <1>4, <2>1, <2>3, <3>2
  <2>4. QED
    BY <2>2, <2>3
<1>7. QED
  BY <1>4, <1>6, Conserves

\* Elsewhere nothing begins or ends.
LEMMA QuietBalances ==
  ASSUME UNCHANGED <<frames, stats>>
  PROVE  Balances
  BY DEF Balances, PacketsConserved, Occupied, Counts, Lives, Frames

-----------------------------------------------------------------------------
(* Every step keeps the invariant. *)

\* A step of one packet leaves the other packets alone.
LEMMA OneStep ==
  ASSUME IInv, Domains', NEW p \in Packet, Framed(p)', Sound(p)',
         \A q \in Packet \ {p} : Untouched(q)
  PROVE  IInv'
<1>1. ASSUME NEW q \in Packet PROVE Framed(q)' /\ Sound(q)'
  <2>1. CASE q = p
    BY <2>1
  <2>2. CASE q # p
    BY <2>2, UntouchedStays DEF IInv
  <2>3. QED
    BY <2>1, <2>2
<1>2. QED
  BY <1>1 DEF IInv

\* What a step of one call has in common with others.
Local == UNCHANGED <<asking, tables, delivered>>

LEMMA DropStep ==
  ASSUME IInv, NEW p \in Packet, NEW i \in DOMAIN frames[p], Drop(p, i), Local, UNCHANGED inflight,
         frames[p][i].pc = "route" \/ frames[p][i].pc = "call" \/ frames[p][i].pc = "wait",
         broken' = broken \/ broken' = broken \cup {p}, faults' \in 0..MaxFaults,
         ~expired[p] /\ p \notin broken' =>
           ~inflight[p] /\ \A j \in DOMAIN frames[p] : j > i => frames[p][j].pc = "lost"
  PROVE  IInv' /\ Seen /\ Keeps /\ Balances
<1> DEFINE f == To(frames[p][i], "lost")
<1>1. Domains /\ stats' \in [Node -> Counters] /\ frames[p][i] \in Frame
  BY DropCounts, ChainType DEF IInv, Domains
<1>2. Moved(p, i, f)
  BY <1>1, DropMoves DEF Domains
<1>3. /\ f \in Frame /\ f.pc = "lost"
      /\ f.role = frames[p][i].role /\ f.at = frames[p][i].at /\ f.hop = frames[p][i].hop
  BY <1>1, ToType DEF Active
<1> HIDE DEF f
<1>4. Framed(p)' /\ Sound(p)'
  BY <1>2, <1>3, MoveStays DEF Local, asking
<1>5. \A q \in Packet \ {p} : Untouched(q)
  BY <1>2 DEF Moved, Untouched, Local, asking
<1>6. Domains'
  BY <1>1, <1>2 DEF Domains, Moved, Local, asking, tables
<1>7. Seen /\ Keeps
  BY <1>2, <1>3, MoveSeen, MoveKeeps DEF Local, asking, tables
<1>8. Balances
  BY <1>2, <1>3, MoveBalances DEF Drop
<1>9. QED
  BY <1>4, <1>5, <1>6, <1>7, <1>8, OneStep

\* The frame an action names is one of the chain.
LEMMA AtDef ==
  ASSUME NEW p \in Packet, NEW i, NEW pc, At(p, i, pc)
  PROVE  i \in DOMAIN frames[p] /\ frames[p][i].pc = pc
  BY DEF At

\* The call of a router that has not called yet is the last one.
LEMMA Front ==
  ASSUME IInv, NEW p \in Packet, NEW i \in DOMAIN frames[p],
         frames[p][i].pc = "route" \/ frames[p][i].pc = "call"
  PROVE  i = Len(frames[p]) /\ ~inflight[p]
<1>1. i = Len(frames[p])
  BY ChainType DEF IInv, Domains, Framed
<1>2. QED
  BY <1>1 DEF IInv, Sound, Idle

LEMMA GetRouteStep ==
  ASSUME IInv, NEW p \in Packet, NEW i, GetRoute(p, i)
  PROVE  IInv' /\ Seen /\ Keeps /\ Balances
<1> DEFINE hop == table[frames[p][i].at][packet[p].dest]
           f == [To(frames[p][i], "call") EXCEPT !.hop = hop]
<1>1. i \in DOMAIN frames[p] /\ frames[p][i].pc = "route" /\ Local /\ UNCHANGED <<inflight, broken, faults>>
  BY AtDef DEF GetRoute, Local
<1>2. Domains /\ frames[p][i] \in Frame /\ i = Len(frames[p]) /\ ~inflight[p] /\ faults' \in 0..MaxFaults
  BY <1>1, ChainType, Front DEF IInv, Domains
<1>3. CASE hop = None
  <2>1. Drop(p, i)
    BY <1>3 DEF GetRoute
  <2>2. \A j \in DOMAIN frames[p] : ~(j > i)
    BY <1>2, ChainType DEF Domains
  <2>3. QED
    BY <1>1, <1>2, <2>1, <2>2, DropStep
<1>4. CASE hop # None
  <2>1. UNCHANGED stats /\ frames' = [frames EXCEPT ![p][i].pc = "call", ![p][i].hop = hop]
    BY <1>4 DEF GetRoute
  <2>2. frames[p][i].at \in Node /\ packet[p].dest \in Destination
    <3>1. frames[p][i].role # "tool" /\ frames[p][i].at # None
      BY <1>1 DEF IInv, Framed
    <3>2. Begun(p)
      BY <1>1, <1>2, ChainType DEF Domains
    <3>3. packet[p] \in Request
      BY <3>2 DEF IInv, Sound
    <3>4. QED
      BY <1>2, <3>1, <3>3 DEF Frame, Request
  <2>3. hop \in Node \cup {None}
    BY <1>2, <2>2 DEF Domains
  <2> HIDE DEF hop
  <2>4. /\ f \in Frame /\ f.pc = "call" /\ f.hop = hop
        /\ f.role = frames[p][i].role /\ f.at = frames[p][i].at
    BY <1>2, <2>3 DEF Frame, To, Active
  <2>5. frames' = [frames EXCEPT ![p] = [frames[p] EXCEPT ![i] = f]]
    BY <1>1, <1>2, <2>1 DEF Frame, To, Domains
  <2> HIDE DEF f
  <2>6. Moved(p, i, f)
    BY <1>1, <1>2, <2>4, <2>5, MovedBy DEF Domains
  <2>7. Framed(p)' /\ Sound(p)'
    BY <1>1, <1>4, <2>4, <2>6, MoveStays DEF Local, asking
  <2>8. \A q \in Packet \ {p} : Untouched(q)
    BY <1>1, <2>6 DEF Moved, Untouched, Local, asking
  <2>9. Domains'
    BY <1>1, <1>2, <2>1, <2>6 DEF Domains, Moved, Local, asking, tables
  <2>10. hop = table[f.at][packet[p].dest]
    BY <2>4 DEF hop
  <2>11. Seen /\ Keeps
    BY <1>1, <1>2, <2>4, <2>6, <2>10, MoveSeen, MoveKeeps DEF Local, asking, tables
  <2>12. Balances
    BY <1>1, <2>1, <2>4, <2>6, MoveBalances
  <2>13. QED
    BY <2>7, <2>8, <2>9, <2>11, <2>12, OneStep
<1>5. QED
  BY <1>3, <1>4

LEMMA CallFailsStep ==
  ASSUME IInv, NEW p \in Packet, NEW i, CallFails(p, i)
  PROVE  IInv' /\ Seen /\ Keeps /\ Balances
<1>1. /\ i \in DOMAIN frames[p] /\ frames[p][i].pc = "call" /\ Drop(p, i)
      /\ Local /\ UNCHANGED <<inflight, broken, faults>>
  BY AtDef DEF CallFails, Local
<1>2. i = Len(frames[p]) /\ ~inflight[p] /\ faults' \in 0..MaxFaults
  BY <1>1, Front DEF IInv, Domains
<1>3. \A j \in DOMAIN frames[p] : ~(j > i)
  BY <1>2, ChainType DEF IInv, Domains
<1>4. QED
  BY <1>1, <1>2, <1>3, DropStep

LEMMA CallStep ==
  ASSUME IInv, NEW p \in Packet, NEW i, Call(p, i)
  PROVE  IInv' /\ Seen /\ Keeps /\ Balances
<1> DEFINE f == To(frames[p][i], "wait")
<1>1. /\ i \in DOMAIN frames[p] /\ frames[p][i].pc = "call"
      /\ frames' = [frames EXCEPT ![p][i].pc = "wait"] /\ inflight' = [inflight EXCEPT ![p] = TRUE]
      /\ Local /\ UNCHANGED <<stats, broken, faults>>
  BY AtDef DEF Call, Local
<1>2. Domains /\ frames[p][i] \in Frame /\ frames[p][i].hop # None
  BY <1>1, ChainType DEF IInv, Domains, Framed
<1>3. /\ f \in Frame /\ f.pc = "wait" /\ f.hop = frames[p][i].hop
      /\ f.role = frames[p][i].role /\ f.at = frames[p][i].at
  BY <1>2, ToType DEF Active
<1>4. frames' = [frames EXCEPT ![p] = [frames[p] EXCEPT ![i] = f]]
  BY <1>1 DEF To
<1> HIDE DEF f
<1>5. Moved(p, i, f)
  BY <1>1, <1>2, <1>3, <1>4, MovedBy DEF Domains
<1>6. inflight'[p] = TRUE /\ inflight' \in [Packet -> BOOLEAN]
      /\ \A q \in Packet \ {p} : inflight'[q] = inflight[q]
  BY <1>1, <1>2 DEF Domains
<1>7. Framed(p)' /\ Sound(p)'
  BY <1>1, <1>2, <1>3, <1>5, <1>6, MoveStays DEF Local, asking
<1>8. \A q \in Packet \ {p} : Untouched(q)
  BY <1>1, <1>5, <1>6 DEF Moved, Untouched, Local, asking
<1>9. Domains'
  BY <1>1, <1>2, <1>5, <1>6 DEF Domains, Moved, Local, asking, tables
<1>10. Seen /\ Keeps
  BY <1>1, <1>3, <1>5, MoveSeen, MoveKeeps DEF Local, asking, tables
<1>11. Balances
  BY <1>1, <1>3, <1>5, MoveBalances
<1>12. QED
  BY <1>7, <1>8, <1>9, <1>10, <1>11, OneStep

LEMMA ReturnStep ==
  ASSUME IInv, NEW p \in Packet, NEW i, Return(p, i)
  PROVE  IInv' /\ Seen /\ Keeps /\ Balances
<1> DEFINE f == To(frames[p][i], "won")
<1>1. i \in DOMAIN frames[p] /\ frames[p][i].pc = "wait" /\ Local /\ UNCHANGED <<inflight, broken, faults>>
  BY AtDef DEF Return, Local
<1>2. Domains /\ frames[p][i] \in Frame /\ faults' \in 0..MaxFaults
  BY <1>1, ChainType DEF IInv, Domains
<1>3. CASE At(p, i + 1, "lost") /\ Drop(p, i)
  <2>1. i + 1 \in DOMAIN frames[p] /\ frames[p][i + 1].pc = "lost"
    BY <1>3 DEF At
  <2>2. ~expired[p] /\ p \notin broken =>
          ~inflight[p] /\ \A j \in DOMAIN frames[p] : j >= i + 1 => frames[p][j].pc = "lost"
    BY <2>1 DEF IInv, Sound
  <2>3. \A j \in DOMAIN frames[p] : j > i => j >= i + 1
    BY <1>1, <1>2, ChainType DEF Domains
  <2>4. QED
    BY <1>1, <1>2, <1>3, <2>2, <2>3, DropStep
<1>4. CASE /\ At(p, i + 1, "won") /\ frames' = [frames EXCEPT ![p][i].pc = "won"]
           /\ stats' = IF Counts(frames[p][i]) THEN [stats EXCEPT ![frames[p][i].at].forwarded = @ + 1] ELSE stats
  <2>1. stats' \in [Node -> Counters]
    <3>1. CASE Counts(frames[p][i])
      BY <1>1, <1>2, <1>4, <3>1, CountsAt, CountersUp DEF Domains
    <3>2. QED
      BY <1>2, <1>4, <3>1 DEF Domains
  <2>2. /\ f \in Frame /\ f.pc = "won"
        /\ f.role = frames[p][i].role /\ f.at = frames[p][i].at /\ f.hop = frames[p][i].hop
    BY <1>2, ToType DEF Active
  <2>3. frames' = [frames EXCEPT ![p] = [frames[p] EXCEPT ![i] = f]]
    BY <1>4 DEF To
  <2> HIDE DEF f
  <2>4. Moved(p, i, f)
    BY <1>1, <1>2, <2>2, <2>3, MovedBy DEF Domains
  <2>5. Framed(p)' /\ Sound(p)'
    BY <1>1, <1>4, <2>2, <2>4, MoveStays DEF Local, asking
  <2>6. \A q \in Packet \ {p} : Untouched(q)
    BY <1>1, <2>4 DEF Moved, Untouched, Local, asking
  <2>7. Domains'
    BY <1>1, <1>2, <2>1, <2>4 DEF Domains, Moved, Local, asking, tables
  <2>8. delivered[p] = 1
    BY <1>4, <1>2, ChainType DEF IInv, Sound, At
  <2>9. Seen /\ Keeps
    BY <1>1, <2>2, <2>4, <2>8, MoveSeen, MoveKeeps DEF Local, asking, tables
  <2>10. Balances
    BY <1>1, <1>4, <2>2, <2>4, MoveBalances
  <2>11. QED
    BY <2>5, <2>6, <2>7, <2>9, <2>10, OneStep
<1>5. QED
  BY <1>3, <1>4 DEF Return

\* Without a fault a call that nobody will answer was never lost by itself.
LEMMA GiveUpStep ==
  ASSUME IInv, NEW p \in Packet, NEW i, GiveUp(p, i)
  PROVE  IInv' /\ Seen /\ Keeps /\ Balances
<1>1. /\ i \in DOMAIN frames[p] /\ frames[p][i].pc = "wait" /\ Drop(p, i)
      /\ Local /\ UNCHANGED <<inflight, broken, faults>>
  BY AtDef DEF GiveUp, Local
<1>2. Domains /\ DOMAIN frames[p] = 1..Len(frames[p]) /\ Len(frames[p]) \in Nat
      /\ Sound(p) /\ faults' \in 0..MaxFaults
  BY <1>1, ChainType DEF IInv, Domains
<1>3. expired[p] \/ p \in broken
  <2>1. CASE Cancelled(p, i)
    <3>1. /\ ~At(p, i - 1, "won")
          /\ ~expired[p] /\ p \notin broken => ~At(p, i - 1, "lost")
          /\ At(p, i - 1, "gone") => p \in broken
      BY <1>1, <1>2 DEF Sound, At
    <3>2. QED
      BY <2>1, <3>1 DEF Cancelled
  <2>2. CASE Unanswerable(p, i)
    <3>1. /\ At(p, i + 1, "gone") => p \in broken
          /\ i = Len(frames[p]) /\ ~inflight[p] => expired[p] \/ p \in broken
      BY <1>1, <1>2 DEF Sound, At
    <3>2. QED
      BY <2>2, <3>1 DEF Unanswerable
  <2>3. QED
    BY <2>1, <2>2 DEF GiveUp
<1>4. QED
  BY <1>1, <1>2, <1>3, DropStep

LEMMA FaultCounts ==
  ASSUME IInv, Fault
  PROVE  faults' \in 0..MaxFaults
  BY ForwardingAssumption DEF IInv, Domains, Fault

LEMMA DisconnectStep ==
  ASSUME IInv, NEW p \in Packet, NEW i, Disconnect(p, i)
  PROVE  IInv' /\ Seen /\ Keeps /\ Balances
<1>1. /\ i \in DOMAIN frames[p] /\ frames[p][i].pc = "wait" /\ Drop(p, i)
      /\ Local /\ UNCHANGED inflight /\ broken' = broken \cup {p} /\ faults' \in 0..MaxFaults
  BY AtDef, FaultCounts DEF Disconnect, Local
<1>2. QED
  BY <1>1, DropStep

LEMMA LoseStep ==
  ASSUME IInv, NEW p \in Packet, Lose(p)
  PROVE  IInv' /\ Seen /\ Keeps /\ Balances
<1>1. /\ inflight[p] /\ inflight' = [inflight EXCEPT ![p] = FALSE]
      /\ UNCHANGED <<asking, tables, frames, stats, delivered>>
      /\ \/ broken' = broken \cup {p}
         \/ broken' = broken /\ Last(p).pc = "lost"
  BY DEF Lose
<1>2. Domains /\ Framed(p) /\ Sound(p)
  BY DEF IInv
<1>3. inflight' \in [Packet -> BOOLEAN] /\ ~inflight'[p]
      /\ \A q \in Packet \ {p} : inflight'[q] = inflight[q]
  BY <1>1, <1>2 DEF Domains
<1>4. faults' \in 0..MaxFaults
  BY FaultCounts DEF Lose, IInv, Domains
<1>5. Framed(p)'
  BY <1>1, <1>2 DEF Framed
<1>6. p \in broken => p \in broken'
  BY <1>1
<1>7. p \notin broken' => ~At(p, Len(frames[p]), "wait")
  BY <1>1 DEF At, Last
<1>8. UNCHANGED <<packet, expired, frames, delivered>>
  BY <1>1 DEF asking
<1>9. At(p, Len(frames[p]), "won")' = At(p, Len(frames[p]), "won")
      /\ At(p, Len(frames[p]), "wait")' = At(p, Len(frames[p]), "wait")
  BY <1>8 DEF At
<1>10. Sound(p)'
  BY <1>2, <1>3, <1>6, <1>7, <1>8, <1>9 DEF Sound, Begun
<1>11. \A q \in Packet \ {p} : Untouched(q)
  BY <1>1, <1>3, <1>8 DEF Untouched
<1>12. Domains'
  BY <1>1, <1>2, <1>3, <1>4 DEF Domains, asking, tables
<1>13. Seen /\ Keeps /\ Balances
  BY <1>1, <1>8, SameSeen, NothingSeen, QuietKeeps, QuietBalances DEF tables
<1>14. QED
  BY <1>5, <1>10, <1>11, <1>12, <1>13, OneStep

LEMMA ExpireStep ==
  ASSUME IInv, NEW p \in Packet, Expire(p)
  PROVE  IInv' /\ Seen /\ Keeps /\ Balances
<1>1. /\ Begun(p) /\ expired' = [expired EXCEPT ![p] = TRUE]
      /\ UNCHANGED <<packet, tables, frames, inflight, stats, delivered, broken, faults>>
  BY DEF Expire
<1>2. Domains /\ Framed(p) /\ Sound(p)
  BY DEF IInv
<1>3. expired' \in [Packet -> BOOLEAN] /\ expired'[p]
      /\ \A q \in Packet \ {p} : expired'[q] = expired[q]
  BY <1>1, <1>2 DEF Domains
<1>4. Framed(p)'
  BY <1>1, <1>2 DEF Framed
<1>5. Sound(p)'
  BY <1>1, <1>2, <1>3 DEF Sound, Begun, At
<1>6. \A q \in Packet \ {p} : Untouched(q)
  BY <1>1, <1>3 DEF Untouched
<1>7. Domains'
  BY <1>1, <1>2, <1>3 DEF Domains, tables
<1>8. Seen /\ Keeps /\ Balances
  BY <1>1, SameSeen, NothingSeen, QuietKeeps, QuietBalances DEF tables
<1>9. QED
  BY <1>4, <1>5, <1>6, <1>7, <1>8, OneStep

\* What a chain grows by, and that it may.
LEMMA ExtensionStep ==
  ASSUME IInv, NEW p \in Packet, NEW f \in Frame, Extended(p, f), Len(frames[p]) < MaxFrames,
         Begun(p) => inflight[p] /\ f.role # "tool", ~Begun(p) => f.pc # "won",
         f.role = "tool" => f.pc # "route", f.role # "tool" => f.at # None,
         \/ f.pc = "route" /\ inflight'[p] = FALSE
         \/ f.pc = "call" /\ f.hop # None /\ inflight'[p] = FALSE
         \/ f.pc = "wait" /\ f.hop # None /\ inflight'[p] = TRUE
         \/ f.pc = "won" /\ inflight'[p] = FALSE,
         inflight' \in [Packet -> BOOLEAN],
         \A q \in Packet \ {p} : inflight'[q] = inflight[q],
         packet' \in [Packet -> Request \cup {NoRequest}], packet'[p] \in Request,
         \A q \in Packet \ {p} : packet'[q] = packet[q],
         delivered' = [delivered EXCEPT ![p] = IF f.pc = "won" THEN @ + 1 ELSE @],
         f.hop = None \/ ~Counts(f),
         ~Begun(p) => (p \in steady' => p \in steady \/ ~Circle(packet[p].dest)'),
         Begun(p) => /\ packet' = packet /\ (p \in steady' => p \in steady)
                     /\ f.at = frames[p][Len(frames[p])].hop /\ f.at # None
                     /\ Counts(frames[p][Len(frames[p])]) => Counts(f),
         \A q \in Packet \ {p} : q \in steady' => q \in steady,
         Counts(f) => f.at \in Node,
         \/ ~Counts(f) /\ UNCHANGED stats
         \/ Counts(f) /\ f.pc = "route" /\ stats' = [stats EXCEPT ![f.at].sent = @ + 1]
         \/ Counts(f) /\ f.pc = "route" /\ stats' = [stats EXCEPT ![f.at].received = @ + 1]
         \/ /\ Counts(f) /\ f.pc = "won"
            /\ stats' = [stats EXCEPT ![f.at].received = @ + 1, ![f.at].delivered = @ + 1],
         stats' \in [Node -> Counters], steady' \subseteq Packet,
         UNCHANGED <<table, entries, expired, broken, changes, faults>>
  PROVE  IInv' /\ Seen /\ Keeps /\ Balances
<1>1. Domains
  BY DEF IInv
<1>2. /\ delivered' \in [Packet -> Nat]
      /\ delivered'[p] = IF f.pc = "won" THEN delivered[p] + 1 ELSE delivered[p]
      /\ \A q \in Packet \ {p} : delivered'[q] = delivered[q]
  BY <1>1 DEF Domains
<1>3. Framed(p)' /\ Sound(p)'
  BY <1>2, ExtensionStays
<1>4. \A q \in Packet \ {p} : Untouched(q)
  BY <1>2 DEF Untouched, Extended
<1>5. Domains'
  BY <1>1, <1>2 DEF Domains, Extended
<1>6. Seen /\ Keeps
  BY ExtensionSeen, ExtensionKeeps DEF Request
<1>7. Balances
  BY ExtensionBalances
<1>8. QED
  BY <1>3, <1>4, <1>5, <1>6, <1>7, OneStep

\* A packet that is asked for.
LEMMA AskType ==
  ASSUME IInv, NEW p \in Packet, NEW d \in Destination, NEW n \in Node, NEW timed \in BOOLEAN,
         Ask(p, d, n, timed)
  PROVE  /\ packet' \in [Packet -> Request \cup {NoRequest}] /\ packet'[p] \in Request
         /\ \A q \in Packet \ {p} : packet'[q] = packet[q]
         /\ steady' \subseteq Packet /\ ~Begun(p) /\ Len(frames[p]) = 0
         /\ p \in steady' => p \in steady \/ ~Circle(packet[p].dest)'
         /\ \A q \in Packet \ {p} : q \in steady' => q \in steady
         /\ UNCHANGED <<table, entries, expired, delivered, broken, changes, faults>>
<1>1. [dest |-> d, source |-> n, timed |-> timed] \in Request
  BY ForwardingAssumption DEF Request
<1>2. packet'[p].dest = d /\ UNCHANGED table
  BY DEF Ask, IInv, Domains
<1>3. Circle(packet[p].dest)' <=> Circle(d)
  BY <1>2 DEF Circle
<1>4. p \in steady' => p \in steady \/ ~Circle(packet[p].dest)'
  BY <1>3 DEF Ask
<1>5. QED
  BY <1>1, <1>4, ChainType DEF Ask, IInv, Domains

LEMMA SendPacketStep ==
  ASSUME IInv, NEW p \in Packet, NEW n \in Node, NEW d \in Destination, NEW timed \in BOOLEAN,
         SendPacket(p, n, d, timed)
  PROVE  IInv' /\ Seen /\ Keeps /\ Balances
<1> DEFINE f == [role |-> "sender", at |-> n, pc |-> "route", hop |-> None]
<1>1. Domains /\ Sound(p) /\ n # None /\ 0 < MaxFrames
  BY ForwardingAssumption DEF IInv
<1>2. /\ packet' \in [Packet -> Request \cup {NoRequest}] /\ packet'[p] \in Request
      /\ \A q \in Packet \ {p} : packet'[q] = packet[q]
      /\ steady' \subseteq Packet /\ ~Begun(p) /\ Len(frames[p]) = 0
      /\ p \in steady' => p \in steady \/ ~Circle(packet[p].dest)'
      /\ \A q \in Packet \ {p} : q \in steady' => q \in steady
      /\ UNCHANGED <<table, entries, expired, delivered, broken, changes, faults, inflight>>
  BY AskType DEF SendPacket
<1>3. f \in Frame /\ f.role = "sender" /\ f.pc = "route" /\ f.at = n /\ f.hop = None /\ Counts(f)
  BY DEF Frame, Role, Active, Counts
<1>4. frames' = [frames EXCEPT ![p] = <<f>>] /\ stats' = [stats EXCEPT ![n].sent = @ + 1]
  BY DEF SendPacket
<1> HIDE DEF f
<1>5. Extended(p, f) /\ stats' \in [Node -> Counters]
  <2>1. Extended(p, f)
    BY <1>1, <1>2, <1>3, <1>4, StartedBy DEF Domains
  <2>2. stats' \in [Node -> Counters]
    BY <1>1, <1>4, CountersUp DEF Domains
  <2>3. QED
    BY <2>1, <2>2
<1>6. inflight[p] = FALSE /\ inflight'[p] = FALSE /\ inflight' \in [Packet -> BOOLEAN]
  BY <1>1, <1>2, ChainType DEF Domains, Sound
<1>7. delivered' = [delivered EXCEPT ![p] = IF f.pc = "won" THEN @ + 1 ELSE @]
  BY <1>1, <1>2, <1>3 DEF Domains
<1>8. QED
  BY <1>1, <1>2, <1>3, <1>4, <1>5, <1>6, <1>7, ExtensionStep

LEMMA DoSendPacketStep ==
  ASSUME IInv, NEW p \in Packet, NEW n \in Node, NEW source \in Node, NEW d \in Destination,
         DoSendPacket(p, n, source, d)
  PROVE  IInv' /\ Seen /\ Keeps /\ Balances
<1> DEFINE f == [role |-> "tool", at |-> None, pc |-> "wait", hop |-> n]
<1>1. Domains /\ n # None /\ 0 < MaxFrames
  BY ForwardingAssumption DEF IInv
<1>2. /\ packet' \in [Packet -> Request \cup {NoRequest}] /\ packet'[p] \in Request
      /\ \A q \in Packet \ {p} : packet'[q] = packet[q]
      /\ steady' \subseteq Packet /\ ~Begun(p) /\ Len(frames[p]) = 0
      /\ p \in steady' => p \in steady \/ ~Circle(packet[p].dest)'
      /\ \A q \in Packet \ {p} : q \in steady' => q \in steady
      /\ UNCHANGED <<table, entries, expired, delivered, broken, changes, faults, stats>>
  BY AskType DEF DoSendPacket
<1>3. f \in Frame /\ f.role = "tool" /\ f.pc = "wait" /\ f.hop = n /\ ~Counts(f)
  BY DEF Frame, Role, Active, Counts
<1>4. frames' = [frames EXCEPT ![p] = <<f>>] /\ inflight' = [inflight EXCEPT ![p] = TRUE]
  BY DEF DoSendPacket
<1> HIDE DEF f
<1>5. Extended(p, f) /\ stats' \in [Node -> Counters]
  BY <1>1, <1>2, <1>3, <1>4, StartedBy DEF Domains
<1>6. inflight'[p] = TRUE /\ inflight' \in [Packet -> BOOLEAN]
      /\ \A q \in Packet \ {p} : inflight'[q] = inflight[q]
  BY <1>1, <1>4 DEF Domains
<1>7. delivered' = [delivered EXCEPT ![p] = IF f.pc = "won" THEN @ + 1 ELSE @]
  BY <1>1, <1>2, <1>3 DEF Domains
<1>8. QED
  BY <1>1, <1>2, <1>3, <1>5, <1>6, <1>7, ExtensionStep

\* Who accepts a call runs on the router that was called.
LEMMA AcceptedType ==
  ASSUME IInv, NEW p \in Packet, inflight[p]
  PROVE  /\ Accepted(p) \in Frame /\ Begun(p)
         /\ Accepted(p).at \in Node /\ Accepted(p).role # "tool" /\ Accepted(p).at = Last(p).hop
         /\ Accepted(p).hop = None \/ ~Counts(Accepted(p))
         /\ Counts(Last(p)) => Counts(Accepted(p))
         /\ \/ Accepted(p).pc = "call" /\ Accepted(p).hop # None
            \/ Accepted(p).pc = "route" /\ Counts(Accepted(p))
            \/ Accepted(p).pc = "won" /\ Counts(Accepted(p))
<1> DEFINE n == Last(p).hop
<1>1. Domains /\ Len(frames[p]) \in DOMAIN frames[p] /\ Last(p).hop # None
  BY DEF IInv, Sound, Last
<1>2. Begun(p) /\ Last(p) \in Frame
  BY <1>1, ChainType DEF Domains, Last
<1>3. packet[p] \in Request
  BY <1>2 DEF IInv, Sound
<1>4. n \in Node /\ packet[p].source \in Node /\ packet[p].source # None
  BY <1>1, <1>2, <1>3, ForwardingAssumption DEF Frame, Request
<1> HIDE DEF n
<1>5. CASE Last(p).role = "tool"
  <2>1. Accepted(p) = [role |-> "control", at |-> n, pc |-> "call", hop |-> packet[p].source]
    BY <1>5 DEF Accepted, n
  <2>2. QED
    BY <1>2, <1>4, <1>5, <2>1 DEF Frame, Role, Active, Counts, n
<1>6. CASE Last(p).role # "tool"
  <2>1. Accepted(p) = [role |-> "handler", at |-> n, pc |-> IF n = packet[p].dest THEN "won" ELSE "route",
                       hop |-> None]
    BY <1>6 DEF Accepted, n
  <2>2. CASE n = packet[p].dest
    BY <1>2, <1>4, <2>1, <2>2 DEF Frame, Role, Active, Counts, n
  <2>3. CASE n # packet[p].dest
    BY <1>2, <1>4, <2>1, <2>3 DEF Frame, Role, Active, Counts, n
  <2>4. QED
    BY <2>2, <2>3
<1>7. QED
  BY <1>5, <1>6

LEMMA ArriveStep ==
  ASSUME IInv, NEW p \in Packet, Arrive(p)
  PROVE  IInv' /\ Seen /\ Keeps /\ Balances
<1> DEFINE f == Accepted(p)
<1>1. Domains /\ inflight[p] /\ Len(frames[p]) < MaxFrames
      /\ UNCHANGED <<asking, tables, broken, faults>>
  BY DEF IInv, Arrive
<1>2. /\ f \in Frame /\ Begun(p) /\ f.at \in Node /\ f.at # None /\ f.role # "tool"
      /\ f.at = frames[p][Len(frames[p])].hop
      /\ f.hop = None \/ ~Counts(f)
      /\ Counts(frames[p][Len(frames[p])]) => Counts(f)
      /\ \/ f.pc = "call" /\ f.hop # None
         \/ f.pc = "route" /\ Counts(f)
         \/ f.pc = "won" /\ Counts(f)
  BY <1>1, AcceptedType, ForwardingAssumption DEF Last
<1>3. /\ inflight' = [inflight EXCEPT ![p] = FALSE]
      /\ frames' = [frames EXCEPT ![p] = Append(@, f)]
      /\ stats' = IF ~Counts(f) THEN stats
                  ELSE IF f.pc = "won"
                       THEN [stats EXCEPT ![f.at].received = @ + 1, ![f.at].delivered = @ + 1]
                       ELSE [stats EXCEPT ![f.at].received = @ + 1]
      /\ delivered' = [delivered EXCEPT ![p] = IF f.pc = "won" THEN @ + 1 ELSE @]
  BY DEF Arrive
<1> HIDE DEF f
<1>4. Extended(p, f)
  BY <1>1, <1>2, <1>3, ExtendedBy DEF Domains
<1>5. stats' \in [Node -> Counters]
  BY <1>1, <1>2, <1>3, CountersUp DEF Domains
<1>6. inflight'[p] = FALSE /\ inflight' \in [Packet -> BOOLEAN]
      /\ \A q \in Packet \ {p} : inflight'[q] = inflight[q]
  BY <1>1, <1>3 DEF Domains
<1>7. /\ packet' = packet /\ steady' = steady
      /\ packet'[p] \in Request /\ packet' \in [Packet -> Request \cup {NoRequest}]
      /\ steady' \subseteq Packet /\ UNCHANGED <<table, entries, expired, broken, changes, faults>>
  BY <1>1, <1>2 DEF IInv, Sound, Domains, asking, tables
<1>8. QED
  BY <1>1, <1>2, <1>3, <1>4, <1>5, <1>6, <1>7, ExtensionStep

\* A crash ends the calls of one router, and breaks what waited for them.
LEMMA CrashMoves ==
  ASSUME IInv, NEW n \in Node, Crash(n), NEW p \in Packet
  PROVE  /\ frames'[p] \in Seq(Frame) /\ Len(frames'[p]) = Len(frames[p])
         /\ DOMAIN frames'[p] = DOMAIN frames[p]
         /\ \A i \in DOMAIN frames[p] :
              frames'[p][i] = IF Lives(frames[p][i], n) THEN To(frames[p][i], "gone") ELSE frames[p][i]
<1> DEFINE c == [i \in DOMAIN frames[p] |->
                  IF Lives(frames[p][i], n) THEN [frames[p][i] EXCEPT !.pc = "gone"] ELSE frames[p][i]]
<1>1. frames'[p] = c
  BY DEF Crash
<1>2. /\ Len(frames[p]) \in Nat /\ DOMAIN frames[p] = 1..Len(frames[p])
      /\ \A i \in DOMAIN frames[p] : frames[p][i] \in Frame
  BY ChainType DEF IInv, Domains
<1>3. /\ DOMAIN c = 1..Len(frames[p])
      /\ \A i \in DOMAIN frames[p] :
           c[i] = IF Lives(frames[p][i], n) THEN To(frames[p][i], "gone") ELSE frames[p][i]
  BY <1>2 DEF To
<1>4. c = [i \in 1..Len(frames[p]) |-> c[i]]
  BY <1>2
<1> HIDE DEF c
<1>5. \A i \in 1..Len(frames[p]) : c[i] \in Frame
  <2> TAKE i \in 1..Len(frames[p])
  <2>1. frames[p][i] \in Frame /\ To(frames[p][i], "gone") \in Frame
    BY <1>2, ToType
  <2>2. QED
    BY <1>2, <1>3, <2>1
<1>6. c \in Seq(Frame) /\ Len(c) = Len(frames[p])
  <2>1. c \in [1..Len(frames[p]) -> Frame]
    BY <1>4, <1>5
  <2>2. QED
    BY <1>2, <1>3, <2>1, SeqDef
<1>7. QED
  BY <1>1, <1>2, <1>3, <1>6

LEMMA CrashHolds ==
  ASSUME IInv, NEW n \in Node, Crash(n), NEW p \in Packet
  PROVE  Framed(p)' /\ Sound(p)'
<1>1. /\ Len(frames'[p]) = Len(frames[p]) /\ DOMAIN frames'[p] = DOMAIN frames[p]
      /\ Len(frames[p]) \in Nat /\ DOMAIN frames[p] = 1..Len(frames[p])
      /\ Begun(p)' <=> Begun(p)
  <2>1. Len(frames'[p]) = Len(frames[p]) /\ DOMAIN frames'[p] = DOMAIN frames[p] /\ frames'[p] \in Seq(Frame)
    BY CrashMoves
  <2>2. Len(frames[p]) \in Nat /\ DOMAIN frames[p] = 1..Len(frames[p]) /\ (Begun(p) <=> Len(frames[p]) > 0)
    BY ChainType DEF IInv, Domains
  <2>3. Begun(p)' <=> Len(frames'[p]) > 0
    BY <2>1, EmptySeq DEF Begun
  <2>4. QED
    BY <2>1, <2>2, <2>3
<1>2. Framed(p) /\ Sound(p) /\ UNCHANGED <<packet, expired, inflight, delivered>>
  BY DEF IInv, Crash, asking
<1>3. \A i \in DOMAIN frames[p] :
        /\ frames'[p][i].role = frames[p][i].role /\ frames'[p][i].at = frames[p][i].at
        /\ frames'[p][i].hop = frames[p][i].hop
        /\ \/ frames'[p][i].pc = frames[p][i].pc
           \/ /\ frames'[p][i].pc = "gone" /\ p \in broken'
              /\ frames[p][i].pc # "won" /\ frames[p][i].pc # "lost" /\ frames[p][i].pc # "gone"
  <2> TAKE i \in DOMAIN frames[p]
  <2>1. frames[p][i] \in Frame
    BY ChainType DEF IInv, Domains
  <2>2. CASE Lives(frames[p][i], n)
    <3>1. p \in broken'
      BY <2>2 DEF Crash
    <3>2. frames'[p][i] = To(frames[p][i], "gone")
      BY <2>2, CrashMoves
    <3>3. frames[p][i].pc # "won" /\ frames[p][i].pc # "lost" /\ frames[p][i].pc # "gone"
      BY <2>2, Zenon DEF Lives, Active
    <3>4. QED
      BY <2>1, <3>1, <3>2, <3>3, ToType DEF Active
  <2>3. CASE ~Lives(frames[p][i], n)
    BY <2>3, CrashMoves
  <2>4. QED
    BY <2>2, <2>3
<1>4. p \in broken => p \in broken'
  BY DEF Crash
<1>5. Framed(p)'
  BY <1>1, <1>2, <1>3 DEF Framed
<1>6. packet'[p] \in Request \/ ~Begun(p)'
  BY <1>1, <1>2 DEF Sound
<1>7. \A i, j \in DOMAIN frames'[p] : i <= j /\ frames'[p][i].pc = "won" => frames'[p][j].pc = "won"
  BY <1>1, <1>2, <1>3 DEF Sound
<1>8. At(p, Len(frames[p]), "won")' <=> At(p, Len(frames[p]), "won")
  BY <1>1, <1>3 DEF At
<1>9. inflight'[p] => /\ Len(frames[p]) \in DOMAIN frames[p] /\ Idle(frames'[p][Len(frames[p])].pc)
                      /\ frames'[p][Len(frames[p])].hop # None
  BY <1>2, <1>3 DEF Sound, Idle
<1>10. \A i \in DOMAIN frames'[p] : frames'[p][i].pc = "gone" => p \in broken'
  BY <1>1, <1>2, <1>3, <1>4 DEF Sound
<1>11. ASSUME ~expired'[p], p \notin broken'
       PROVE  /\ At(p, Len(frames[p]), "wait")' => inflight'[p]
              /\ \A i, j \in DOMAIN frames'[p] :
                   frames'[p][i].pc = "lost" => ~inflight'[p] /\ (i <= j => frames'[p][j].pc = "lost")
  BY <1>1, <1>2, <1>3, <1>4, <1>11 DEF Sound, At
<1>12. delivered'[p] = IF At(p, Len(frames[p]), "won")' THEN 1 ELSE 0
  BY <1>2, <1>8 DEF Sound
<1>13. QED
  BY <1>1, <1>5, <1>6, <1>7, <1>9, <1>10, <1>11, <1>12 DEF Sound, At

LEMMA CrashSeen ==
  ASSUME IInv, NEW n \in Node, Crash(n)
  PROVE  Seen
<1> DEFINE ps == {p \in Packet : Begun(p) /\ Lives(frames[p][1], n)}
<1>1. ASSUME NEW p \in Packet
      PROVE  /\ Begun(p)' <=> Begun(p)
             /\ p \in ps => Answer(p) = "none" /\ Answer(p)' = "failure"
             /\ p \notin ps => Answer(p)' = Answer(p)
  <2>1. /\ Len(frames[p]) \in Nat /\ DOMAIN frames[p] = 1..Len(frames[p])
        /\ Begun(p) <=> Len(frames[p]) > 0
        /\ \A i \in DOMAIN frames[p] : frames[p][i] \in Frame
    BY ChainType DEF IInv, Domains
  <2>2. /\ frames'[p] \in Seq(Frame) /\ Len(frames'[p]) = Len(frames[p])
        /\ DOMAIN frames'[p] = DOMAIN frames[p]
        /\ \A i \in DOMAIN frames[p] :
             frames'[p][i] = IF Lives(frames[p][i], n) THEN To(frames[p][i], "gone") ELSE frames[p][i]
    BY CrashMoves
  <2>3. Begun(p)' <=> Begun(p)
    BY <2>1, <2>2, EmptySeq DEF Begun
  <2>4. CASE ~Begun(p)
    <3>1. frames'[p] = frames[p]
      BY <2>3, <2>4 DEF Begun
    <3>2. QED
      BY <2>4, <3>1, SameSeen
  <2>5. CASE Begun(p)
    <3>1. 1 \in DOMAIN frames[p] /\ frames[p][1] \in Frame
      BY <2>1, <2>5
    <3>2. CASE Lives(frames[p][1], n)
      <4>1. frames'[p][1].pc = "gone"
        BY <2>2, <3>1, <3>2, ToType
      <4>2. frames[p][1].pc # "won" /\ frames[p][1].pc # "lost" /\ frames[p][1].pc # "gone"
        BY <3>2, Zenon DEF Lives, Active
      <4>3. Answer(p) = "none"
        BY <4>2, Answers DEF At
      <4>4. Answer(p)' = "failure"
        BY <2>2, <3>1, <4>1, AnswersNext DEF At
      <4>5. QED
        BY <2>3, <2>5, <3>2, <4>3, <4>4
    <3>3. CASE ~Lives(frames[p][1], n)
      <4>1. Answer(p)' = Answer(p)
        BY <2>2, <3>1, <3>3 DEF Answer, At
      <4>2. QED
        BY <2>3, <3>3, <4>1
    <3>4. QED
      BY <3>2, <3>3
  <2>6. QED
    BY <2>4, <2>5
<1>2. UNCHANGED delivered /\ ps \in SUBSET Packet /\ \A p \in ps : Begun(p)
  BY DEF Crash
<1> HIDE DEF ps
<1>3. QED
  BY <1>1, <1>2, FailuresSeen

LEMMA CrashBalances ==
  ASSUME IInv, NEW n \in Node, Crash(n)
  PROVE  Balances
<1> SUFFICES ASSUME PacketsConserved PROVE PacketsConserved'
  BY DEF Balances
<1>1. stats \in [Node -> Counters] /\ stats' = [stats EXCEPT ![n] = NoStats]
  BY DEF IInv, Domains, Crash
<1>2. ASSUME NEW m \in Node, NEW x \in Packet \X Frames
      PROVE  Busy(x, m)' <=> Busy(x, m) /\ m # n
  <2>1. x[1] \in Packet
    OBVIOUS
  <2>2. /\ DOMAIN frames'[x[1]] = DOMAIN frames[x[1]]
        /\ \A i \in DOMAIN frames[x[1]] :
             frames'[x[1]][i] = IF Lives(frames[x[1]][i], n) THEN To(frames[x[1]][i], "gone") ELSE frames[x[1]][i]
        /\ \A i \in DOMAIN frames[x[1]] : frames[x[1]][i] \in Frame
    BY <2>1, CrashMoves, ChainType DEF IInv, Domains
  <2>3. CASE x[2] \in DOMAIN frames[x[1]]
    <3> DEFINE f == frames[x[1]][x[2]]
    <3>1. f \in Frame
      BY <2>2, <2>3
    <3>2. CASE Lives(f, n)
      <4>1. frames'[x[1]][x[2]] = To(f, "gone")
        BY <2>2, <2>3, <3>2
      <4> HIDE DEF f
      <4>2. To(f, "gone").pc = "gone"
        BY <3>1, ToType
      <4>3. ~Lives(To(f, "gone"), m) /\ (Lives(f, m) => m = n)
        BY <3>2, <4>2, InActive DEF Lives
      <4>4. QED
        BY <2>2, <2>3, <4>1, <4>3 DEF Busy, f, Counts, Lives
    <3>3. CASE ~Lives(f, n)
      BY <2>2, <2>3, <3>3 DEF Busy, Counts, Lives
    <3>4. QED
      BY <3>2, <3>3
  <2>4. CASE x[2] \notin DOMAIN frames[x[1]]
    BY <2>2, <2>4 DEF Busy
  <2>5. QED
    BY <2>3, <2>4
<1>3. \A m \in Node : Occupied(m) = {x \in Packet \X Frames : Busy(x, m)}
  BY DEF Occupied, Busy
<1>4. \A m \in Node : Occupied(m)' = {x \in Packet \X Frames : Busy(x, m)'}
  BY DEF Occupied, Busy, Frames
<1>5. \A m \in Node : Occupied(m)' = IF m = n THEN {} ELSE Occupied(m)
  BY <1>2, <1>3, <1>4
<1>6. \A m \in Node : Open(stats'[m]) = IF m = n THEN 0 ELSE Open(stats[m])
  BY <1>1, OpenOf
<1>7. ASSUME NEW m \in Node
      PROVE  Open(stats'[m]) = Cardinality(Occupied(m)') /\ Cardinality(Occupied(m)') \in Nat
  <2>1. Open(stats[m]) = Cardinality(Occupied(m)) /\ Cardinality(Occupied(m)) \in Nat
    BY ConservedMeans, OccupiedFinite
  <2>2. QED
    BY <1>5, <1>6, <2>1, FS_EmptySet
<1>8. stats' \in [Node -> Counters]
  BY <1>1, CountersUp
<1>9. QED
  BY <1>7, <1>8, Conserves

LEMMA CrashStep ==
  ASSUME IInv, NEW n \in Node, Crash(n)
  PROVE  IInv' /\ Seen /\ Keeps /\ Balances
<1>1. Domains /\ UNCHANGED <<packet, expired, inflight, delivered, changes>>
  BY DEF IInv, Crash, asking
<1>2. frames' \in [Packet -> Seq(Frame)]
  <2> DEFINE g(q) == [i \in DOMAIN frames[q] |->
                       IF Lives(frames[q][i], n) THEN [frames[q][i] EXCEPT !.pc = "gone"] ELSE frames[q][i]]
  <2>1. frames' = [q \in Packet |-> g(q)]
    BY DEF Crash
  <2> HIDE DEF g
  <2>2. \A q \in Packet : g(q) \in Seq(Frame)
    BY <2>1, CrashMoves
  <2>3. QED
    BY <2>1, <2>2
<1>3. stats' \in [Node -> Counters]
  BY <1>1, CountersUp DEF Crash, Domains
<1>4. table' \in [Node -> [Destination -> Node \cup {None}]] /\ entries' \in [Node -> SUBSET Node]
  BY <1>1 DEF Crash, Domains
<1>5. broken' \subseteq Packet /\ steady' \subseteq Packet /\ faults' \in 0..MaxFaults
  BY <1>1, FaultCounts DEF Crash, Domains
<1>6. Domains'
  BY <1>1, <1>2, <1>3, <1>4, <1>5 DEF Domains
<1>7. NoSelfRoute => NoSelfRoute'
  BY <1>1, ForwardingAssumption DEF Crash, NoSelfRoute, Domains
<1>8. Keeps
  BY <1>7, QuietKeeps DEF Crash
<1>9. QED
  BY <1>3, <1>6, <1>8, CrashHolds, CrashSeen, CrashBalances DEF IInv

\* The rest of a router does nothing to the packets under way.
LEMMA QuietStep ==
  ASSUME IInv, Domains', UNCHANGED <<packet, expired, frames, inflight, delivered, broken, stats>>,
         \/ UNCHANGED <<table, steady>>
         \/ steady' = {} /\ (NoSelfRoute => NoSelfRoute')
  PROVE  IInv' /\ Seen /\ Keeps /\ Balances
<1>1. \A p \in Packet : Untouched(p)
  BY DEF Untouched
<1>2. Seen /\ Keeps /\ Balances
  BY SameSeen, NothingSeen, QuietKeeps, QuietBalances
<1>3. QED
  BY <1>1, <1>2, UntouchedStays DEF IInv

LEMMA ChangeCounts ==
  ASSUME IInv, Change
  PROVE  changes' \in 0..MaxChanges
  BY ForwardingAssumption DEF IInv, Domains, Change

LEMMA RecomputeRoutesStep ==
  ASSUME IInv, NEW n \in Node, NEW t \in [Destination -> Node \cup {None}], RecomputeRoutes(n, t)
  PROVE  IInv' /\ Seen /\ Keeps /\ Balances
<1>1. /\ table' = [table EXCEPT ![n] = t] /\ steady' = {} /\ changes' \in 0..MaxChanges
      /\ UNCHANGED <<asking, entries, frames, inflight, stats, delivered, broken, faults>>
  BY ChangeCounts DEF RecomputeRoutes
<1>2. Domains'
  BY <1>1 DEF IInv, Domains, asking
<1>3. NoSelfRoute => NoSelfRoute'
  BY <1>1, ForwardingAssumption DEF RecomputeRoutes, Tables, NoSelfRoute, IInv, Domains
<1>4. QED
  BY <1>1, <1>2, <1>3, QuietStep DEF asking

LEMMA UpdateEntriesStep ==
  ASSUME IInv, NEW n \in Node, NEW es \in SUBSET Node, UpdateEntries(n, es)
  PROVE  IInv' /\ Seen /\ Keeps /\ Balances
<1>1. /\ entries' = [entries EXCEPT ![n] = es] /\ changes' \in 0..MaxChanges
      /\ UNCHANGED <<asking, table, steady, frames, inflight, stats, delivered, broken, faults>>
  BY ChangeCounts DEF UpdateEntries
<1>2. Domains'
  BY <1>1 DEF IInv, Domains, asking
<1>3. QED
  BY <1>1, <1>2, QuietStep DEF asking

-----------------------------------------------------------------------------
(* The invariant and what follows from it. *)

LEMMA Initial == Init => IInv
<1> SUFFICES ASSUME Init PROVE IInv
  OBVIOUS
<1>1. NoStats \in Counters /\ <<>> \in Seq(Frame)
  BY DEF NoStats, Counters
<1>2. Domains
  BY <1>1, ForwardingAssumption DEF Init, Domains, NoRequest
<1>3. \A p \in Packet : Framed(p) /\ Sound(p)
  <2> TAKE p \in Packet
  <2>1. frames[p] = <<>> /\ ~inflight[p] /\ delivered[p] = 0
    BY DEF Init
  <2>2. DOMAIN frames[p] = {} /\ Len(frames[p]) = 0
    BY <2>1
  <2>3. QED
    BY <2>1, <2>2, ForwardingAssumption DEF Framed, Sound, Begun, At
<1>4. QED
  BY <1>2, <1>3 DEF IInv

LEMMA EveryStep ==
  ASSUME IInv, [Next]_vars
  PROVE  IInv' /\ Seen /\ Keeps /\ Balances
<1>1. ASSUME NEW p \in Packet, Begin(p) PROVE IInv' /\ Seen /\ Keeps /\ Balances
  <2>1. PICK n \in Node, d \in Destination :
          \/ \E timed \in BOOLEAN : SendPacket(p, n, d, timed)
          \/ \E source \in Node : DoSendPacket(p, n, source, d)
    BY <1>1 DEF Begin
  <2>2. QED
    BY <2>1, SendPacketStep, DoSendPacketStep
<1>2. ASSUME NEW p \in Packet, NEW i \in Frames, Step(p, i) PROVE IInv' /\ Seen /\ Keeps /\ Balances
  BY <1>2, GetRouteStep, CallFailsStep, CallStep, ReturnStep, GiveUpStep DEF Step
<1>3. ASSUME NEW n \in Node, NEW m \in Node,
             UpdateEntries(n, entries[n] \cup {m}) \/ UpdateEntries(n, entries[n] \ {m})
      PROVE  IInv' /\ Seen /\ Keeps /\ Balances
  <2>1. entries[n] \in SUBSET Node
    BY DEF IInv, Domains
  <2>2. entries[n] \cup {m} \in SUBSET Node /\ entries[n] \ {m} \in SUBSET Node
    BY <2>1
  <2>3. QED
    BY <1>3, <2>2, UpdateEntriesStep
<1>4. CASE Fail
  BY <1>4, LoseStep, DisconnectStep, CrashStep DEF Fail
<1>5. CASE UNCHANGED vars
  <2>1. Domains'
    BY <1>5 DEF vars, asking, tables, IInv, Domains
  <2>2. QED
    BY <1>5, <2>1, QuietStep DEF vars, asking, tables
<1>6. CASE Next
  BY <1>1, <1>2, <1>3, <1>4, <1>6, ArriveStep, ExpireStep, RecomputeRoutesStep DEF Next
<1>7. QED
  BY <1>5, <1>6

\* The inductive invariant: once a call of a chain is won, so is every later
\* one, and a packet is delivered exactly if the last one is.
THEOREM Invariant == Spec => []IInv
<1>1. IInv /\ [Next]_vars => IInv'
  BY EveryStep
<1>2. QED
  BY Initial, <1>1, PTL DEF Spec

\* The variables stay in their domains, and chains are well formed.
THEOREM TypeCorrect == Spec => []TypeOK
<1>1. IInv => TypeOK
  BY Typed
<1>2. QED
  BY Invariant, <1>1, PTL

\* Without a deadline that passed or something that broke, a packet whose
\* sender was told of a failure has not been delivered.
THEOREM FailuresAreTrue == Spec => []FailureIsHonest
<1>1. ASSUME IInv PROVE FailureIsHonest
  <2> SUFFICES ASSUME NEW p \in Packet, delivered[p] > 0, At(p, 1, "lost"), ~expired[p], p \notin broken
               PROVE  FALSE
    BY DEF FailureIsHonest
  <2>1. Sound(p) /\ DOMAIN frames[p] = 1..Len(frames[p]) /\ Len(frames[p]) \in Nat
    BY <1>1, ChainType DEF IInv, Domains
  <2>2. At(p, Len(frames[p]), "won") /\ Len(frames[p]) \in DOMAIN frames[p]
    BY <2>1 DEF Sound, At
  <2>3. frames[p][Len(frames[p])].pc = "lost"
    BY <2>1, <2>2 DEF Sound, At
  <2>4. QED
    BY <2>2, <2>3 DEF At
<1>2. QED
  BY Invariant, <1>1, PTL

\* From outside, forwarding hop by hop is PacketDelivery: a packet arrives at
\* most once, and only then is its sender told of success.
THEOREM ForwardingDelivers == Spec => ImplementsDelivery
<1>1. Init => Delivery!Init
  <2> SUFFICES ASSUME Init PROVE Delivery!Init
    OBVIOUS
  <2>1. \A p \in Packet : ~Begun(p) /\ frames[p] = <<>>
    BY DEF Init, Begun
  <2>2. \A p \in Packet : Answer(p) = "none"
    BY <2>1, Answers DEF At
  <2>3. QED
    BY <2>1, <2>2 DEF Delivery!Init, Init
<1>2. IInv /\ [Next]_vars => [Delivery!Next]_(Delivery!vars)
  BY EveryStep DEF Seen
<1>3. QED
  BY Invariant, <1>1, <1>2, PTL DEF Spec, ImplementsDelivery, Delivery!Spec

\* Tables without a circle that nobody replaces take a packet to each router
\* at most once, however many routers there are.
THEOREM CirclesComeFromTables == Spec => []LoopsNeedDisagreement
<1>1. Init => Undisturbed
  BY ForwardingAssumption DEF Init, Undisturbed, NoSelfRoute, Tables
<1>2. IInv /\ Undisturbed /\ [Next]_vars => Undisturbed'
  BY EveryStep DEF Keeps
<1>3. ASSUME IInv, Undisturbed PROVE LoopsNeedDisagreement
  <2> SUFFICES ASSUME NEW p \in steady, NEW i \in DOMAIN frames[p], NEW j \in DOMAIN frames[p],
                      Counts(frames[p][i]), Counts(frames[p][j]), frames[p][i].at = frames[p][j].at
               PROVE  i = j
    BY DEF LoopsNeedDisagreement
  <2>1. p \in Packet /\ Straight(p) /\ NoSelfRoute
    BY <1>3 DEF IInv, Domains, Undisturbed
  <2>2. ~(i < j) /\ ~(j < i)
    BY <1>3, <2>1, StraightLine
  <2>3. i \in Nat /\ j \in Nat
    BY <1>3, <2>1, ChainType DEF IInv, Domains
  <2>4. QED
    BY <2>2, <2>3
<1>4. QED
  BY Invariant, <1>1, <1>2, <1>3, PTL DEF Spec

\* Each router accounts for every packet it has taken on, once.
THEOREM StatisticsBalance == Spec => []PacketsConserved
<1>1. Init => PacketsConserved
  <2> SUFFICES ASSUME Init, NEW n \in Node
               PROVE  Cardinality(Occupied(n)) = 0 /\ stats[n] = NoStats
    BY DEF PacketsConserved, NoStats
  <2>1. \A p \in Packet : DOMAIN frames[p] = {}
    BY DEF Init
  <2>2. Occupied(n) = {}
    BY <2>1 DEF Occupied
  <2>3. QED
    BY <2>2, FS_EmptySet DEF Init
<1>2. IInv /\ PacketsConserved /\ [Next]_vars => PacketsConserved'
  BY EveryStep DEF Balances
<1>3. QED
  BY Invariant, <1>1, <1>2, PTL DEF Spec

=============================================================================
