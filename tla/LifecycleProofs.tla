--------------------------- MODULE LifecycleProofs ---------------------------
(***************************************************************************)
(* Whatever the files and the arguments say, whichever steps of Start fail *)
(* and however often an application tries again: a router has one reader   *)
(* of its events, a ticker that does not panic if the interval of the file *)
(* fits its width, and takes no request before its database is what Start  *)
(* makes of it; from then on only events take configured links away.  And  *)
(* two links between                                                       *)
(* routers have different edge ids, unless one id is another one with a    *)
(* hyphen and more behind it.                                              *)
(***************************************************************************)
EXTENDS Lifecycle, TopologyProofs, SequenceTheorems

-----------------------------------------------------------------------------
(* Edge ids. *)

\* Where the ends of two equal names have different lengths, the longer one
\* reads on, after the shorter one, with a hyphen.
LEMMA LongerEndExtends ==
  ASSUME NEW a \in Strings, NEW b \in Strings, NEW c \in Strings, NEW d \in Strings,
         a \o <<Hyphen>> \o b = c \o <<Hyphen>> \o d,
         Len(a) < Len(c)
  PROVE  Extends(c, a)
<1> DEFINE s == a \o <<Hyphen>> \o b
           t == c \o <<Hyphen>> \o d
<1>1. \A i \in 1..Len(a) : s[i] = a[i]
  BY DEF Strings
<1>2. s[Len(a) + 1] = Hyphen
  BY DEF Strings, Hyphen
<1>3. \A i \in 1..Len(c) : t[i] = c[i]
  BY DEF Strings
<1>4. Len(a) \in Nat /\ Len(c) \in Nat
  BY DEF Strings
<1>5. s = t
  OBVIOUS
<1> HIDE DEF s, t
<1>6. QED
  BY <1>1, <1>2, <1>3, <1>4, <1>5 DEF Extends

LEMMA SameEnds ==
  ASSUME NEW a \in Strings, NEW b \in Strings, NEW c \in Strings, NEW d \in Strings,
         a \o <<Hyphen>> \o b = c \o <<Hyphen>> \o d,
         ~Extends(a, c), ~Extends(c, a)
  PROVE  a = c /\ b = d
<1> DEFINE s == a \o <<Hyphen>> \o b
           t == c \o <<Hyphen>> \o d
<1>1. Len(a) \in Nat /\ Len(b) \in Nat /\ Len(c) \in Nat /\ Len(d) \in Nat
  BY DEF Strings
<1>2. Len(a) = Len(c)
  <2>1. ~(Len(a) < Len(c))
    BY LongerEndExtends, Zenon
  <2>2. ~(Len(c) < Len(a))
    BY LongerEndExtends, Zenon
  <2>3. QED
    BY <1>1, <2>1, <2>2
<1>3. Len(s) = Len(a) + 1 + Len(b) /\ Len(t) = Len(c) + 1 + Len(d)
  BY DEF Strings
<1>4. /\ \A i \in 1..Len(a) : s[i] = a[i]
      /\ \A i \in 1..Len(c) : t[i] = c[i]
  BY DEF Strings
<1>5. /\ \A i \in 1..Len(b) : s[Len(a) + 1 + i] = b[i]
      /\ \A i \in 1..Len(d) : t[Len(c) + 1 + i] = d[i]
  BY DEF Strings
<1>6. s = t
  OBVIOUS
<1> HIDE DEF s, t
<1>7. Len(b) = Len(d)
  BY <1>1, <1>2, <1>3, <1>6
<1>8. \A i \in 1..Len(a) : a[i] = c[i]
  BY <1>2, <1>4, <1>6
<1>9. \A i \in 1..Len(b) : b[i] = d[i]
  BY <1>2, <1>5, <1>6, <1>7
<1>10. a = c
  BY <1>2, <1>8, SeqEqual DEF Strings
<1>11. b = d
  BY <1>7, <1>9, SeqEqual DEF Strings
<1>12. QED
  BY <1>10, <1>11

\* Links with the same edge id have the same ends, as long as no id is another
\* one with a hyphen and more behind it (node.go: makeEdgeID).
THEOREM EdgeIdsTellLinksApart ==
  ASSUME NEW ids \in SUBSET Strings, Unmistakable(ids),
         NEW a \in ids, NEW b \in ids, NEW c \in ids, NEW d \in ids,
         makeEdgeID(a, b) = makeEdgeID(c, d)
  PROVE  {a, b} = {c, d}
<1>1. PICK p \in ids, q \in ids : {p, q} = {a, b} /\ makeEdgeID(a, b) = p \o <<Hyphen>> \o q
  BY DEF makeEdgeID
<1>2. PICK u \in ids, v \in ids : {u, v} = {c, d} /\ makeEdgeID(c, d) = u \o <<Hyphen>> \o v
  BY DEF makeEdgeID
<1>3. p = u /\ q = v
  <2>1. p \o <<Hyphen>> \o q = u \o <<Hyphen>> \o v
    BY <1>1, <1>2
  <2>2. ~Extends(p, u) /\ ~Extends(u, p)
    BY DEF Unmistakable
  <2>3. p \in Strings /\ q \in Strings /\ u \in Strings /\ v \in Strings
    OBVIOUS
  <2>4. QED
    BY <2>1, <2>2, <2>3, SameEnds
<1>4. QED
  BY <1>1, <1>2, <1>3

-----------------------------------------------------------------------------
(* Start and what follows it. *)

InPlace(e) == HasLink(topo, e.from, e.to) \/ {e.from, e.to} \in withdrawn

AllInPlace == \A i \in DOMAIN rc.edges : InPlace(rc.edges[i])

\* The interval is set before the loops are started.
IntervalIsSet ==
  /\ loops > 0 => step \notin {"new", "configured", "exited"}
  /\ /\ step \notin {"new", "configured", "exited"}
     /\ rc.app.interval * Second <= MaxDuration
     => interval > 0

\* serf keeps its port from the moment it is created, so nothing but the first
\* Start that has come to the loops can start them.
PortIsHeld ==
  /\ step \in {"member", "entered"} => loops = 0
  /\ step \in {"member", "entered", "syncing", "listening", "up"} => serf
  /\ loops = 0 \/ (loops = 1 /\ serf)

\* The links that were put into the database are there.
LinkedSoFar ==
  step = "entered" =>
    /\ rc.id \in topo.nodes
    /\ \A i \in DOMAIN rc.edges : i \in linked => HasLink(topo, rc.edges[i].from, rc.edges[i].to)

\* Requests come after all of it, and are gone when Start can be called again.
ServesLate ==
  /\ serving => step \in {"listening", "up"}
  /\ requests > 0 => step \in {"listening", "up", "stopping"}
  /\ step \in {"syncing", "listening", "up"} \/ requests > 0 =>
       rc.id \in topo.nodes /\ AllInPlace /\ loops > 0

IInv == TypeOK /\ IntervalIsSet /\ PortIsHeld /\ LinkedSoFar /\ ServesLate

LEMMA CostIsNotNoLink == \A c \in Cost : c # NoLink
  BY TopologyAssumption

LEMMA LoadAppConfigType ==
  ASSUME NEW app \in AppFiles
  PROVE  LoadAppConfig(app) \in AppFile
<1>1. CASE app = Unreadable
  BY <1>1 DEF LoadAppConfig, AppFile, AppDefaults
<1>2. CASE app # Unreadable
  <2>1. app \in AppFile
    BY <1>2, LifecycleAssumption
  <2>2. app.output \in {"", "file", "stdout"}
    BY <2>1 DEF AppFile
  <2>3. app.interval \in Int /\ AppDefaults.interval \in Int
    <3>1. app.interval \in Int
      BY <2>1 DEF AppFile
    <3>2. AppDefaults.interval = 30
      BY DEF AppDefaults
    <3>3. QED
      BY <3>1, <3>2
  <2>4. PICK o \in {"", "file", "stdout"}, n \in Int : LoadAppConfig(app) = [output |-> o, interval |-> n]
    <3>1. (IF app.output = "" THEN AppDefaults.output ELSE app.output) \in {"", "file", "stdout"}
      BY <2>2 DEF AppDefaults
    <3>2. (IF app.interval = 0 THEN AppDefaults.interval ELSE app.interval) \in Int
      BY <2>3, Zenon
    <3>3. QED
      BY <1>2, <3>1, <3>2, Zenon DEF LoadAppConfig
  <2>5. \A S : \A out \in S, t \in Int : [output |-> out, interval |-> t] \in [output : S, interval : Int]
    OBVIOUS
  <2>6. QED
    BY <2>4, <2>5, Zenon DEF AppFile
<1>3. QED
  BY <1>1, <1>2

LEMMA GetNodeConfigType ==
  ASSUME NEW f \in TopologyFile, NEW name, HasNode(f, name)
  PROVE  GetNodeConfig(f, name) \in NodeConfig
  BY DEF HasNode, GetNodeConfig, TopologyFile

LEMMA GetNodeEdgesType ==
  ASSUME NEW f \in TopologyFile, NEW id
  PROVE  /\ DOMAIN GetNodeEdges(f, id) \subseteq Nat
         /\ \A i \in DOMAIN GetNodeEdges(f, id) : GetNodeEdges(f, id)[i] \in EdgeConfig
<1>1. f.edges \in Seq(EdgeConfig)
  BY DEF TopologyFile
<1>2. DOMAIN f.edges \subseteq Nat
  BY <1>1
<1>3. \A i \in DOMAIN f.edges : f.edges[i] \in EdgeConfig
  BY <1>1
<1>4. QED
  BY <1>2, <1>3 DEF GetNodeEdges, EdgesAt

\* Whatever way a router is configured, its id is not empty.
LEMMA LoadRuntimeConfigType ==
  ASSUME NEW app \in AppFiles, NEW f \in TopologyFile \cup {Unreadable}, NEW args \in Arguments,
         Loadable(f, args)
  PROVE  IsRuntimeConfig(LoadRuntimeConfig(app, f, args))
<1> DEFINE node == [args EXCEPT !.id = IF @ = NoName THEN DefaultId ELSE @]
<1>1. CASE args.node # NoName
  <2>1. f \in TopologyFile /\ HasNode(f, args.node)
    BY <1>1 DEF Loadable
  <2>2. GetNodeConfig(f, args.node) \in NodeConfig
    BY <2>1, GetNodeConfigType
  <2>3. LoadRuntimeConfig(app, f, args) =
          Merged(app, GetNodeConfig(f, args.node), GetNodeEdges(f, args.node))
    BY <1>1 DEF LoadRuntimeConfig
  <2>4. QED
    BY <2>1, <2>2, <2>3, LoadAppConfigType, GetNodeEdgesType DEF Merged, IsRuntimeConfig, NodeConfig
<1>2. CASE args.node = NoName
  <2>1. node.id \in Node /\ node.join \in BOOLEAN
    BY LifecycleAssumption DEF Arguments
  <2>2. LoadRuntimeConfig(app, f, args) = Merged(app, node, NoEdges)
    BY <1>2 DEF LoadRuntimeConfig
  <2>3. DOMAIN NoEdges = {}
    BY DEF NoEdges
  <2>4. QED
    BY <2>1, <2>2, <2>3, LoadAppConfigType DEF Merged, IsRuntimeConfig
<1>3. QED
  BY <1>1, <1>2

LEMMA InitIInv == Init => IInv
<1> SUFFICES ASSUME Init PROVE IInv
  OBVIOUS
<1>1. TypeOK
  <2>1. file \in TopologyFile \cup {Unreadable}
    BY LifecycleAssumption DEF Init
  <2>2. topo \in Topologies
    BY NewTopologyType DEF Init
  <2>3. logFile \in BOOLEAN /\ serf \in BOOLEAN /\ printer \in BOOLEAN /\ serving \in BOOLEAN
    BY DEF Init
  <2>4. /\ interval \in Int /\ linked \subseteq Nat /\ withdrawn \subseteq SUBSET Node
        /\ loops \in Nat /\ requests \in 0..MaxRequests /\ untimed \in 0..requests
    BY LifecycleAssumption DEF Init, DefaultInterval
  <2>5. host \in {"tool", "sdk"} /\ step = "new" /\ rc = Unreadable
    BY DEF Init
  <2>6. QED
    BY <2>1, <2>2, <2>3, <2>4, <2>5 DEF TypeOK, Steps
<1>2. IntervalIsSet
  BY DEF Init, IntervalIsSet
<1>3. PortIsHeld /\ LinkedSoFar /\ ServesLate
  BY DEF Init, PortIsHeld, LinkedSoFar, ServesLate
<1>4. QED
  BY <1>1, <1>2, <1>3 DEF IInv

-----------------------------------------------------------------------------
(* Steps that fail, or end the process. *)

LEMMA ExitIInv ==
  ASSUME IInv, Exit, UNCHANGED <<host, file, interval, topo, linked, withdrawn, announced>>,
         rc' = rc \/ IsRuntimeConfig(rc')
  PROVE  IInv'
<1>1. (rc = Unreadable \/ IsRuntimeConfig(rc))'
  BY DEF IInv, TypeOK, IsRuntimeConfig
<1>2. TypeOK'
  <2>1. /\ (step = "exited" /\ loops = 0 /\ requests = 0 /\ untimed = 0)'
        /\ (logFile \in BOOLEAN /\ serf \in BOOLEAN /\ printer \in BOOLEAN /\ serving \in BOOLEAN)'
    BY DEF Exit
  <2>2. (requests \in 0..MaxRequests /\ untimed \in 0..requests)'
    BY <2>1, LifecycleAssumption
  <2>3. (host \in {"tool", "sdk"} /\ file \in TopologyFile \cup {Unreadable} /\ interval \in Int
           /\ topo \in Topologies /\ linked \subseteq Nat /\ withdrawn \subseteq SUBSET Node)'
    BY DEF IInv, TypeOK
  <2>4. QED
    BY <1>1, <2>1, <2>2, <2>3 DEF TypeOK, Steps
<1>3. IntervalIsSet' /\ PortIsHeld' /\ LinkedSoFar' /\ ServesLate'
  BY DEF IInv, IntervalIsSet, PortIsHeld, LinkedSoFar, ServesLate, Exit
<1>4. QED
  BY <1>2, <1>3 DEF IInv

LEMMA FailIInv ==
  ASSUME IInv, NEW back \in {"new", "failed"}, Fail(back), requests = 0, ~serving,
         step \in {"configured", "initialised", "failed", "stopped", "member", "syncing"},
         step = "configured" <=> back = "new",
         UNCHANGED <<host, file, rc, interval, topo, linked, withdrawn, announced>>
  PROVE  IInv'
<1>1. CASE host = "tool"
  BY <1>1, ExitIInv DEF Fail
<1>2. CASE host # "tool"
  <2>1. step' = back /\ UNCHANGED <<running, load, logFile>>
    BY <1>2 DEF Fail
  <2>2. TypeOK'
    BY <2>1 DEF IInv, TypeOK, IsRuntimeConfig, running, load, Steps
  <2>3. IntervalIsSet'
    BY <2>1 DEF IInv, IntervalIsSet, running
  <2>4. PortIsHeld' /\ LinkedSoFar' /\ ServesLate'
    BY <2>1 DEF IInv, TypeOK, PortIsHeld, LinkedSoFar, ServesLate, running, load
  <2>5. QED
    BY <2>2, <2>3, <2>4 DEF IInv
<1>3. QED
  BY <1>1, <1>2

LEMMA FailingIInv == ASSUME IInv, Failing PROVE IInv'
<1>1. requests = 0 /\ ~serving
  BY DEF IInv, TypeOK, ServesLate, Failing, LoggerFails, CreateFails, JoinFails, ListenFails, Startable
<1>2. QED
  BY <1>1, FailIInv
  DEF Failing, LoggerFails, CreateFails, JoinFails, ListenFails, Startable

LEMMA LoadConfigIInv ==
  ASSUME IInv, NEW app \in AppFiles, NEW args \in Arguments, LoadConfig(app, args)
  PROVE  IInv'
<1>1. requests = 0 /\ ~serving
  BY DEF IInv, TypeOK, ServesLate, LoadConfig
<1>2. CASE Loadable(file, args)
  <2>1. IsRuntimeConfig(rc')
    BY <1>2, LoadRuntimeConfigType DEF LoadConfig, IInv, TypeOK
  <2>2. IsRuntimeConfig(rc)'
    BY <2>1 DEF IsRuntimeConfig
  <2>3. QED
    BY <1>1, <1>2, <2>2
    DEF LoadConfig, IInv, TypeOK, IntervalIsSet, PortIsHeld, LinkedSoFar, ServesLate, running, load, Steps
<1>3. CASE ~Loadable(file, args) /\ host = "tool"
  BY <1>3, ExitIInv DEF LoadConfig, Fail
<1>4. CASE ~Loadable(file, args) /\ host # "tool"
  BY <1>1, <1>4
  DEF LoadConfig, Fail, IInv, TypeOK, IsRuntimeConfig, IntervalIsSet, PortIsHeld, LinkedSoFar,
      ServesLate, running, load, Steps
<1>5. QED
  BY <1>2, <1>3, <1>4

-----------------------------------------------------------------------------
(* Steps that succeed. *)

\* A number that fits is what it was.
LEMMA WrapKeeps ==
  ASSUME NEW n \in 0..MaxDuration
  PROVE  Wrap(n) = n
<1>1. MaxDuration \in Nat
  BY LifecycleAssumption
<1>2. \A x, y \in Nat : x < y => x % y = x
  OBVIOUS
<1>3. (n + MaxDuration + 1) % (2 * (MaxDuration + 1)) = n + MaxDuration + 1
  <2> DEFINE x == n + MaxDuration + 1
             y == 2 * (MaxDuration + 1)
  <2>1. x \in Nat /\ y \in Nat /\ x < y
    BY <1>1
  <2> HIDE DEF x, y
  <2>2. x % y = x
    BY <1>2, <2>1
  <2>3. QED
    BY <2>2 DEF x, y
<1>4. QED
  BY <1>1, <1>3 DEF Wrap

LEMMA SecondsType ==
  ASSUME NEW n \in Int
  PROVE  /\ Seconds(n) \in Int
         /\ n > 0 /\ n * Second <= MaxDuration => Seconds(n) > 0
<1>1. Second \in Nat \ {0} /\ MaxDuration \in Nat
  BY LifecycleAssumption
<1>2. n * Second \in Int /\ (n > 0 => n * Second > 0)
  BY <1>1
<1>3. Seconds(n) \in Int
  <2> DEFINE x == n * Second + MaxDuration + 1
             y == 2 * (MaxDuration + 1)
  <2>1. x \in Int /\ y \in Nat \ {0}
    BY <1>1, <1>2
  <2> HIDE DEF x, y
  <2>2. x % y \in Int
    BY <2>1
  <2>3. QED
    BY <1>1, <2>2 DEF x, y, Seconds, Wrap
<1>4. ASSUME n > 0, n * Second <= MaxDuration
      PROVE  Seconds(n) > 0
  <2>1. n * Second \in 0..MaxDuration
    BY <1>1, <1>2, <1>4
  <2>2. QED
    BY <1>2, <1>4, <2>1, WrapKeeps DEF Seconds
<1>5. QED
  BY <1>3, <1>4

LEMMA InitNodeIInv == ASSUME IInv, InitNode PROVE IInv'
<1>1. IsRuntimeConfig(rc) /\ rc.app.interval \in Int
  BY DEF IInv, TypeOK, InitNode, IsRuntimeConfig, AppFile
<1>2. requests = 0 /\ ~serving /\ loops = 0
  BY DEF IInv, TypeOK, IntervalIsSet, ServesLate, InitNode
<1>3. /\ interval' \in Int
      /\ rc.app.interval * Second <= MaxDuration => interval' > 0
  <2>1. CASE rc.app.interval > 0
    BY <1>1, <2>1, SecondsType DEF InitNode
  <2>2. CASE ~(rc.app.interval > 0)
    <3>1. interval' = 30 * Second
      BY <2>2 DEF InitNode, DefaultInterval
    <3>2. QED
      BY <3>1, LifecycleAssumption
  <2>3. QED
    BY <2>1, <2>2
<1>4. topo' \in Topologies
  BY NewTopologyType DEF InitNode
<1>5. TypeOK'
  BY <1>3, <1>4 DEF IInv, TypeOK, IsRuntimeConfig, InitNode, running, load, Steps
<1>6. IntervalIsSet'
  BY <1>2, <1>3 DEF IntervalIsSet, InitNode, running
<1>7. PortIsHeld' /\ LinkedSoFar' /\ ServesLate'
  BY <1>2 DEF IInv, PortIsHeld, LinkedSoFar, ServesLate, InitNode, running, load
<1>8. QED
  BY <1>5, <1>6, <1>7 DEF IInv

LEMMA CreateSerfIInv == ASSUME IInv, CreateSerf PROVE IInv'
  BY DEF IInv, TypeOK, IsRuntimeConfig, IntervalIsSet, PortIsHeld, LinkedSoFar, ServesLate,
         CreateSerf, Startable, setting, load, Steps

LEMMA EnterSelfIInv == ASSUME IInv, EnterSelf PROVE IInv'
<1>1. rc.id \in Node /\ IsRuntimeConfig(rc)
  BY DEF IInv, TypeOK, EnterSelf, IsRuntimeConfig
<1>2. topo' \in Topologies
  BY <1>1, AddNodeType DEF IInv, TypeOK, EnterSelf
<1>3. rc.id \in topo'.nodes
  BY <1>1 DEF EnterSelf, AddNode, IInv, TypeOK, Topologies
<1>4. TypeOK'
  BY <1>2 DEF IInv, TypeOK, IsRuntimeConfig, EnterSelf, setting, running, load, Steps
<1>5. IntervalIsSet' /\ PortIsHeld' /\ LinkedSoFar' /\ ServesLate'
  BY <1>3
  DEF IInv, TypeOK, IntervalIsSet, PortIsHeld, LinkedSoFar, ServesLate, EnterSelf, setting, running, load
<1>6. QED
  BY <1>4, <1>5 DEF IInv

\* A link that is set stays, and sets no other one free.
LEMMA UpdateLinkKeeps ==
  ASSUME NEW t \in Topologies, NEW a \in Node, NEW b \in Node, NEW c \in Cost
  PROVE  /\ UpdateLink(t, a, b, c) \in Topologies
         /\ UpdateLink(t, a, b, c).nodes = t.nodes
         /\ HasLink(UpdateLink(t, a, b, c), a, b)
         /\ \A x, y \in Node : HasLink(t, x, y) => HasLink(UpdateLink(t, a, b, c), x, y)
<1>1. UpdateLink(t, a, b, c) \in Topologies
  BY UpdateLinkType
<1>2. UpdateLink(t, a, b, c).nodes = t.nodes
  BY DEF UpdateLink, Topologies
<1>3. \A x, y \in Node : UpdateLink(t, a, b, c).edges[x][y] =
        IF (x = a /\ y = b) \/ (x = b /\ y = a) THEN c ELSE t.edges[x][y]
  BY UpdateLinkEdges
<1>4. c # NoLink
  BY CostIsNotNoLink
<1>5. QED
  BY <1>1, <1>2, <1>3, <1>4 DEF HasLink

LEMMA ConfigureEdgeIInv ==
  ASSUME IInv, NEW i \in DOMAIN rc.edges, ConfigureEdge(i)
  PROVE  IInv'
<1>1. IsRuntimeConfig(rc)
  BY DEF IInv, TypeOK, ConfigureEdge
<1>2. i \in Nat /\ rc.edges[i].from \in Node /\ rc.edges[i].to \in Node /\ rc.edges[i].cost \in Cost
  BY <1>1 DEF IsRuntimeConfig, EdgeConfig
<1>3. \A j \in DOMAIN rc.edges : rc.edges[j].from \in Node /\ rc.edges[j].to \in Node
  BY <1>1 DEF IsRuntimeConfig, EdgeConfig
<1>4. /\ topo' \in Topologies
      /\ topo'.nodes = topo.nodes
      /\ HasLink(topo', rc.edges[i].from, rc.edges[i].to)
      /\ \A x, y \in Node : HasLink(topo, x, y) => HasLink(topo', x, y)
  BY <1>2, UpdateLinkKeeps DEF ConfigureEdge, IInv, TypeOK
<1>5. TypeOK'
  BY <1>1, <1>2, <1>4 DEF IInv, TypeOK, IsRuntimeConfig, ConfigureEdge, setting, running, load
<1>6. LinkedSoFar'
  BY <1>3, <1>4 DEF IInv, LinkedSoFar, HasLink, ConfigureEdge, setting
<1>7. IntervalIsSet' /\ PortIsHeld' /\ ServesLate'
  BY DEF IInv, TypeOK, IntervalIsSet, PortIsHeld, ServesLate, ConfigureEdge, setting, running, load
<1>8. QED
  BY <1>5, <1>6, <1>7 DEF IInv

LEMMA StartSyncIInv == ASSUME IInv, StartSync PROVE IInv'
<1>1. TypeOK'
  BY DEF IInv, TypeOK, IsRuntimeConfig, StartSync, setting, load, Steps
<1>2. AllInPlace' /\ (rc.id \in topo.nodes)'
  BY DEF IInv, LinkedSoFar, AllInPlace, InPlace, HasLink, StartSync, setting
<1>3. IntervalIsSet' /\ PortIsHeld' /\ LinkedSoFar'
  BY DEF IInv, IntervalIsSet, PortIsHeld, LinkedSoFar, StartSync, setting
<1>4. ServesLate'
  BY <1>2 DEF IInv, TypeOK, PortIsHeld, ServesLate, StartSync, setting, load
<1>5. QED
  BY <1>1, <1>3, <1>4 DEF IInv

\* The steps that leave configuration and database as they are.
Serving == Listen \/ Up \/ Arrive \/ Answer \/ AnswerUntimed \/ Stop

LEMMA ServingIInv ==
  ASSUME IInv, Serving
  PROVE  IInv'
<1> USE DEF Serving
<1>1. AllInPlace' = AllInPlace
  BY DEF AllInPlace, InPlace, HasLink, Listen, Up, Arrive, Answer, AnswerUntimed, Stop, setting
<1>2. TypeOK'
  <2>1. (step \in Steps \ {"new", "exited"} /\ printer \in BOOLEAN /\ serving \in BOOLEAN)'
        \/ UNCHANGED <<step, printer, serving>>
    BY DEF Listen, Up, Arrive, Answer, AnswerUntimed, Stop, running, setting, Steps, IInv, TypeOK
  <2>2. (requests \in 0..MaxRequests /\ untimed \in 0..requests)'
    BY LifecycleAssumption
    DEF IInv, TypeOK, Listen, Up, Arrive, Take, Answer, AnswerUntimed, Stop, load
  <2>3. step' \in {"new", "exited"} => step = step'
    BY DEF Listen, Up, Arrive, Answer, AnswerUntimed, Stop
  <2>4. step \in {"new", "exited"} => step' = step
    BY DEF Listen, Up, Arrive, Answer, AnswerUntimed, Stop
  <2>5. UNCHANGED <<setting, serf, loops, topo, linked, withdrawn>>
    BY DEF Listen, Up, Arrive, Answer, AnswerUntimed, Stop, running
  <2>6. QED
    BY <2>1, <2>2, <2>3, <2>4, <2>5 DEF IInv, TypeOK, IsRuntimeConfig, setting
<1>3. PortIsHeld' /\ LinkedSoFar'
  BY DEF IInv, PortIsHeld, LinkedSoFar, Listen, Up, Arrive, Answer, AnswerUntimed, Stop, setting, running
<1>4. IntervalIsSet'
  BY DEF IInv, IntervalIsSet, Listen, Up, Arrive, Answer, AnswerUntimed, Stop, setting, running
<1>5. ServesLate'
  <2>1. CASE Listen \/ Up \/ Stop
    BY <1>1, <2>1 DEF IInv, TypeOK, PortIsHeld, ServesLate, Listen, Up, Stop, setting, running, load
  <2>2. CASE Arrive \/ Answer \/ AnswerUntimed
    <3>1. /\ UNCHANGED <<rc, serving, step, topo, loops>>
          /\ requests' > 0 => serving \/ requests > 0
      BY <2>2 DEF IInv, TypeOK, Arrive, Take, Answer, AnswerUntimed, setting, running
    <3>2. QED
      BY <1>1, <3>1 DEF IInv, ServesLate
  <2>3. QED
    BY <2>1, <2>2
<1>6. QED
  BY <1>2, <1>3, <1>4, <1>5 DEF IInv

\* What an event takes out of the database it leaves a note of.
LEMMA HandleEventIInv == ASSUME IInv, HandleEvent PROVE IInv'
<1>1. /\ UNCHANGED <<setting, step, running, linked, load>> /\ loops > 0
  BY DEF HandleEvent, HandleNodeJoin, HandleNodeLeave, HandleLinkUpdate, HandleLinkRemoval, Event
<1>2. topo \in Topologies /\ step \notin {"new", "exited"} /\ IsRuntimeConfig(rc)
  BY <1>1 DEF IInv, TypeOK, IntervalIsSet
<1>3. /\ topo' \in Topologies /\ withdrawn' \subseteq SUBSET Node
      /\ \A n \in topo.nodes : n = rc.id => n \in topo'.nodes
      /\ \A e \in EdgeConfig : InPlace(e) => InPlace(e)'
  <2>1. CASE \E m \in Members : HandleNodeJoin(m)
    <3>1. PICK m \in Members : HandleNodeJoin(m)
      BY <2>1
    <3>2. m \in Node
      BY LifecycleAssumption
    <3>3. topo' \in Topologies /\ topo'.edges = topo.edges /\ topo.nodes \subseteq topo'.nodes
      BY <1>2, <3>1, <3>2, AddNodeType DEF HandleNodeJoin, AddNode, Topologies
    <3>4. withdrawn' = withdrawn
      BY <3>1 DEF HandleNodeJoin
    <3>5. QED
      BY <3>3, <3>4 DEF InPlace, HasLink, IInv, TypeOK
  <2>2. CASE \E m \in Members : HandleNodeLeave(m)
    <3>1. PICK m \in Members : HandleNodeLeave(m)
      BY <2>2
    <3>2. m \in Node
      BY LifecycleAssumption
    <3>3. /\ m # rc.id /\ topo' = RemoveNode(topo, m)
          /\ withdrawn' = withdrawn \cup {{m, a} : a \in Node}
      BY <3>1 DEF HandleNodeLeave
    <3>4. topo' \in Topologies /\ topo'.nodes = topo.nodes \ {m}
      BY <1>2, <3>2, <3>3, RemoveNodeType DEF RemoveNode
    <3>5. withdrawn' \subseteq SUBSET Node
      BY <3>2, <3>3 DEF IInv, TypeOK
    <3>6. ASSUME NEW e \in EdgeConfig, InPlace(e)
          PROVE  InPlace(e)'
      <4>1. e.from \in Node /\ e.to \in Node
        BY DEF EdgeConfig
      <4>2. CASE m \in {e.from, e.to}
        <5>1. {e.from, e.to} \in {{m, a} : a \in Node}
          BY <4>1, <4>2
        <5>2. QED
          BY <3>3, <5>1 DEF InPlace
      <4>3. CASE m \notin {e.from, e.to}
        <5>1. topo'.edges[e.from][e.to] = topo.edges[e.from][e.to]
          BY <1>2, <3>2, <3>3, <4>1, <4>3, RemoveNodeEdges
        <5>2. QED
          BY <3>3, <3>6, <5>1 DEF InPlace, HasLink
      <4>4. QED
        BY <4>2, <4>3
    <3>7. QED
      BY <3>3, <3>4, <3>5, <3>6
  <2>3. CASE \E e \in Learnt : HandleLinkUpdate(e)
    <3>1. PICK u \in Learnt : HandleLinkUpdate(u)
      BY <2>3
    <3>2. u.from \in Node /\ u.to \in Node /\ u.cost \in Cost
      BY LifecycleAssumption DEF EdgeConfig
    <3>3. /\ topo' = UpdateLink(topo, u.from, u.to, u.cost)
          /\ withdrawn' = withdrawn \ {{u.from, u.to}}
      BY <3>1 DEF HandleLinkUpdate
    <3>4. topo' \in Topologies /\ topo'.nodes = topo.nodes /\ withdrawn' \subseteq SUBSET Node
      BY <1>2, <3>2, <3>3, UpdateLinkKeeps DEF IInv, TypeOK
    <3>5. ASSUME NEW e \in EdgeConfig, InPlace(e)
          PROVE  InPlace(e)'
      <4>1. e.from \in Node /\ e.to \in Node
        BY DEF EdgeConfig
      <4>2. topo'.edges[e.from][e.to] =
              IF (e.from = u.from /\ e.to = u.to) \/ (e.from = u.to /\ e.to = u.from)
              THEN u.cost ELSE topo.edges[e.from][e.to]
        BY <1>2, <3>2, <3>3, <4>1, UpdateLinkEdges
      <4>3. u.cost # NoLink
        BY <3>2, CostIsNotNoLink
      <4>4. CASE {e.from, e.to} = {u.from, u.to}
        <5>1. (e.from = u.from /\ e.to = u.to) \/ (e.from = u.to /\ e.to = u.from)
          BY <4>4
        <5>2. QED
          BY <4>2, <4>3, <5>1 DEF InPlace, HasLink
      <4>5. CASE {e.from, e.to} # {u.from, u.to}
        BY <3>3, <3>5, <4>2, <4>5 DEF InPlace, HasLink
      <4>6. QED
        BY <4>4, <4>5
    <3>6. QED
      BY <3>4, <3>5
  <2>4. CASE \E e \in Learnt : HandleLinkRemoval(e)
    <3>1. PICK u \in Learnt : HandleLinkRemoval(u)
      BY <2>4
    <3>2. u.from \in Node /\ u.to \in Node
      BY LifecycleAssumption DEF EdgeConfig
    <3>3. /\ topo' = RemoveLink(topo, u.from, u.to)
          /\ withdrawn' = withdrawn \cup {{u.from, u.to}}
      BY <3>1 DEF HandleLinkRemoval
    <3>4. topo' \in Topologies /\ topo'.nodes = topo.nodes /\ withdrawn' \subseteq SUBSET Node
      <4>1. topo' \in Topologies
        BY <1>2, <3>2, <3>3, RemoveLinkType
      <4>2. topo'.nodes = topo.nodes
        BY <1>2, <3>3 DEF RemoveLink, Topologies
      <4>3. {u.from, u.to} \in SUBSET Node
        BY <3>2
      <4>4. QED
        BY <3>3, <4>1, <4>2, <4>3 DEF IInv, TypeOK
    <3>5. ASSUME NEW e \in EdgeConfig, InPlace(e)
          PROVE  InPlace(e)'
      <4>1. e.from \in Node /\ e.to \in Node
        BY DEF EdgeConfig
      <4>2. topo'.edges[e.from][e.to] =
              IF (e.from = u.from /\ e.to = u.to) \/ (e.from = u.to /\ e.to = u.from)
              THEN NoLink ELSE topo.edges[e.from][e.to]
        BY <1>2, <3>2, <3>3, <4>1, RemoveLinkEdges
      <4>3. QED
        BY <3>3, <3>5, <4>2 DEF InPlace, HasLink
    <3>6. QED
      BY <3>4, <3>5
  <2>5. QED
    BY <2>1, <2>2, <2>3, <2>4 DEF HandleEvent
<1>4. TypeOK'
  BY <1>1, <1>3 DEF IInv, TypeOK, IsRuntimeConfig, setting, running, load
<1>5. step # "entered"
  BY <1>1 DEF IInv, TypeOK, PortIsHeld
<1>6. IntervalIsSet' /\ PortIsHeld' /\ LinkedSoFar'
  BY <1>1, <1>5 DEF IInv, IntervalIsSet, PortIsHeld, LinkedSoFar, setting, running
<1>7. AllInPlace => AllInPlace'
  <2>1. \A i \in DOMAIN rc.edges : rc.edges[i] \in EdgeConfig
    BY <1>2 DEF IsRuntimeConfig
  <2>2. \A i \in DOMAIN rc.edges : InPlace(rc.edges[i]) => InPlace(rc.edges[i])'
    BY <1>1, <1>3, <2>1 DEF InPlace, HasLink, setting
  <2>3. QED
    BY <1>1, <2>2 DEF AllInPlace, InPlace, HasLink, setting
<1>8. ServesLate'
  BY <1>1, <1>3, <1>7 DEF IInv, ServesLate, setting, running, load
<1>9. QED
  BY <1>4, <1>6, <1>8 DEF IInv

LEMMA StoppedIInv == ASSUME IInv, Stopped PROVE IInv'
<1>1. CASE host = "tool"
  BY <1>1, ExitIInv DEF Stopped
<1>2. CASE host # "tool"
  BY <1>2
  DEF Stopped, IInv, TypeOK, IsRuntimeConfig, IntervalIsSet, PortIsHeld, LinkedSoFar, ServesLate,
      running, load, Steps
<1>3. QED
  BY <1>1, <1>2

LEMMA StutterIInv ==
  ASSUME IInv, UNCHANGED <<setting, step, running, topo, linked, withdrawn, load>>
  PROVE  IInv'
<1>1. TypeOK'
  BY DEF IInv, TypeOK, IsRuntimeConfig, setting, running, load
<1>2. IntervalIsSet' /\ PortIsHeld' /\ LinkedSoFar'
  BY DEF IInv, IntervalIsSet, PortIsHeld, LinkedSoFar, HasLink, setting, running
<1>3. ServesLate'
  BY DEF IInv, ServesLate, AllInPlace, InPlace, HasLink, setting, running, load
<1>4. QED
  BY <1>1, <1>2, <1>3 DEF IInv

LEMMA NextIInv == IInv /\ [Next]_vars => IInv'
<1> SUFFICES ASSUME IInv, [Next]_vars PROVE IInv'
  OBVIOUS
<1>1. CASE \E app \in AppFiles, args \in Arguments : LoadConfig(app, args)
  BY <1>1, LoadConfigIInv
<1>2. CASE Starting
  BY <1>2, InitNodeIInv, CreateSerfIInv, EnterSelfIInv, StartSyncIInv, ServingIInv,
     ConfigureEdgeIInv DEF Starting, Serving
<1>3. CASE Failing
  BY <1>3, FailingIInv
<1>4. CASE Arrive \/ Answer \/ AnswerUntimed \/ Stop
  BY <1>4, ServingIInv DEF Serving
<1>5. CASE HandleEvent
  BY <1>5, HandleEventIInv
<1>6. CASE Stopped
  BY <1>6, StoppedIInv
<1>7. CASE Kill \/ TickerPanics
  BY <1>7, ExitIInv DEF Kill, TickerPanics
<1>8. CASE BroadcastFullTopology \/ UNCHANGED vars
  BY <1>8, StutterIInv DEF BroadcastFullTopology, vars
<1>9. QED
  BY <1>1, <1>2, <1>3, <1>4, <1>5, <1>6, <1>7, <1>8 DEF Next

THEOREM Invariant == Spec => []IInv
  BY InitIInv, NextIInv, PTL DEF Spec

\* Every variable stays in its domain: whatever way it is configured, a router
\* has an id that is not empty (config.go: LoadRuntimeConfig).
THEOREM TypeCorrect == Spec => []TypeOK
<1>1. IInv => TypeOK
  BY DEF IInv
<1>2. QED
  BY <1>1, Invariant, PTL

\* However often Start is called again after an error or after Stop, the
\* events of a router have one reader (bootstrap.go: Start).
THEOREM EventsHaveOneReader == Spec => []OneEventLoop
<1>1. IInv => OneEventLoop
  BY DEF IInv, PortIsHeld, OneEventLoop
<1>2. QED
  BY <1>1, Invariant, PTL

\* The periodic loop gets no interval that time.NewTicker panics at, as long as
\* the file's fits a time.Duration (config.go: LoadAppConfig; bootstrap.go: Init).
THEOREM FittingIntervalsAreSafe == Spec => []TickerIsPositive
<1>1. IInv => TickerIsPositive
  BY DEF IInv, IntervalIsSet, TickerIsPositive
<1>2. QED
  BY <1>1, Invariant, PTL

\* A request finds the router in its own node table, the loops running, and each
\* configured link in the database unless the last event about it took it away
\* (bootstrap.go: the order of Start; topology_sync.go: handleNodeLeave,
\* handleLinkUpdate).
THEOREM RequestsFindARouter == Spec => []ServesOnlyWhenReady
<1>1. IInv => ServesOnlyWhenReady
  BY DEF IInv, ServesLate, AllInPlace, InPlace, ServesOnlyWhenReady, Range
<1>2. QED
  BY <1>1, Invariant, PTL

LEMMA BroadcastNamesAll ==
  ASSUME NEW t, NEW links \in Broadcasts(t), Unmistakable(Ends(t)),
         NEW ab \in Linked(t)
  PROVE  \E l \in links : {l.from, l.to} = {ab[1], ab[2]}
<1> DEFINE e == [from |-> ab[1], to |-> ab[2], cost |-> GetCost(t, ab[1], ab[2])]
<1>1. e \in Entries(t)
  BY DEF Entries
<1>2. PICK l \in links : EdgeId(l) = EdgeId(e)
  BY <1>1 DEF Broadcasts
<1>3. l \in Entries(t)
  BY <1>2 DEF Broadcasts
<1>4. PICK cd \in Linked(t) : l.from = cd[1] /\ l.to = cd[2]
  BY <1>3 DEF Entries
<1>5. /\ ab[1] \in Ends(t) /\ ab[2] \in Ends(t)
      /\ cd[1] \in Ends(t) /\ cd[2] \in Ends(t)
  BY DEF Ends
<1>6. Ends(t) \subseteq Node
  BY DEF Ends, Linked
<1>7. Ends(t) \in SUBSET Strings
  BY <1>6, LifecycleAssumption
<1>8. makeEdgeID(cd[1], cd[2]) = makeEdgeID(ab[1], ab[2])
  BY <1>2, <1>4 DEF EdgeId
<1>9. {cd[1], cd[2]} = {ab[1], ab[2]}
  <2>1. \A a, b, c, d \in Ends(t) : makeEdgeID(a, b) = makeEdgeID(c, d) => {a, b} = {c, d}
    BY <1>7, EdgeIdsTellLinksApart
  <2> DEFINE a == ab[1]  b == ab[2]  c == cd[1]  d == cd[2]
  <2>2. a \in Ends(t) /\ b \in Ends(t) /\ c \in Ends(t) /\ d \in Ends(t)
        /\ makeEdgeID(c, d) = makeEdgeID(a, b)
    BY <1>5, <1>8
  <2> HIDE DEF a, b, c, d
  <2>3. {c, d} = {a, b}
    BY <2>1, <2>2
  <2>4. QED
    BY <2>3 DEF a, b, c, d
<1>10. QED
  BY <1>4, <1>9

\* A full broadcast names every link the router knows, as long as no id is
\* another one with a hyphen and more behind it
\* (topology_sync.go: broadcastFullTopology).
THEOREM BroadcastsAreComplete == Spec => BroadcastNamesEveryLink
<1>1. ASSUME [Next]_vars, announced' # announced
      PROVE  announced' \in Broadcasts(topo)
  BY <1>1 DEF Next, Starting, Failing, LoadConfig, LoggerFails, InitNode, CreateSerf, CreateFails,
              JoinFails, EnterSelf, ConfigureEdge, StartSync, ListenFails, Listen, Up, Arrive,
              Answer, AnswerUntimed, HandleEvent, HandleNodeJoin, HandleNodeLeave, HandleLinkUpdate,
              HandleLinkRemoval, Event, BroadcastFullTopology, TickerPanics, Stop, Stopped, Kill, vars
<1>2. [Next]_vars =>
        [announced' # announced /\ Unmistakable(Ends(topo)) =>
           \A ab \in Linked(topo) : \E l \in announced' : {l.from, l.to} = {ab[1], ab[2]}]_vars
  BY <1>1, BroadcastNamesAll
<1>3. QED
  BY <1>2, PTL DEF Spec, BroadcastNamesEveryLink

-----------------------------------------------------------------------------
(* What the configured links cost. *)

\* The links a router is given are those of its file that end at it, or none.
EdgesOfFile ==
  step \notin {"new", "exited"} =>
    \/ DOMAIN rc.edges = {}
    \/ file \in TopologyFile /\ rc.edges = GetNodeEdges(file, rc.id)

\* Until the router has entered itself, its database is empty: serf keeps the
\* port once it exists, so no attempt finds what an earlier one has left.
FreshAtStart == step # "exited" /\ (~serf \/ step = "member") => topo = NewTopology

Joins(e, a, b) == {e.from, e.to} = {a, b}

\* Place i has the last word on the link between a and b.
IsLast(edges, places, a, b, i) ==
  i \in places /\ Joins(edges[i], a, b) /\ \A j \in places : Joins(edges[j], a, b) => j <= i

\* The database holds the last costs of the links put into it so far, and no
\* other link.
LastSoFar ==
  step = "entered" =>
    /\ linked \subseteq DOMAIN rc.edges
    /\ \A i \in linked, j \in DOMAIN rc.edges : j < i => j \in linked
    /\ \A a, b \in Node :
         \/ topo.edges[a][b] = NoLink /\ \A i \in linked : ~Joins(rc.edges[i], a, b)
         \/ \E i \in linked : /\ IsLast(rc.edges, linked, a, b, i)
                              /\ topo.edges[a][b] = rc.edges[i].cost

CInv == IInv /\ EdgesOfFile /\ FreshAtStart /\ LastSoFar

LEMMA ConfigureEdgeLastSoFar ==
  ASSUME CInv, NEW k \in DOMAIN rc.edges, ConfigureEdge(k)
  PROVE  LastSoFar'
<1> DEFINE e == rc.edges[k]
<1>1. IsRuntimeConfig(rc) /\ step = "entered" /\ topo \in Topologies /\ UNCHANGED <<rc, step>>
  BY DEF CInv, IInv, TypeOK, ConfigureEdge, setting
<1>2. /\ DOMAIN rc.edges \subseteq Nat
      /\ e.from \in Node /\ e.to \in Node /\ e.cost \in Cost
  BY <1>1 DEF IsRuntimeConfig, EdgeConfig
<1>3. /\ linked \subseteq DOMAIN rc.edges /\ linked' = linked \cup {k}
      /\ k \notin linked /\ \A j \in DOMAIN rc.edges : j < k => j \in linked
      /\ \A i \in linked, j \in DOMAIN rc.edges : j < i => j \in linked
  BY <1>1 DEF CInv, LastSoFar, ConfigureEdge
<1>4. ASSUME NEW a \in Node, NEW b \in Node
      PROVE  topo'.edges[a][b] = IF Joins(e, a, b) THEN e.cost ELSE topo.edges[a][b]
  <2>1. topo' = UpdateLink(topo, e.from, e.to, e.cost)
    BY DEF ConfigureEdge
  <2>2. topo'.edges[a][b] = IF (a = e.from /\ b = e.to) \/ (a = e.to /\ b = e.from)
                            THEN e.cost ELSE topo.edges[a][b]
    BY <1>1, <1>2, <2>1, UpdateLinkEdges
  <2>3. Joins(e, a, b) <=> (a = e.from /\ b = e.to) \/ (a = e.to /\ b = e.from)
    BY DEF Joins
  <2>4. QED
    BY <2>2, <2>3
<1>5. \A j \in linked : j < k
  BY <1>2, <1>3
<1>6. /\ linked' \subseteq DOMAIN rc'.edges
      /\ \A i \in linked', j \in DOMAIN rc'.edges : j < i => j \in linked'
  BY <1>1, <1>3
<1>7. ASSUME NEW a \in Node, NEW b \in Node
      PROVE  \/ topo'.edges[a][b] = NoLink /\ \A i \in linked' : ~Joins(rc.edges[i], a, b)
             \/ \E i \in linked' : /\ IsLast(rc.edges, linked', a, b, i)
                                   /\ topo'.edges[a][b] = rc.edges[i].cost
  <2>1. CASE Joins(e, a, b)
    <3>1. IsLast(rc.edges, linked', a, b, k)
      BY <1>2, <1>3, <1>5, <2>1 DEF IsLast
    <3>2. QED
      BY <1>3, <1>4, <2>1, <3>1
  <2>2. CASE ~Joins(e, a, b) /\ topo.edges[a][b] = NoLink /\ \A i \in linked : ~Joins(rc.edges[i], a, b)
    BY <1>3, <1>4, <2>2
  <2>3. CASE ~Joins(e, a, b) /\ \E i \in linked : /\ IsLast(rc.edges, linked, a, b, i)
                                                  /\ topo.edges[a][b] = rc.edges[i].cost
    <3>1. PICK i \in linked : IsLast(rc.edges, linked, a, b, i) /\ topo.edges[a][b] = rc.edges[i].cost
      BY <2>3
    <3>2. IsLast(rc.edges, linked', a, b, i)
      BY <1>3, <2>3, <3>1 DEF IsLast
    <3>3. QED
      BY <1>3, <1>4, <2>3, <3>1, <3>2
  <2>4. QED
    BY <1>1, <2>1, <2>2, <2>3 DEF CInv, LastSoFar
<1>8. QED
  BY <1>1, <1>6, <1>7 DEF LastSoFar, IsLast, Joins

LEMMA EnterSelfLastSoFar == ASSUME CInv, EnterSelf PROVE LastSoFar'
<1>1. topo' = AddNode(NewTopology, rc.id) /\ linked' = {} /\ rc' = rc
  BY DEF CInv, FreshAtStart, EnterSelf, setting
<1>2. \A a, b \in Node : topo'.edges[a][b] = NoLink
  BY <1>1 DEF AddNode, NewTopology, EmptyRow
<1>3. QED
  BY <1>1, <1>2 DEF LastSoFar

LEMMA LoadConfigEdges ==
  ASSUME CInv, NEW app \in AppFiles, NEW args \in Arguments, LoadConfig(app, args)
  PROVE  EdgesOfFile'
<1>1. CASE Loadable(file, args)
  <2>1. rc' = LoadRuntimeConfig(app, file, args) /\ file' = file
    BY <1>1 DEF LoadConfig
  <2>2. CASE args.node = NoName
    BY <2>1, <2>2 DEF LoadRuntimeConfig, Merged, NoEdges, EdgesOfFile
  <2>3. CASE args.node # NoName
    <3>1. file \in TopologyFile /\ HasNode(file, args.node)
      BY <1>1, <2>3 DEF Loadable, CInv, IInv, TypeOK
    <3>2. GetNodeConfig(file, args.node).id = args.node
      BY <3>1 DEF HasNode, GetNodeConfig, IsNode
    <3>3. rc'.edges = GetNodeEdges(file, args.node) /\ rc'.id = args.node
      BY <2>1, <2>3, <3>2 DEF LoadRuntimeConfig, Merged
    <3>4. QED
      BY <2>1, <3>1, <3>3 DEF EdgesOfFile
  <2>4. QED
    BY <2>2, <2>3
<1>2. CASE ~Loadable(file, args)
  BY <1>2 DEF LoadConfig, Fail, Exit, EdgesOfFile
<1>3. QED
  BY <1>1, <1>2

LEMMA CInvariant == Spec => []CInv
<1>1. Init => CInv
  BY InitIInv DEF Init, CInv, EdgesOfFile, FreshAtStart, LastSoFar
<1>2. CInv /\ [Next]_vars => CInv'
  <2> SUFFICES ASSUME CInv, [Next]_vars PROVE EdgesOfFile' /\ FreshAtStart' /\ LastSoFar'
    BY NextIInv DEF CInv
  <2>1. CASE \E app \in AppFiles, args \in Arguments : LoadConfig(app, args)
    <3>1. PICK app \in AppFiles, args \in Arguments : LoadConfig(app, args)
      BY <2>1
    <3>2. FreshAtStart' /\ LastSoFar'
      BY <3>1 DEF LoadConfig, Fail, Exit, CInv, FreshAtStart, LastSoFar, running
    <3>3. QED
      BY <3>1, <3>2, LoadConfigEdges
  <2>2. CASE InitNode \/ CreateSerf \/ StartSync
    BY <2>2 DEF InitNode, CreateSerf, Startable, StartSync,
                CInv, EdgesOfFile, FreshAtStart, LastSoFar, setting, running
  <2>3. CASE Serving
    <3> USE DEF Serving, Listen, Up, Arrive, Answer, AnswerUntimed, Stop
    <3>1. EdgesOfFile'
      BY <2>3 DEF CInv, EdgesOfFile, setting
    <3>2. FreshAtStart'
      BY <2>3 DEF CInv, FreshAtStart, setting, running
    <3>3. LastSoFar'
      BY <2>3 DEF CInv, LastSoFar, setting
    <3>4. QED
      BY <3>1, <3>2, <3>3
  <2>4. CASE EnterSelf
    BY <2>4, EnterSelfLastSoFar
    DEF EnterSelf, CInv, IInv, PortIsHeld, EdgesOfFile, FreshAtStart, setting, running
  <2>5. CASE \E i \in DOMAIN rc.edges : ConfigureEdge(i)
    BY <2>5, ConfigureEdgeLastSoFar
    DEF ConfigureEdge, CInv, IInv, PortIsHeld, EdgesOfFile, FreshAtStart, setting, running
  <2>6. CASE Failing
    BY <2>6 DEF Failing, LoggerFails, CreateFails, JoinFails, ListenFails, Startable, Fail, Exit,
                CInv, EdgesOfFile, FreshAtStart, LastSoFar, running
  <2>7. CASE HandleEvent
    <3>1. UNCHANGED <<setting, step, running, linked>> /\ loops > 0
      BY <2>7
      DEF HandleEvent, HandleNodeJoin, HandleNodeLeave, HandleLinkUpdate, HandleLinkRemoval, Event
    <3>2. serf /\ step \notin {"member", "entered"}
      BY <3>1 DEF CInv, IInv, TypeOK, PortIsHeld
    <3>3. QED
      BY <3>1, <3>2 DEF CInv, EdgesOfFile, FreshAtStart, LastSoFar, setting, running
  <2>8. CASE Stopped \/ Kill \/ TickerPanics
    BY <2>8 DEF Stopped, Kill, TickerPanics, Exit, CInv, EdgesOfFile, FreshAtStart, LastSoFar, running
  <2>9. CASE BroadcastFullTopology \/ UNCHANGED vars
    <3>1. UNCHANGED <<file, rc, step, serf, topo, linked>>
      BY <2>9 DEF BroadcastFullTopology, vars, setting, running
    <3>2. EdgesOfFile' /\ FreshAtStart'
      BY <3>1 DEF CInv, EdgesOfFile, FreshAtStart
    <3>3. LastSoFar'
      BY <3>1 DEF CInv, LastSoFar, IsLast, Joins
    <3>4. QED
      BY <3>2, <3>3
  <2>10. QED
    BY <2>1, <2>2, <2>3, <2>4, <2>5, <2>6, <2>7, <2>8, <2>9
    DEF Next, Starting, Serving
<1>3. QED
  BY <1>1, <1>2, PTL DEF Spec

\* The cost of a link is that of its last place, however the places are called.
LEMMA LastCostIs ==
  ASSUME NEW edges, DOMAIN edges \subseteq Nat, NEW a, NEW b, NEW i,
         IsLast(edges, DOMAIN edges, a, b, i)
  PROVE  LastCost(edges, a, b) = edges[i].cost
<1> DEFINE places == {j \in DOMAIN edges : {edges[j].from, edges[j].to} = {a, b}}
<1>1. i \in places /\ places \subseteq Nat /\ \A j \in places : j <= i
  BY DEF IsLast, Joins
<1>2. LastCost(edges, a, b) = edges[CHOOSE j \in places : \A k \in places : k <= j].cost
  BY <1>1 DEF LastCost
<1> DEFINE last == CHOOSE j \in places : \A k \in places : k <= j
<1> HIDE DEF places
<1>3. last \in places /\ \A k \in places : k <= last
  BY <1>1
<1> HIDE DEF last
<1>4. last = i
  BY <1>1, <1>3
<1> USE DEF last
<1>5. QED
  BY <1>2, <1>4

\* Both ends of a link find the same places for it in their file.
LEMMA EndsFindTheSamePlaces ==
  ASSUME NEW f, NEW a, NEW b, NEW i,
         IsLast(GetNodeEdges(f, a), DOMAIN GetNodeEdges(f, a), a, b, i)
  PROVE  /\ IsLast(GetNodeEdges(f, b), DOMAIN GetNodeEdges(f, b), b, a, i)
         /\ GetNodeEdges(f, a)[i] = GetNodeEdges(f, b)[i]
<1> DEFINE ea == GetNodeEdges(f, a)
           eb == GetNodeEdges(f, b)
<1>1. \A j : /\ j \in DOMAIN ea <=> j \in DOMAIN f.edges /\ a \in {f.edges[j].from, f.edges[j].to}
             /\ j \in DOMAIN ea => ea[j] = f.edges[j]
             /\ j \in DOMAIN eb <=> j \in DOMAIN f.edges /\ b \in {f.edges[j].from, f.edges[j].to}
             /\ j \in DOMAIN eb => eb[j] = f.edges[j]
  BY DEF GetNodeEdges, EdgesAt
<1> HIDE DEF ea, eb
<1>2. \A j : /\ Joins(f.edges[j], a, b) <=> Joins(f.edges[j], b, a)
             /\ Joins(f.edges[j], a, b) => /\ a \in {f.edges[j].from, f.edges[j].to}
                                           /\ b \in {f.edges[j].from, f.edges[j].to}
  BY DEF Joins
<1>3. \A j : j \in DOMAIN ea /\ Joins(ea[j], a, b) <=> j \in DOMAIN eb /\ Joins(eb[j], b, a)
  BY <1>1, <1>2
<1>4. IsLast(ea, DOMAIN ea, a, b, i)
  BY DEF ea
<1>5. IsLast(eb, DOMAIN eb, b, a, i) /\ ea[i] = eb[i]
  BY <1>1, <1>3, <1>4 DEF IsLast
<1>6. QED
  BY <1>5 DEF ea, eb

\* Two routers that read the same topology file start with the same cost for
\* the link between them, even if the file names it twice and whatever their
\* earlier attempts to start have left behind (config.go: GetNodeEdges;
\* bootstrap.go: the loop over Edges).
THEOREM EndsStartAlike == Spec => EndsAgree
<1>1. ASSUME CInv, [Next]_vars, loops' > loops,
             NEW e \in Range(rc.edges), NEW m \in Node, {e.from, e.to} = {rc.id, m}
      PROVE  GetCost(topo, rc.id, m) = LastCost(GetNodeEdges(file, m), m, rc.id)
  <2>1. StartSync
    BY <1>1 DEF CInv, IInv, TypeOK, Next, Starting, Failing, LoadConfig, LoggerFails, InitNode,
                CreateSerf, CreateFails, JoinFails, EnterSelf, ConfigureEdge, StartSync,
                ListenFails, Listen, Up, Arrive, Answer, AnswerUntimed, HandleEvent, HandleNodeJoin,
                HandleNodeLeave, HandleLinkUpdate, HandleLinkRemoval, Event,
                BroadcastFullTopology, TickerPanics, Stop, Stopped, Kill, Fail, Exit, vars, running
  <2>2. step = "entered" /\ linked = DOMAIN rc.edges /\ IsRuntimeConfig(rc)
    <3>1. step = "entered" /\ linked = DOMAIN rc.edges
      BY <2>1 DEF StartSync
    <3>2. QED
      BY <1>1, <3>1 DEF CInv, IInv, TypeOK
  <2>3. PICK k \in DOMAIN rc.edges : Joins(rc.edges[k], rc.id, m)
    BY <1>1 DEF Range, Joins
  <2>4. PICK i : /\ IsLast(rc.edges, linked, rc.id, m, i)
                 /\ topo.edges[rc.id][m] = rc.edges[i].cost
    BY <1>1, <2>2, <2>3 DEF CInv, LastSoFar, IsRuntimeConfig
  <2>5. file \in TopologyFile /\ rc.edges = GetNodeEdges(file, rc.id)
    BY <1>1, <2>2, <2>3 DEF CInv, EdgesOfFile
  <2>6. /\ IsLast(GetNodeEdges(file, m), DOMAIN GetNodeEdges(file, m), m, rc.id, i)
        /\ rc.edges[i] = GetNodeEdges(file, m)[i]
    BY <2>2, <2>4, <2>5, EndsFindTheSamePlaces
  <2>7. DOMAIN GetNodeEdges(file, m) \subseteq Nat
    BY <2>5, GetNodeEdgesType
  <2>8. LastCost(GetNodeEdges(file, m), m, rc.id) = rc.edges[i].cost
    BY <2>6, <2>7, LastCostIs
  <2>9. QED
    BY <2>4, <2>8 DEF GetCost
<1>2. CInv /\ [Next]_vars =>
        [loops' > loops =>
           \A e \in Range(rc.edges), m \in Node : {e.from, e.to} = {rc.id, m} /\ HasNode(file, m) =>
             GetCost(topo, rc.id, m) = LastCost(GetNodeEdges(file, m), m, rc.id)]_vars
  BY <1>1
<1>3. QED
  BY <1>2, CInvariant, PTL DEF Spec, EndsAgree

=============================================================================
