--------------------------- MODULE RouteNodeProofs ---------------------------
(***************************************************************************)
(* No update of the topology is lost by a router, for any number of        *)
(* concurrent requests, nodes, costs and events.                           *)
(*                                                                         *)
(* StaleIsOwed alone is not inductive: it says nothing while a computation *)
(* runs, and what the computation has read may be outdated when it is      *)
(* installed.  ViewIsOwed says the same of the view under construction.    *)
(***************************************************************************)
EXTENDS RouteNode, TopologyProofs, PathProofs

\* Somebody will recompute, or the change was made silently.
Excused == silent \/ boot # "up" \/ \E t \in Thread : Owes(t)

TableIsOwed == holder = NoThread /\ ~InStep(table, topo) => Excused
ViewIsOwed == \A t \in Thread : at[t] = "search" /\ ~InStep(view[t], topo) => Excused

\* A link that is about to be written has a cost.
JobIsSettled ==
  /\ \A t \in Thread : at[t] = "register" => job[t].cost \in Cost
  /\ at[Loop] = "decide" => job[Loop].cost \in Cost

Types == TypeOK /\ JobIsSettled

IInv == Types /\ TableIsOwed /\ ViewIsOwed

-----------------------------------------------------------------------------

LEMMA ThreadFacts ==
  /\ Loop \in Thread /\ Loop \notin Caller /\ NoThread \notin Thread
  /\ Caller \subseteq Thread /\ Thread = Caller \cup {Loop}
  BY RouteNodeAssumption DEF Thread

LEMMA NoJobType == NoJob \in Job
  BY LinkStateViewAssumption DEF NoJob, Job

LEMMA NoViewType == NoView \in Views
  BY DEF NoView, Views

LEMMA NodesReadType ==
  ASSUME NEW t \in Topologies
  PROVE  NodesRead(t) \in Views /\ InStep(NodesRead(t), t)
<1>1. NodesRead(t) \in Views
  BY LinkStateViewAssumption DEF NodesRead, NodesOf, Views, Topologies
<1>2. Read(NodesRead(t)) = {}
  BY DEF Read, NodesRead
<1>3. QED
  BY <1>1, <1>2 DEF InStep, NodesRead

LEMMA RowReadType ==
  ASSUME NEW v \in Views, NEW t \in Topologies, NEW u \in Node
  PROVE  /\ RowRead(v, t, u) \in Views
         /\ InStep(v, t) => InStep(RowRead(v, t, u), t)
  BY DEF RowRead, Views, Topologies, Row, InStep, Read

\* What TypeOK says of at and holder.
Placed ==
  /\ at \in [Thread -> Places \cup {"merge", "decide"}]
  /\ \A t \in Caller : at[t] \in Places
  /\ \A t \in Thread : at[t] \in {"start", "search"} <=> holder = t

\* One thread moves, neither taking nor releasing the lock.
LEMMA Moves ==
  ASSUME TypeOK, NEW t \in Thread, NEW p, at' = [at EXCEPT ![t] = p], UNCHANGED holder,
         p \in Places \/ (t = Loop /\ p \in {"merge", "decide"}),
         at[t] \in {"start", "search"} <=> p \in {"start", "search"}
  PROVE  /\ Placed'
         /\ at'[t] = p
         /\ \A o \in Thread : o # t => at'[o] = at[o]
<1>1. at \in [Thread -> Places \cup {"merge", "decide"}]
  BY DEF TypeOK
<1>2. at'[t] = p /\ \A o \in Thread : o # t => at'[o] = at[o]
  BY <1>1
<1>3. at' \in [Thread -> Places \cup {"merge", "decide"}]
  BY <1>1
<1>4. \A o \in Caller : at'[o] \in Places
  BY <1>2, ThreadFacts DEF TypeOK
<1>5. \A o \in Thread : at'[o] \in {"start", "search"} <=> holder' = o
  BY <1>2 DEF TypeOK
<1>6. QED
  BY <1>2, <1>3, <1>4, <1>5 DEF Placed

\* A step that leaves an excuse behind needs no more.
LEMMA ExcusedSuffices == ASSUME Excused' PROVE TableIsOwed' /\ ViewIsOwed'
  BY DEF TableIsOwed, ViewIsOwed, Excused

\* A thread on its way to a recomputation is an excuse.
LEMMA OwingExcuses ==
  ASSUME NEW t \in Thread, at' \in [Thread -> STRING], at'[t] \in {"probe", "register", "trigger", "start"}
  PROVE  Excused'
  BY DEF Excused, Owes

\* A step that writes neither the topology nor the tables keeps the promise
\* when it keeps every excuse.
LEMMA QuietStep ==
  ASSUME TableIsOwed, ViewIsOwed, Excused => Excused', UNCHANGED <<topo, routing>>,
         \A t \in Thread : at'[t] = "search" => at[t] = "search"
  PROVE  TableIsOwed' /\ ViewIsOwed'
<1>1. TableIsOwed'
  BY DEF TableIsOwed, routing, InStep, NodesOf, Read
<1>2. ViewIsOwed'
  BY DEF ViewIsOwed, routing, InStep, NodesOf, Read
<1>3. QED
  BY <1>1, <1>2

-----------------------------------------------------------------------------
(* Start. *)

LEMMA InitIInv == ASSUME Init PROVE IInv
<1> USE ThreadFacts
<1>1. TypeOK
  <2>1. Placed
    BY DEF Init, Placed, Places
  <2>2. topo \in Topologies /\ job \in [Thread -> Job] /\ view \in [Thread -> Views] /\ table \in Views
    BY NewTopologyType, NoJobType, NoViewType DEF Init
  <2>3. ops \in 0..MaxOps
    BY RouteNodeAssumption DEF Init
  <2>4. QED
    BY <2>1, <2>2, <2>3 DEF Init, TypeOK, Placed
<1>2. JobIsSettled
  BY DEF Init, JobIsSettled
<1>3. Excused
  BY DEF Init, Excused
<1>4. QED
  BY <1>1, <1>2, <1>3 DEF IInv, Types, TableIsOwed, ViewIsOwed

LEMMA BootIInv == ASSUME IInv, Boot PROVE IInv'
<1> USE ThreadFacts, LinkStateViewAssumption
<1> USE DEF IInv, Types
<1>1. CASE StartNode
  <2>1. TypeOK' /\ JobIsSettled'
    BY <1>1, AddNodeType DEF StartNode, handler, routing, TypeOK, JobIsSettled, Places
  <2>2. Excused'
    BY <1>1 DEF StartNode, Excused
  <2>3. QED
    BY <2>1, <2>2, ExcusedSuffices
<1>2. CASE StartLoop
  <2>1. TypeOK' /\ JobIsSettled'
    BY <1>2 DEF StartLoop, handler, routing, TypeOK, JobIsSettled, Places
  <2>2. Excused'
    BY <1>2 DEF StartLoop, Excused
  <2>3. QED
    BY <2>1, <2>2, ExcusedSuffices
<1>3. CASE HandleOwnJoin
  <2>1. TypeOK'
    <3>1. topo' \in Topologies
      BY <1>3, AddNodeType DEF HandleOwnJoin, TypeOK
    <3>2. at[Loop] = "idle"
      BY <1>3 DEF HandleOwnJoin
    <3>3. Placed'
      BY <1>3, <3>2, Moves DEF HandleOwnJoin, Goto, routing, Places
    <3>4. QED
      BY <1>3, <3>1, <3>3 DEF HandleOwnJoin, routing, TypeOK, Placed
  <2>2. JobIsSettled'
    BY <1>3 DEF HandleOwnJoin, Goto, TypeOK, JobIsSettled
  <2>3. Excused'
    BY <1>3 DEF HandleOwnJoin, Goto, TypeOK, Excused, Owes
  <2>4. QED
    BY <2>1, <2>2, <2>3, ExcusedSuffices
<1>4. ASSUME NEW a \in Node, NEW b \in Node, NEW c \in Cost, ConfigureEdge(a, b, c) PROVE IInv'
  <2>1. topo' \in Topologies
    BY <1>4, UpdateLinkType DEF ConfigureEdge, TypeOK
  <2>2. ops' \in 0..MaxOps
    BY <1>4, RouteNodeAssumption DEF ConfigureEdge, Begin, TypeOK
  <2>3. TypeOK' /\ JobIsSettled'
    BY <1>4, <2>1, <2>2 DEF ConfigureEdge, handler, routing, TypeOK, JobIsSettled
  <2>4. Excused'
    BY <1>4 DEF ConfigureEdge, Excused
  <2>5. QED
    BY <2>3, <2>4, ExcusedSuffices
<1>5. QED
  BY <1>1, <1>2, <1>3, <1>4 DEF Boot

-----------------------------------------------------------------------------
(* The event loop. *)

\* An event that rewrites the topology and then asks for a recomputation.
LEMMA WritingEvent ==
  ASSUME IInv, Event, topo' \in Topologies, Goto(Loop, "trigger"),
         UNCHANGED <<links, seen, changed>>
  PROVE  IInv'
<1> USE ThreadFacts
<1>1. at[Loop] = "idle" /\ at' = [at EXCEPT ![Loop] = "trigger"]
      /\ UNCHANGED <<boot, job, holder, view, table, silent>>
  BY DEF Event, Goto, routing
<1>2. Placed' /\ at'[Loop] = "trigger" /\ \A o \in Thread : o # Loop => at'[o] = at[o]
  BY <1>1, Moves DEF IInv, Types, Places
<1>3. ops' \in 0..MaxOps
  BY RouteNodeAssumption DEF Event, Begin, IInv, Types, TypeOK
<1>4. TypeOK' /\ JobIsSettled'
  BY <1>1, <1>2, <1>3 DEF IInv, Types, TypeOK, Placed, JobIsSettled
<1>5. Excused'
  BY <1>2 DEF Excused, Owes
<1>6. QED
  BY <1>4, <1>5, ExcusedSuffices DEF IInv, Types

LEMMA HandleTopologySyncIInv ==
  ASSUME IInv, NEW ls \in SyncLinks, HandleTopologySync(ls) PROVE IInv'
<1> USE ThreadFacts
<1>1. /\ at[Loop] = "idle" /\ at' = [at EXCEPT ![Loop] = "merge"]
      /\ links' = ls /\ changed' = FALSE
      /\ UNCHANGED <<boot, topo, job, seen, holder, view, table, silent, routing>>
  BY DEF HandleTopologySync, Event, Goto, routing
<1>2. Placed' /\ at'[Loop] = "merge" /\ \A o \in Thread : o # Loop => at'[o] = at[o]
  BY <1>1, Moves DEF IInv, Types, Places
<1>3. ops' \in 0..MaxOps
  BY RouteNodeAssumption DEF HandleTopologySync, Event, Begin, IInv, Types, TypeOK
<1>4. links' \subseteq Link
  BY <1>1, RouteNodeAssumption DEF Link
<1>5. TypeOK' /\ JobIsSettled'
  BY <1>1, <1>2, <1>3, <1>4 DEF IInv, Types, TypeOK, Placed, JobIsSettled
<1>6. Excused => Excused'
  BY <1>1, <1>2 DEF Excused, Owes
<1>7. \A t \in Thread : at'[t] = "search" => at[t] = "search"
  BY <1>2
<1>8. QED
  BY <1>1, <1>5, <1>6, <1>7, QuietStep DEF IInv, Types

LEMMA HandleEventIInv == ASSUME IInv, HandleEvent PROVE IInv'
<1>1. topo \in Topologies
  BY DEF IInv, Types, TypeOK
<1>2. ASSUME NEW n \in Node, HandleNodeJoin(n) \/ HandleNodeLeave(n) PROVE IInv'
  BY <1>1, <1>2, AddNodeType, RemoveNodeType, WritingEvent DEF HandleNodeJoin, HandleNodeLeave
<1>3. ASSUME NEW a \in Node, NEW b \in Node, HandleLinkRemoval(a, b) PROVE IInv'
  BY <1>1, <1>3, RemoveLinkType, WritingEvent DEF HandleLinkRemoval
<1>4. ASSUME NEW a \in Node, NEW b \in Node, NEW c \in Cost, HandleLinkUpdate(a, b, c) PROVE IInv'
  BY <1>1, <1>4, UpdateLinkType, WritingEvent DEF HandleLinkUpdate
<1>5. ASSUME NEW ls \in SyncLinks, HandleTopologySync(ls) PROVE IInv'
  BY <1>5, HandleTopologySyncIInv
<1>6. QED
  BY <1>2, <1>3, <1>4, <1>5 DEF HandleEvent

LEMMA MergeLookupIInv ==
  ASSUME IInv, NEW link \in links, MergeLookup(link) PROVE IInv'
<1> USE ThreadFacts
<1>1. /\ at[Loop] = "merge" /\ at' = [at EXCEPT ![Loop] = "decide"]
      /\ links' = links \ {link} /\ job' = [job EXCEPT ![Loop] = link]
      /\ seen' = topo.edges[link.from][link.to]
      /\ UNCHANGED <<boot, topo, changed, holder, view, table, silent, routing, ops>>
  BY DEF MergeLookup, Goto, routing, GetCost
<1>2. Placed' /\ at'[Loop] = "decide" /\ \A o \in Thread : o # Loop => at'[o] = at[o]
  BY <1>1, Moves DEF IInv, Types, Places
<1>3. link \in Link
  BY DEF IInv, Types, TypeOK
<1>4. job' \in [Thread -> Job] /\ seen' \in Cost \cup {NoLink}
  BY <1>1, <1>3 DEF IInv, Types, TypeOK, Link, Job, Topologies, Row
<1>5. JobIsSettled'
  BY <1>1, <1>2, <1>3 DEF IInv, Types, TypeOK, JobIsSettled, Link
<1>6. TypeOK'
  BY <1>1, <1>2, <1>4 DEF IInv, Types, TypeOK, Placed
<1>7. Excused => Excused'
  BY <1>1, <1>2 DEF Excused, Owes
<1>8. \A t \in Thread : at'[t] = "search" => at[t] = "search"
  BY <1>2
<1>9. QED
  BY <1>1, <1>5, <1>6, <1>7, <1>8, QuietStep DEF IInv, Types

LEMMA MergeWriteIInv == ASSUME IInv, MergeWrite PROVE IInv'
<1> DEFINE link == job[Loop]
<1> USE ThreadFacts
<1>1. /\ at[Loop] = "decide" /\ at' = [at EXCEPT ![Loop] = "merge"]
      /\ job' = [job EXCEPT ![Loop] = NoJob] /\ seen' = NoLink
      /\ UNCHANGED <<boot, links, holder, view, table, silent, routing, ops>>
      /\ \/ topo' = UpdateLink(topo, link.from, link.to, link.cost) /\ changed' = TRUE
         \/ UNCHANGED <<topo, changed>>
  BY DEF MergeWrite, Goto, routing
<1>2. Placed' /\ at'[Loop] = "merge" /\ \A o \in Thread : o # Loop => at'[o] = at[o]
  BY <1>1, Moves DEF IInv, Types, Places
<1>3. link.from \in Node /\ link.to \in Node /\ link.cost \in Cost /\ topo \in Topologies
  BY <1>1 DEF IInv, Types, TypeOK, JobIsSettled, Job
<1>4. topo' \in Topologies
  BY <1>1, <1>3, UpdateLinkType
<1>5. job' \in [Thread -> Job]
  BY <1>1, NoJobType DEF IInv, Types, TypeOK
<1>6. JobIsSettled'
  BY <1>1, <1>2 DEF IInv, Types, TypeOK, JobIsSettled
<1>7. TypeOK'
  BY <1>1, <1>2, <1>4, <1>5 DEF IInv, Types, TypeOK, Placed
<1>8. CASE changed' = TRUE
  <2>1. Excused'
    BY <1>8, <1>2 DEF Excused, Owes
  <2>2. QED
    BY <1>6, <1>7, <2>1, ExcusedSuffices DEF IInv, Types
<1>9. CASE UNCHANGED <<topo, changed>>
  <2>1. Excused => Excused'
    BY <1>9, <1>1, <1>2 DEF Excused, Owes
  <2>2. \A t \in Thread : at'[t] = "search" => at[t] = "search"
    BY <1>2
  <2>3. QED
    BY <1>1, <1>6, <1>7, <1>9, <2>1, <2>2, QuietStep DEF IInv, Types
<1>10. QED
  BY <1>1, <1>8, <1>9

LEMMA MergeEndIInv == ASSUME IInv, MergeEnd PROVE IInv'
<1> DEFINE next == IF changed THEN "trigger" ELSE "idle"
<1> USE ThreadFacts
<1>1. /\ at[Loop] = "merge" /\ at' = [at EXCEPT ![Loop] = next]
      /\ changed' = FALSE
      /\ UNCHANGED <<boot, topo, job, links, seen, holder, view, table, silent, routing, ops>>
  BY DEF MergeEnd, Goto, routing
<1>2. Placed' /\ at'[Loop] = next /\ \A o \in Thread : o # Loop => at'[o] = at[o]
  BY <1>1, Moves DEF IInv, Types, Places
<1>3. TypeOK' /\ JobIsSettled'
  BY <1>1, <1>2 DEF IInv, Types, TypeOK, Placed, JobIsSettled
<1>4. Excused => Excused'
  BY <1>1, <1>2 DEF Excused, Owes
<1>5. \A t \in Thread : at'[t] = "search" => at[t] = "search"
  BY <1>2
<1>6. QED
  BY <1>1, <1>3, <1>4, <1>5, QuietStep DEF IInv, Types

-----------------------------------------------------------------------------
(* Control requests. *)

\* What every step of a request leaves alone, and what it must establish.
LEMMA RequestStep ==
  ASSUME IInv, NEW t \in Caller, NEW p \in Places,
         at' = [at EXCEPT ![t] = p], at[t] \notin {"start", "search"}, p \notin {"start", "search"},
         topo' \in Topologies, ops' \in 0..MaxOps, silent' \in BOOLEAN,
         NEW j \in Job, job' = [job EXCEPT ![t] = j], p = "register" => j.cost \in Cost,
         UNCHANGED <<boot, links, seen, changed, routing>>,
         p \in {"probe", "register", "trigger"} \/ silent'
  PROVE  IInv'
<1> USE ThreadFacts
<1>1. UNCHANGED <<holder, view, table>>
  BY DEF routing
<1>2. Placed' /\ at'[t] = p /\ \A o \in Thread : o # t => at'[o] = at[o]
  <2>1. TypeOK /\ UNCHANGED holder /\ t \in Thread
    BY <1>1 DEF IInv, Types
  <2>2. at[t] \in {"start", "search"} <=> p \in {"start", "search"}
    OBVIOUS
  <2>3. QED
    BY <2>1, <2>2, Moves, Zenon
<1>3. job' \in [Thread -> Job]
  BY DEF IInv, Types, TypeOK
<1>4. JobIsSettled'
  <2>1. job'[t] = j /\ \A o \in Thread : o # t => job'[o] = job[o]
    BY DEF IInv, Types, TypeOK
  <2>2. QED
    BY <2>1, <1>2 DEF IInv, Types, JobIsSettled
<1>5. TypeOK'
  BY <1>1, <1>2, <1>3 DEF IInv, Types, TypeOK, Placed
<1>6. Excused'
  BY <1>2 DEF Excused, Owes
<1>7. QED
  BY <1>4, <1>5, <1>6, ExcusedSuffices DEF IInv, Types

LEMMA ServeIInv == ASSUME IInv, NEW t \in Caller, Serve(t) PROVE IInv'
<1> USE ThreadFacts
<1>1. /\ topo \in Topologies /\ silent \in BOOLEAN
      /\ job[t] \in Job /\ job = [job EXCEPT ![t] = job[t]]
      /\ {"probe", "trigger", "idle"} \subseteq Places
  BY DEF IInv, Types, TypeOK, Places
<1>2. ASSUME NEW op, Call(t, op)
      PROVE  /\ at[t] = "idle" /\ ops' \in 0..MaxOps
             /\ UNCHANGED <<boot, links, seen, changed, routing>>
  BY <1>2, RouteNodeAssumption DEF Call, Begin, IInv, Types, TypeOK
<1>3. ASSUME NEW n \in Node, AddLink(t, n) PROVE IInv'
  <2>1. job' = [job EXCEPT ![t] = [job[t] EXCEPT !.to = n]] /\ [job[t] EXCEPT !.to = n] \in Job
    BY <1>1, <1>3 DEF AddLink, Job
  <2>2. topo' \in Topologies /\ at' = [at EXCEPT ![t] = "probe"] /\ silent' = silent
    BY <1>1, <1>3, AddNodeType DEF AddLink, Goto
  <2>3. QED
    BY <1>1, <1>2, <1>3, <2>1, <2>2, RequestStep DEF AddLink
<1>4. ASSUME NEW n \in Node, RegisterNode(t, n) PROVE IInv'
  <2>1. topo' \in Topologies /\ at' = [at EXCEPT ![t] = "idle"] /\ silent' = TRUE /\ job' = job
    BY <1>1, <1>4, AddNodeType DEF RegisterNode, ReturnSilently, Goto
  <2>2. QED
    BY <1>1, <1>2, <1>4, <2>1, RequestStep DEF RegisterNode
<1>5. ASSUME NEW n \in Node, UnregisterNode(t, n) PROVE IInv'
  <2>1. topo' \in Topologies /\ at' = [at EXCEPT ![t] = "trigger"] /\ silent' = silent /\ job' = job
    BY <1>1, <1>5, RemoveNodeType DEF UnregisterNode, Goto
  <2>2. QED
    BY <1>1, <1>2, <1>5, <2>1, RequestStep DEF UnregisterNode
<1>6. ASSUME NEW a \in Node, NEW b \in Node, UnregisterLink(t, a, b) PROVE IInv'
  <2>1. /\ topo' \in Topologies /\ job' = job
        /\ \/ at' = [at EXCEPT ![t] = "trigger"] /\ silent' = silent
           \/ at' = [at EXCEPT ![t] = "idle"] /\ silent' = TRUE
    BY <1>1, <1>6, RemoveLinkType DEF UnregisterLink, ReturnSilently, Goto
  <2>2. QED
    BY <1>1, <1>2, <1>6, <2>1, RequestStep DEF UnregisterLink
<1>7. QED
  BY <1>3, <1>4, <1>5, <1>6 DEF Serve

LEMMA ContinueIInv == ASSUME IInv, NEW t \in Caller, Continue(t) PROVE IInv'
<1> USE ThreadFacts, NoJobType
<1>1. /\ topo \in Topologies /\ silent \in BOOLEAN /\ ops \in 0..MaxOps
      /\ job[t] \in Job /\ job[t].to \in Node /\ Self \in Node
      /\ {"register", "trigger", "idle"} \subseteq Places
      /\ NoJob \in Job
  BY LinkStateViewAssumption DEF IInv, Types, TypeOK, Places, Job
<1>2. CASE ProbeFails(t)
  <2>1. /\ topo' = topo /\ ops' = ops /\ job' = [job EXCEPT ![t] = NoJob]
        /\ at' = [at EXCEPT ![t] = "idle"] /\ silent' = TRUE /\ at[t] = "probe"
        /\ UNCHANGED <<boot, links, seen, changed, routing>>
    BY <1>2 DEF ProbeFails, ReturnSilently, Goto
  <2>2. QED
    BY <1>1, <2>1, RequestStep
<1>3. ASSUME NEW c \in Cost, SetLink(t, c) PROVE IInv'
  <2>1. /\ job' = [job EXCEPT ![t] = [job[t] EXCEPT !.cost = c]]
        /\ [job[t] EXCEPT !.cost = c] \in Job /\ [job[t] EXCEPT !.cost = c].cost \in Cost
    BY <1>1, <1>3 DEF SetLink, Job
  <2>2. /\ topo' \in Topologies /\ ops' = ops /\ silent' = silent
        /\ at' = [at EXCEPT ![t] = "register"] /\ at[t] = "probe"
        /\ UNCHANGED <<boot, links, seen, changed, routing>>
    BY <1>1, <1>3, UpdateLinkType DEF SetLink, Goto
  <2>3. QED
    BY <1>1, <2>1, <2>2, RequestStep
<1>4. CASE RegisterLink(t)
  <2>1. job[t].cost \in Cost
    BY <1>4 DEF RegisterLink, IInv, Types, JobIsSettled
  <2>2. /\ topo' \in Topologies /\ ops' = ops /\ job' = [job EXCEPT ![t] = NoJob]
        /\ at[t] = "register"
        /\ UNCHANGED <<boot, links, seen, changed, routing>>
        /\ \/ at' = [at EXCEPT ![t] = "trigger"] /\ silent' = silent
           \/ at' = [at EXCEPT ![t] = "idle"] /\ silent' = TRUE
    BY <1>1, <1>4, <2>1, UpdateLinkType DEF RegisterLink, ReturnSilently, Goto
  <2>3. QED
    BY <1>1, <2>2, RequestStep
<1>5. QED
  BY <1>2, <1>3, <1>4 DEF Continue

-----------------------------------------------------------------------------
(* Recomputing. *)

LEMMA LockIInv == ASSUME IInv, NEW t \in Thread, Lock(t) PROVE IInv'
<1> USE ThreadFacts
<1>1. /\ at[t] = "trigger" /\ at' = [at EXCEPT ![t] = "start"]
      /\ holder = NoThread /\ holder' = t
      /\ UNCHANGED <<boot, topo, job, links, seen, changed, view, table, silent, ops>>
  BY DEF Lock, Goto
<1>2. at'[t] = "start" /\ \A o \in Thread : o # t => at'[o] = at[o]
  BY <1>1 DEF IInv, Types, TypeOK
<1>3. Placed'
  BY <1>1, <1>2 DEF IInv, Types, TypeOK, Placed, Places
<1>4. TypeOK' /\ JobIsSettled'
  BY <1>1, <1>2, <1>3 DEF IInv, Types, TypeOK, Placed, JobIsSettled
<1>5. Excused'
  BY <1>2 DEF Excused, Owes
<1>6. QED
  BY <1>4, <1>5, ExcusedSuffices DEF IInv, Types

LEMMA ReadNodesIInv == ASSUME IInv, NEW t \in Thread, ReadNodes(t) PROVE IInv'
<1> USE ThreadFacts
<1>1. /\ at[t] = "start" /\ at' = [at EXCEPT ![t] = "search"]
      /\ view' = [view EXCEPT ![t] = NodesRead(topo)] /\ silent' = FALSE
      /\ UNCHANGED <<boot, topo, job, links, seen, changed, holder, table, ops>>
  BY DEF ReadNodes, Goto
<1>2. Placed' /\ at'[t] = "search" /\ \A o \in Thread : o # t => at'[o] = at[o]
  BY <1>1, Moves DEF IInv, Types, Places
<1>3. holder = t
  BY <1>1 DEF IInv, Types, TypeOK
<1>4. topo \in Topologies
  BY DEF IInv, Types, TypeOK
<1>5. NodesRead(topo) \in Views /\ InStep(NodesRead(topo), topo)
  BY <1>4, NodesReadType
<1>6. view'[t] = NodesRead(topo) /\ view' \in [Thread -> Views]
  BY <1>1, <1>5 DEF IInv, Types, TypeOK
<1>7. TypeOK' /\ JobIsSettled'
  BY <1>1, <1>2, <1>6 DEF IInv, Types, TypeOK, Placed, JobIsSettled
<1>8. TableIsOwed'
  BY <1>1, <1>3 DEF TableIsOwed
<1>9. ViewIsOwed'
  <2>1. \A o \in Thread : at'[o] = "search" => o = t
    BY <1>1, <1>2, <1>3 DEF Placed
  <2>2. InStep(view[t], topo)'
    BY <1>1, <1>5, <1>6 DEF InStep, NodesOf, Read
  <2>3. QED
    BY <2>1, <2>2 DEF ViewIsOwed
<1>10. QED
  BY <1>7, <1>8, <1>9 DEF IInv, Types

LEMMA ReadRowIInv ==
  ASSUME IInv, NEW t \in Thread, NEW u \in Node, ReadRow(t, u) PROVE IInv'
<1> USE ThreadFacts
<1>1. /\ at[t] = "search"
      /\ view' = [view EXCEPT ![t] = RowRead(view[t], topo, u)]
      /\ UNCHANGED <<boot, topo, at, job, links, seen, changed, holder, table, silent, ops>>
  BY DEF ReadRow, handler
<1>2. holder = t
  BY <1>1 DEF IInv, Types, TypeOK
<1>3. topo \in Topologies /\ view[t] \in Views
  BY DEF IInv, Types, TypeOK
<1>4. /\ RowRead(view[t], topo, u) \in Views
      /\ InStep(view[t], topo) => InStep(RowRead(view[t], topo, u), topo)
  BY <1>3, RowReadType
<1>5. view'[t] = RowRead(view[t], topo, u) /\ view' \in [Thread -> Views]
  BY <1>1, <1>4 DEF IInv, Types, TypeOK
<1>6. TypeOK' /\ JobIsSettled'
  BY <1>1, <1>5 DEF IInv, Types, TypeOK, JobIsSettled
<1>7. TableIsOwed'
  BY <1>1, <1>2 DEF TableIsOwed
<1>8. ViewIsOwed'
  <2>1. Excused' <=> Excused
    BY <1>1 DEF Excused, Owes
  <2>2. \A o \in Thread : at[o] = "search" => o = t
    BY <1>2 DEF IInv, Types, TypeOK
  <2>3. InStep(view[t], topo) => InStep(view[t], topo)'
    BY <1>1, <1>4, <1>5 DEF InStep, NodesOf, Read
  <2>4. QED
    BY <2>1, <2>2, <2>3, <1>1 DEF IInv, ViewIsOwed
<1>9. QED
  BY <1>6, <1>7, <1>8 DEF IInv, Types

LEMMA InstallIInv == ASSUME IInv, NEW t \in Thread, Install(t) PROVE IInv'
<1> USE ThreadFacts
<1>1. /\ at[t] = "search" /\ at' = [at EXCEPT ![t] = "idle"]
      /\ table' = view[t] /\ view' = [view EXCEPT ![t] = NoView] /\ holder' = NoThread
      /\ UNCHANGED <<boot, topo, job, links, seen, changed, silent, ops>>
  BY DEF Install, Goto
<1>2. at'[t] = "idle" /\ \A o \in Thread : o # t => at'[o] = at[o]
  BY <1>1 DEF IInv, Types, TypeOK
<1>3. \A o \in Thread : o # t => at[o] \notin {"start", "search"}
  BY <1>1 DEF IInv, Types, TypeOK
<1>4. Placed'
  BY <1>1, <1>2, <1>3 DEF IInv, Types, TypeOK, Placed, Places
<1>5. view' \in [Thread -> Views] /\ table' \in Views
  BY <1>1, NoViewType DEF IInv, Types, TypeOK
<1>6. TypeOK' /\ JobIsSettled'
  BY <1>1, <1>2, <1>4, <1>5 DEF IInv, Types, TypeOK, Placed, JobIsSettled
<1>7. Excused => Excused'
  <2>1. ~Owes(t)
    BY <1>1 DEF Owes
  <2>2. \A o \in Thread : o # t => (Owes(o) <=> Owes(o)')
    BY <1>1, <1>2 DEF Owes
  <2>3. QED
    BY <2>1, <2>2, <1>1 DEF Excused
<1>8. TableIsOwed'
  <2>1. InStep(table, topo)' <=> InStep(view[t], topo)
    BY <1>1 DEF InStep, NodesOf, Read
  <2>2. QED
    BY <2>1, <1>1, <1>7 DEF IInv, ViewIsOwed, TableIsOwed
<1>9. ViewIsOwed'
  BY <1>2, <1>3 DEF ViewIsOwed
<1>10. QED
  BY <1>6, <1>8, <1>9 DEF IInv, Types

-----------------------------------------------------------------------------

LEMMA StutterIInv == ASSUME IInv, UNCHANGED vars PROVE IInv'
<1>1. UNCHANGED <<boot, topo, at, job, links, seen, changed, holder, view, table, silent, ops>>
  BY DEF vars, handler, routing
<1>2. TypeOK' /\ JobIsSettled'
  BY <1>1 DEF IInv, Types, TypeOK, JobIsSettled
<1>3. Excused => Excused'
  BY <1>1 DEF Excused, Owes
<1>4. QED
  BY <1>1, <1>2, <1>3, QuietStep DEF IInv, Types, routing

LEMMA NextIInv == ASSUME IInv, [Next]_vars PROVE IInv'
<1>1. CASE Boot
  BY <1>1, BootIInv
<1>2. CASE HandleEvent
  BY <1>2, HandleEventIInv
<1>3. CASE Merge
  BY <1>3, MergeLookupIInv, MergeWriteIInv, MergeEndIInv DEF Merge
<1>4. CASE \E t \in Caller : Serve(t) \/ Continue(t)
  BY <1>4, ServeIInv, ContinueIInv
<1>5. CASE \E t \in Thread : Lock(t) \/ Recompute(t)
  BY <1>5, LockIInv, ReadNodesIInv, ReadRowIInv, InstallIInv DEF Recompute
<1>6. CASE UNCHANGED vars
  BY <1>6, StutterIInv
<1>7. QED
  BY <1>1, <1>2, <1>3, <1>4, <1>5, <1>6 DEF Next

THEOREM Invariant == Spec => []IInv
<1>1. Init => IInv
  BY InitIInv
<1>2. IInv /\ [Next]_vars => IInv'
  BY NextIInv
<1>3. QED
  BY <1>1, <1>2, PTL DEF Spec

\* Types, and only the holder of the lock has a view under construction.
THEOREM TypeCorrect == Spec => []TypeOK
<1>1. IInv => TypeOK
  BY DEF IInv, Types
<1>2. QED
  BY <1>1, Invariant, PTL

\* No update is lost (route_manager.go: RecomputeRoutes; topology_sync.go:
\* triggerTopologyChange after the last write of a handler).
THEOREM NoUpdateIsLost == Spec => []StaleIsOwed
<1>1. IInv => StaleIsOwed
  BY DEF IInv, TableIsOwed, Excused, StaleIsOwed
<1>2. QED
  BY <1>1, Invariant, PTL

-----------------------------------------------------------------------------
(* What is left undone concerns refused links only. The excuse of NoUpdateIsLost *)
(* is not enough here: a thread about to register a link may yet give up, so     *)
(* it counts only for a link that serf will broadcast.                           *)

Spared(a, b) == {a, b} \cap TooLong = {}

LinksInStep(v) ==
  \A a \in Read(v), b \in Node : Spared(a, b) => v.rows[a][b] = topo.edges[a][b]

\* This thread will recompute, whatever serf says.
Bound(t) ==
  \/ at[t] \in {"trigger", "start"}
  \/ at[t] = "register" /\ Spared(Self, job[t].to)
  \/ t = Loop /\ at[t] \in {"merge", "decide"} /\ changed

Owed == boot # "up" \/ \E t \in Thread : Bound(t)

LinksAreOwed ==
  /\ holder = NoThread => LinksInStep(table) \/ Owed
  /\ \A t \in Thread : at[t] = "search" => LinksInStep(view[t]) \/ Owed

LEMMA OwedSuffices == ASSUME Owed' PROVE LinksAreOwed'
  BY DEF LinksAreOwed, Owed

\* A step that writes no spared link and keeps what was owed.
LEMMA SparingStep ==
  ASSUME LinksAreOwed, Owed => Owed', UNCHANGED routing,
         \A t \in Thread : at'[t] = "search" => at[t] = "search",
         \A a, b \in Node : Spared(a, b) => topo'.edges[a][b] = topo.edges[a][b]
  PROVE  LinksAreOwed'
<1>1. UNCHANGED <<holder, view, table>>
  BY DEF routing
<1>2. ASSUME NEW v, LinksInStep(v) PROVE \A a \in Read(v), b \in Node :
        Spared(a, b) => v.rows[a][b] = topo'.edges[a][b]
  BY <1>2 DEF LinksInStep, Read
<1>3. LinksInStep(table) => LinksInStep(table)'
  BY <1>1, <1>2 DEF LinksInStep, Read, Spared
<1>4. \A t \in Thread : LinksInStep(view[t]) => LinksInStep(view[t])'
  BY <1>1, <1>2 DEF LinksInStep, Read, Spared
<1>5. QED
  BY <1>1, <1>3, <1>4 DEF LinksAreOwed

\* One handler moves on and does not take back that a recomputation is due.
LEMMA SparingMove ==
  ASSUME Types, LinksAreOwed, UNCHANGED <<routing, boot>>,
         NEW t \in Thread, NEW p, at' = [at EXCEPT ![t] = p], p # "search",
         \A o \in Thread \ {t} : job'[o] = job[o],
         t # Loop => changed' = changed,
         Bound(t) => Bound(t)',
         \A a, b \in Node : Spared(a, b) => topo'.edges[a][b] = topo.edges[a][b]
  PROVE  LinksAreOwed'
<1>1. at'[t] = p /\ \A o \in Thread : o # t => at'[o] = at[o]
  BY DEF Types, TypeOK
<1>2. \A o \in Thread : Bound(o) => Bound(o)'
  BY <1>1 DEF Bound, Spared
<1>3. Owed => Owed'
  BY <1>2 DEF Owed
<1>4. QED
  BY <1>1, <1>3, SparingStep

LEMMA BoundSuffices ==
  ASSUME Types, NEW t \in Thread, NEW p, at' = [at EXCEPT ![t] = p],
         \/ p = "trigger"
         \/ p = "start"
         \/ p = "register" /\ Spared(Self, job'[t].to)
         \/ p = "merge" /\ t = Loop /\ changed'
  PROVE  LinksAreOwed'
<1>1. at'[t] = p
  BY DEF Types, TypeOK
<1>2. Bound(t)'
  BY <1>1 DEF Bound, Spared
<1>3. QED
  BY <1>2, OwedSuffices DEF Owed

LEMMA BootLinks == ASSUME IInv, LinksAreOwed, Boot PROVE LinksAreOwed'
<1>1. CASE HandleOwnJoin
  <2>1. at' = [at EXCEPT ![Loop] = "trigger"]
    BY <1>1 DEF HandleOwnJoin, Goto
  <2>2. QED
    BY <2>1, ThreadFacts, BoundSuffices DEF IInv
<1>2. CASE ~HandleOwnJoin
  <2>1. boot' # "up"
    BY <1>2 DEF Boot, StartNode, StartLoop, ConfigureEdge
  <2>2. QED
    BY <2>1, OwedSuffices DEF Owed
<1>3. QED
  BY <1>1, <1>2

LEMMA EventLinks == ASSUME IInv, LinksAreOwed, HandleEvent PROVE LinksAreOwed'
<1> USE ThreadFacts
<1>1. CASE Goto(Loop, "trigger")
  BY <1>1, BoundSuffices DEF Goto, IInv
<1>2. ASSUME NEW ls \in SyncLinks, HandleTopologySync(ls) PROVE LinksAreOwed'
  <2>1. /\ at' = [at EXCEPT ![Loop] = "merge"] /\ at[Loop] = "idle"
        /\ UNCHANGED <<routing, boot, topo, job>>
    BY <1>2 DEF HandleTopologySync, Event, Goto
  <2>2. ~Bound(Loop)
    BY <2>1 DEF Bound
  <2>3. QED
    BY <2>1, <2>2, SparingMove DEF IInv
<1>3. QED
  BY <1>1, <1>2 DEF HandleEvent, HandleNodeJoin, HandleNodeLeave, HandleLinkUpdate, HandleLinkRemoval

LEMMA MergeLinks == ASSUME IInv, LinksAreOwed, Merge PROVE LinksAreOwed'
<1> USE ThreadFacts
<1>1. at \in [Thread -> Places \cup {"merge", "decide"}] /\ job \in [Thread -> Job]
  BY DEF IInv, Types, TypeOK
<1>2. ASSUME NEW link \in links, MergeLookup(link) PROVE LinksAreOwed'
  <2>1. /\ at' = [at EXCEPT ![Loop] = "decide"] /\ at[Loop] = "merge"
        /\ job' = [job EXCEPT ![Loop] = link]
        /\ UNCHANGED <<routing, boot, topo, changed>>
    BY <1>2 DEF MergeLookup, Goto
  <2>2. Bound(Loop) => Bound(Loop)'
    BY <1>1, <2>1 DEF Bound
  <2>3. QED
    BY <1>1, <2>1, <2>2, SparingMove DEF IInv
<1>3. CASE MergeWrite
  <2>1. /\ at' = [at EXCEPT ![Loop] = "merge"] /\ at[Loop] = "decide"
        /\ job' = [job EXCEPT ![Loop] = NoJob]
        /\ UNCHANGED <<routing, boot>>
        /\ changed' = TRUE \/ UNCHANGED <<topo, changed>>
    BY <1>3 DEF MergeWrite, Goto
  <2>2. CASE changed' = TRUE
    BY <2>1, <2>2, BoundSuffices DEF IInv
  <2>3. CASE UNCHANGED <<topo, changed>>
    <3>1. Bound(Loop) => Bound(Loop)'
      BY <1>1, <2>1, <2>3 DEF Bound
    <3>2. QED
      BY <1>1, <2>1, <2>3, <3>1, SparingMove DEF IInv
  <2>4. QED
    BY <2>1, <2>2, <2>3
<1>4. CASE MergeEnd
  <2>1. /\ at' = [at EXCEPT ![Loop] = IF changed THEN "trigger" ELSE "idle"] /\ at[Loop] = "merge"
        /\ UNCHANGED <<routing, boot, topo, job>>
    BY <1>4 DEF MergeEnd, Goto
  <2>2. CASE changed
    BY <2>1, <2>2, BoundSuffices DEF IInv
  <2>3. CASE ~changed
    <3>1. ~Bound(Loop)
      BY <2>1, <2>3 DEF Bound
    <3>2. QED
      BY <2>1, <2>3, <3>1, SparingMove DEF IInv
  <2>4. QED
    BY <2>2, <2>3
<1>5. QED
  BY <1>2, <1>3, <1>4 DEF Merge

LEMMA ServeLinks == ASSUME IInv, LinksAreOwed, NEW t \in Caller, Serve(t) PROVE LinksAreOwed'
<1> USE ThreadFacts
<1>1. topo \in Topologies /\ job \in [Thread -> Job]
  BY DEF IInv, Types, TypeOK
<1>2. /\ at[t] = "idle" /\ UNCHANGED <<routing, boot, changed>>
      /\ \A o \in Thread \ {t} : job'[o] = job[o]
  BY <1>1 DEF Serve, AddLink, RegisterNode, UnregisterNode, UnregisterLink, Call
<1>3. ~Bound(t)
  BY <1>2 DEF Bound
<1>4. ASSUME NEW n \in Node, AddLink(t, n) \/ RegisterNode(t, n) PROVE LinksAreOwed'
  <2>1. topo'.edges = topo.edges
    BY <1>1, <1>4, AddNodeType DEF AddLink, RegisterNode
  <2>2. \E p \in {"probe", "idle"} : at' = [at EXCEPT ![t] = p]
    BY <1>4 DEF AddLink, RegisterNode, ReturnSilently, Goto
  <2>3. QED
    BY <1>2, <1>3, <2>1, <2>2, SparingMove DEF IInv
<1>5. ASSUME NEW n \in Node, UnregisterNode(t, n) PROVE LinksAreOwed'
  BY <1>5, BoundSuffices DEF UnregisterNode, Goto, IInv
<1>6. ASSUME NEW a \in Node, NEW b \in Node, UnregisterLink(t, a, b) PROVE LinksAreOwed'
  <2>1. CASE Broadcasts(a, b)
    BY <1>6, <2>1, BoundSuffices DEF UnregisterLink, Goto, IInv
  <2>2. CASE ~Broadcasts(a, b)
    <3>1. at' = [at EXCEPT ![t] = "idle"]
      BY <1>6, <2>2 DEF UnregisterLink, ReturnSilently, Goto
    <3>2. \A x, y \in Node : Spared(x, y) => topo'.edges[x][y] = topo.edges[x][y]
      BY <1>1, <1>6, <2>2, RemoveLinkEdges DEF UnregisterLink, Broadcasts, Spared
    <3>3. QED
      BY <1>2, <1>3, <3>1, <3>2, SparingMove DEF IInv
  <2>3. QED
    BY <2>1, <2>2
<1>7. QED
  BY <1>4, <1>5, <1>6 DEF Serve

LEMMA ContinueLinks == ASSUME IInv, LinksAreOwed, NEW t \in Caller, Continue(t) PROVE LinksAreOwed'
<1> USE ThreadFacts, LinkStateViewAssumption
<1>1. /\ topo \in Topologies /\ job \in [Thread -> Job] /\ job[t].to \in Node
      /\ at \in [Thread -> Places \cup {"merge", "decide"}]
  BY DEF IInv, Types, TypeOK, Job
<1>2. /\ UNCHANGED <<routing, boot, changed>>
      /\ \A o \in Thread \ {t} : job'[o] = job[o]
  BY <1>1 DEF Continue, ProbeFails, SetLink, RegisterLink
<1>3. CASE ProbeFails(t)
  <2>1. at' = [at EXCEPT ![t] = "idle"] /\ at[t] = "probe" /\ topo' = topo
    BY <1>3 DEF ProbeFails, ReturnSilently, Goto
  <2>2. ~Bound(t)
    BY <2>1 DEF Bound
  <2>3. QED
    BY <1>2, <2>1, <2>2, SparingMove DEF IInv
<1>4. ASSUME NEW c \in Cost, SetLink(t, c) PROVE LinksAreOwed'
  <2>1. /\ at' = [at EXCEPT ![t] = "register"] /\ at[t] = "probe"
        /\ topo' = UpdateLink(topo, Self, job[t].to, c)
        /\ job'[t].to = job[t].to
    BY <1>1, <1>4 DEF SetLink, Goto, Job
  <2>2. ~Bound(t)
    BY <2>1 DEF Bound
  <2>3. CASE Spared(Self, job[t].to)
    BY <2>1, <2>3, BoundSuffices DEF IInv, Spared
  <2>4. CASE ~Spared(Self, job[t].to)
    <3>1. \A x, y \in Node : Spared(x, y) => topo'.edges[x][y] = topo.edges[x][y]
      BY <1>1, <2>1, <2>4, UpdateLinkEdges DEF Spared
    <3>2. QED
      BY <1>2, <2>1, <2>2, <3>1, SparingMove DEF IInv
  <2>5. QED
    BY <2>3, <2>4
<1>5. CASE RegisterLink(t)
  <2>1. CASE Broadcasts(Self, job[t].to)
    BY <1>5, <2>1, BoundSuffices DEF RegisterLink, Goto, IInv
  <2>2. CASE ~Broadcasts(Self, job[t].to)
    <3>1. /\ at' = [at EXCEPT ![t] = "idle"] /\ at[t] = "register"
          /\ topo' = UpdateLink(topo, Self, job[t].to, job[t].cost)
      BY <1>5, <2>2 DEF RegisterLink, ReturnSilently, Goto
    <3>2. ~Spared(Self, job[t].to)
      BY <2>2 DEF Broadcasts, Spared
    <3>3. ~Bound(t)
      BY <3>1, <3>2 DEF Bound
    <3>4. \A x, y \in Node : Spared(x, y) => topo'.edges[x][y] = topo.edges[x][y]
      BY <1>1, <3>1, <3>2, UpdateLinkEdges DEF Spared
    <3>5. QED
      BY <1>2, <3>1, <3>3, <3>4, SparingMove DEF IInv
  <2>3. QED
    BY <2>1, <2>2
<1>6. QED
  BY <1>3, <1>4, <1>5 DEF Continue

LEMMA ComputingLinks ==
  ASSUME IInv, LinksAreOwed, NEW t \in Thread, Lock(t) \/ Recompute(t) PROVE LinksAreOwed'
<1>1. /\ at \in [Thread -> Places \cup {"merge", "decide"}] /\ view \in [Thread -> Views]
      /\ \A o \in Thread : at[o] \in {"start", "search"} <=> holder = o
  BY DEF IInv, Types, TypeOK
<1>2. CASE Lock(t)
  BY <1>2, BoundSuffices DEF Lock, Goto, IInv
<1>3. CASE ReadNodes(t)
  <2>1. at'[t] = "search" /\ holder' = t /\ view'[t] = NodesRead(topo)
        /\ \A o \in Thread : at'[o] = "search" => o = t
    BY <1>1, <1>3 DEF ReadNodes, Goto
  <2>2. Read(view'[t]) = {}
    BY <2>1 DEF Read, NodesRead
  <2>3. LinksInStep(view[t])'
    BY <2>2 DEF LinksInStep, Read
  <2>4. QED
    BY <2>1, <2>3, ThreadFacts DEF LinksAreOwed
<1>4. ASSUME NEW u \in Node, ReadRow(t, u) PROVE LinksAreOwed'
  <2>1. /\ at[t] = "search" /\ holder = t
        /\ view'[t] = RowRead(view[t], topo, u)
        /\ UNCHANGED <<boot, topo, at, job, changed, holder, table>>
    BY <1>1, <1>4 DEF ReadRow, handler
  <2>2. Owed => Owed'
    BY <2>1 DEF Owed, Bound, Spared
  <2>3. ASSUME LinksInStep(view[t]) PROVE LinksInStep(view[t])'
    <3>1. \A a \in Node : view'[t].rows[a] = IF a = u THEN topo.edges[u] ELSE view[t].rows[a]
      BY <1>1, <2>1 DEF RowRead, Views
    <3>2. QED
      BY <2>1, <2>3, <3>1 DEF LinksInStep, Read, Spared
  <2>4. \A o \in Thread : at'[o] = "search" => o = t
    BY <1>1, <2>1
  <2>5. QED
    BY <2>1, <2>2, <2>3, <2>4, ThreadFacts DEF LinksAreOwed
<1>5. CASE Install(t)
  <2>1. /\ at[t] = "search" /\ at' = [at EXCEPT ![t] = "idle"] /\ table' = view[t]
        /\ UNCHANGED <<boot, topo, job, changed>>
    BY <1>5 DEF Install, Goto
  <2>2. at'[t] = "idle" /\ \A o \in Thread : o # t => at'[o] = at[o]
    BY <1>1, <2>1
  <2>3. Owed => Owed'
    <3>1. ~Bound(t)
      BY <2>1 DEF Bound
    <3>2. \A o \in Thread : o # t => (Bound(o) => Bound(o)')
      BY <2>1, <2>2 DEF Bound, Spared
    <3>3. QED
      BY <3>1, <3>2, <2>1 DEF Owed
  <2>4. LinksInStep(view[t]) => LinksInStep(table)'
    BY <2>1 DEF LinksInStep, Read, Spared
  <2>5. \A o \in Thread : at'[o] # "search"
    BY <1>1, <2>1, <2>2
  <2>6. QED
    BY <2>1, <2>3, <2>4, <2>5 DEF LinksAreOwed
<1>6. QED
  BY <1>2, <1>3, <1>4, <1>5 DEF Recompute

\* However many handlers gave up, what the table misses of the links is only
\* what serf refused to broadcast (topology_sync.go: RegisterLink,
\* UnregisterLink; grpc_server.go: AddLink).
THEOREM OnlyRefusalsAreMissed == Spec => []OnlyRefusedLinksLag
<1>1. Init => IInv /\ LinksAreOwed
  BY InitIInv DEF Init, LinksAreOwed, Owed
<1>2. IInv /\ LinksAreOwed /\ [Next]_vars => IInv' /\ LinksAreOwed'
  <2> SUFFICES ASSUME IInv, LinksAreOwed, [Next]_vars PROVE LinksAreOwed'
    BY NextIInv
  <2>1. CASE UNCHANGED vars
    <3>1. Owed => Owed'
      BY <2>1 DEF vars, handler, Owed, Bound, Spared
    <3>2. QED
      BY <2>1, <3>1, SparingStep DEF vars, handler
  <2>2. CASE Next
    BY <2>2, BootLinks, EventLinks, MergeLinks, ServeLinks, ContinueLinks, ComputingLinks DEF Next
  <2>3. QED
    BY <2>1, <2>2
<1>3. IInv /\ LinksAreOwed => OnlyRefusedLinksLag
  <2> SUFFICES ASSUME IInv, LinksAreOwed, Quiet PROVE LinksInStep(table)
    BY DEF OnlyRefusedLinksLag, LinksInStep, Broadcasts, Spared, Quiet
  <2>1. \A t \in Thread : ~Bound(t)
    BY DEF Quiet, Bound
  <2>2. holder = NoThread
    BY DEF IInv, Types, TypeOK, Quiet
  <2>3. QED
    BY <2>1, <2>2 DEF LinksAreOwed, Owed, Quiet
<1>4. QED
  BY <1>1, <1>2, <1>3, PTL DEF Spec

-----------------------------------------------------------------------------
(* What the table is worth when nothing is going on. *)

Finished(v) == Self \in v.nodes /\ Self \in Read(v) /\ Frontier(v) = {}

Routing == {"trigger", "start", "search"}

\* Once the router is up it has a table that was computed to the end, or the
\* event loop is about to compute the first one.
HasTable ==
  /\ \A t \in Thread : at[t] = "search" => Self \in view[t].nodes
  /\ boot # "up" \/ Finished(table) \/ at[Loop] \in Routing

\* The steps of handlers: they ask for computations and leave them alone.
LEMMA HandlersKeepTable ==
  ASSUME Types, HasTable,
         UNCHANGED <<view, table>>, boot' = boot \/ boot' # "up",
         NEW t \in Thread, NEW p, at' = [at EXCEPT ![t] = p], at[t] \notin Routing, p # "search"
  PROVE  HasTable'
<1>1. at'[t] = p /\ \A o \in Thread : o # t => at'[o] = at[o]
  BY DEF Types, TypeOK
<1>2. (\A o \in Thread : at[o] = "search" => Self \in view[o].nodes)'
  BY <1>1 DEF HasTable
<1>3. at[Loop] \in Routing => at'[Loop] \in Routing
  BY <1>1, ThreadFacts
<1>4. QED
  BY <1>2, <1>3 DEF HasTable, Finished, Read, Frontier

LEMMA BootKeepsTable == ASSUME Types, HasTable, Boot PROVE HasTable'
<1>1. CASE HandleOwnJoin
  <2>1. at'[Loop] = "trigger" /\ \A o \in Thread : at'[o] = "search" => at[o] = "search"
    BY <1>1, ThreadFacts DEF HandleOwnJoin, Goto, Types, TypeOK
  <2>2. QED
    BY <1>1, <2>1 DEF HandleOwnJoin, routing, HasTable, Routing
<1>2. CASE ~HandleOwnJoin
  BY <1>2 DEF Boot, StartNode, StartLoop, ConfigureEdge, handler, routing, HasTable
<1>3. QED
  BY <1>1, <1>2

LEMMA LoopKeepsTable == ASSUME Types, HasTable, HandleEvent \/ Merge PROVE HasTable'
<1>1. UNCHANGED <<view, table, boot>> /\ at[Loop] \notin Routing
  BY DEF HandleEvent, HandleNodeJoin, HandleNodeLeave, HandleLinkUpdate, HandleLinkRemoval,
         HandleTopologySync, Event, Merge, MergeLookup, MergeWrite, MergeEnd, routing, Routing
<1>2. \E p \in {"trigger", "merge", "decide", "idle"} : at' = [at EXCEPT ![Loop] = p]
  BY DEF HandleEvent, HandleNodeJoin, HandleNodeLeave, HandleLinkUpdate, HandleLinkRemoval,
         HandleTopologySync, Event, Merge, MergeLookup, MergeWrite, MergeEnd, Goto
<1>3. QED
  BY <1>1, <1>2, ThreadFacts, HandlersKeepTable

LEMMA RequestsKeepTable ==
  ASSUME Types, HasTable, NEW t \in Caller, Serve(t) \/ Continue(t) PROVE HasTable'
<1>1. UNCHANGED <<view, table, boot>> /\ at[t] \notin Routing
  BY DEF Serve, AddLink, RegisterNode, UnregisterNode, UnregisterLink, Call,
         Continue, ProbeFails, SetLink, RegisterLink, routing, Routing
<1>2. \E p \in {"probe", "register", "trigger", "idle"} : at' = [at EXCEPT ![t] = p]
  BY DEF Serve, AddLink, RegisterNode, UnregisterNode, UnregisterLink, Call,
         Continue, ProbeFails, SetLink, RegisterLink, ReturnSilently, Goto
<1>3. QED
  BY <1>1, <1>2, ThreadFacts, HandlersKeepTable

\* A computation that ends has read everything that matters.
LEMMA ComputingKeepsTable ==
  ASSUME Types, HasTable, NEW t \in Thread, Lock(t) \/ Recompute(t) PROVE HasTable'
<1>1. at \in [Thread -> Places \cup {"merge", "decide"}] /\ view \in [Thread -> Views]
  BY DEF Types, TypeOK
<1>2. CASE Lock(t)
  BY <1>1, <1>2 DEF Lock, Goto, HasTable, Routing, Finished, Read, Frontier
<1>3. CASE ReadNodes(t)
  <2>1. view'[t] = NodesRead(topo) /\ \A o \in Thread : o # t => view'[o] = view[o] /\ at'[o] = at[o]
    BY <1>1, <1>3 DEF ReadNodes, Goto
  <2>2. Self \in view'[t].nodes
    BY <2>1 DEF NodesRead, NodesOf
  <2>3. at'[t] = "search" /\ UNCHANGED <<boot, table>>
    BY <1>1, <1>3 DEF ReadNodes, Goto
  <2>4. at[Loop] \in Routing => at'[Loop] \in Routing
    BY <2>1, <2>3, ThreadFacts DEF Routing
  <2>5. QED
    BY <2>1, <2>2, <2>3, <2>4 DEF HasTable, Finished, Read, Frontier
<1>4. ASSUME NEW u \in Node, ReadRow(t, u) PROVE HasTable'
  <2>1. UNCHANGED <<at, boot, table>>
    BY <1>4 DEF ReadRow, handler
  <2>2. \A o \in Thread : view'[o].nodes = view[o].nodes
    BY <1>1, <1>4 DEF ReadRow, RowRead
  <2>3. QED
    BY <2>1, <2>2 DEF HasTable, Finished, Read, Frontier
<1>5. CASE Install(t)
  <2>1. Frontier(view[t]) = {} /\ Self \in view[t].nodes /\ Self \in Node
    BY <1>5, LinkStateViewAssumption DEF Install, HasTable
  <2>2. Self \in Read(view[t])
    BY <2>1 DEF Frontier, Read
  <2>3. Finished(table')
    BY <1>5, <2>1, <2>2 DEF Install, Finished
  <2>4. \A o \in Thread : at'[o] = "search" => at[o] = "search" /\ view'[o] = view[o]
    BY <1>1, <1>5 DEF Install, Goto
  <2>5. QED
    BY <2>3, <2>4 DEF HasTable, Finished, Read, Frontier
<1>6. QED
  BY <1>2, <1>3, <1>4, <1>5 DEF Recompute

LEMMA TableInvariant == Spec => [](IInv /\ HasTable)
<1>1. Init => IInv /\ HasTable
  BY InitIInv DEF Init, HasTable
<1>2. IInv /\ HasTable /\ [Next]_vars => IInv' /\ HasTable'
  <2> SUFFICES ASSUME IInv, HasTable, [Next]_vars PROVE HasTable'
    BY NextIInv
  <2>1. Types
    BY DEF IInv
  <2>2. CASE UNCHANGED vars
    BY <2>2 DEF vars, handler, routing, HasTable, Finished, Read, Frontier
  <2>3. CASE Next
    BY <2>1, <2>3, BootKeepsTable, LoopKeepsTable, RequestsKeepTable, ComputingKeepsTable DEF Next
  <2>4. QED
    BY <2>2, <2>3
<1>3. QED
  BY <1>1, <1>2, PTL DEF Spec

LEMMA QuietIsCurrent == IInv /\ HasTable => QuietTableIsCurrent
<1> SUFFICES ASSUME IInv, HasTable, Quiet, ~silent PROVE SameRoutes(table, topo)
  BY DEF QuietTableIsCurrent
<1>1. \A t \in Thread : ~Owes(t)
  BY DEF Quiet, Owes
<1>2. holder = NoThread
  BY DEF IInv, Types, TypeOK, Quiet
<1>3. InStep(table, topo)
  BY <1>1, <1>2 DEF IInv, TableIsOwed, Excused, Quiet
<1>4. Finished(table)
  BY ThreadFacts DEF HasTable, Quiet, Routing
<1>5. QED
  BY <1>3, <1>4 DEF InStep, Finished, SameRoutes

\* When all handlers have returned and none has given up since the table was
\* computed, it was computed from what the topology still is (route_manager.go:
\* RecomputeRoutes; topology_sync.go: handleNodeJoin for the router itself).
THEOREM QuietTablesAreCurrent == Spec => []QuietTableIsCurrent
<1>1. IInv /\ HasTable => QuietTableIsCurrent
  BY QuietIsCurrent
<1>2. QED
  BY <1>1, TableInvariant, PTL

\* What SameRoutes is for: the chains of links from the router are the same in
\* what the computation has read and in the topology, and so are their costs.
LEMMA SameRoutesSamePaths ==
  ASSUME IsFiniteSet(Node), NEW v \in Views, NEW t \in Topologies, Finished(v), SameRoutes(v, t),
         NEW d \in Node
  PROVE  /\ Paths(v.nodes, v.rows, Self, d) = Paths(NodesOf(t), t.edges, Self, d)
         /\ \A p \in Paths(NodesOf(t), t.edges, Self, d) : PathCost(v.rows, p) = PathCost(t.edges, p)
<1>1. v.nodes \subseteq Node /\ NodesOf(t) \subseteq Node
  BY LinkStateViewAssumption DEF Views, Topologies, NodesOf
<1>2. IsFiniteSet(v.nodes) /\ IsFiniteSet(NodesOf(t))
  BY <1>1, FS_Subset
<1>3. ASSUME NEW u \in Read(v), NEW w \in Node
      PROVE  /\ v.rows[u] = t.edges[u]
             /\ v.rows[u][w] # NoLink => (w \in v.nodes <=> w \in NodesOf(t))
             /\ v.rows[u][w] # NoLink /\ w \in v.nodes => w \in Read(v)
  BY <1>3 DEF SameRoutes, Finished, Frontier, Read, Neighbors
<1>4. Self \in Read(v) /\ Self \in NodesOf(t) /\ Self \in Node
  BY LinkStateViewAssumption DEF Finished, NodesOf
<1>5. \A u \in Node, w \in Node : t.edges[u][w] # NoLink => t.edges[u][w] \in Int
  BY TopologyAssumption DEF Topologies, Row
<1>6. Read(v) \subseteq Node
  BY DEF Read
<1>7. CarriesOver(v.nodes, v.rows, NodesOf(t), t.edges, Read(v))
  BY <1>1, <1>3, <1>5, <1>6 DEF CarriesOver
<1>8. CarriesOver(NodesOf(t), t.edges, v.nodes, v.rows, Read(v))
  BY <1>1, <1>3, <1>5, <1>6 DEF CarriesOver
<1>9. Self \in v.nodes
  BY DEF Finished
<1>10. QED
  BY <1>2, <1>4, <1>7, <1>8, <1>9, PathsCarryOver

\* The chains of links from the router to d are those the table was computed
\* from, and cost the same.
SamePathsTo(d) ==
  LET now == Paths(NodesOf(topo), topo.edges, Self, d)
  IN  /\ Paths(table.nodes, table.rows, Self, d) = now
      /\ \A p \in now : PathCost(table.rows, p) = PathCost(topo.edges, p)

\* So then nothing but the topology of the moment decides what the routes are:
\* whatever the order of the writes and reads was, no chain of links is missed
\* and none is believed in that is not there (route_manager.go; spf.go).
THEOREM QuietRoutesAreCurrent ==
  ASSUME IsFiniteSet(Node) PROVE Spec => [](Quiet /\ ~silent => \A d \in Node : SamePathsTo(d))
<1>1. IInv /\ HasTable => (Quiet /\ ~silent => \A d \in Node : SamePathsTo(d))
  <2> SUFFICES ASSUME IInv, HasTable, Quiet, ~silent, NEW d \in Node PROVE SamePathsTo(d)
    OBVIOUS
  <2>1. SameRoutes(table, topo)
    BY QuietIsCurrent DEF QuietTableIsCurrent
  <2>2. Finished(table)
    BY ThreadFacts DEF HasTable, Quiet, Routing
  <2>3. table \in Views /\ topo \in Topologies
    BY DEF IInv, Types, TypeOK
  <2>4. QED
    BY <2>1, <2>2, <2>3, SameRoutesSamePaths DEF SamePathsTo
<1>2. QED
  BY <1>1, TableInvariant, PTL

=============================================================================
