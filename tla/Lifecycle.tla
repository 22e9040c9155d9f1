------------------------------ MODULE Lifecycle ------------------------------
(***************************************************************************)
(* One router from its configuration to its end (internal/route/config.go, *)
(* bootstrap.go, Node.Start), in a process of its own (cmd/spf_route) or   *)
(* inside an application that uses the SDK (spfnet/node.go).  The          *)
(* application makes one call at a time, so a Start is over when Stop is   *)
(* called.  What handlers do to the database step by step is the subject   *)
(* of RouteNode and TopologySync: here each event is one step, and the     *)
(* merge of a broadcast, like the AddLink of a request, is a series of     *)
(* joins and link updates.                                                 *)
(***************************************************************************)
EXTENDS RuntimeConfig, EdgeIds, Functions

CONSTANTS
  AppFiles, TopologyFiles, \* the files a router may be started with
  Members,                 \* the routers serf may report
  Learnt,                  \* the links other routers tell of
  Second, MaxDuration,     \* of time.Duration: 10^9 and 2^63 - 1
  MaxRequests              \* bound: requests in progress at once

ASSUME LifecycleAssumption ==
  /\ Node \subseteq Strings \ {NoName}
  /\ DefaultId \in Node
  /\ AppFiles \subseteq AppFile \cup {Unreadable} /\ Unreadable \notin AppFile
  /\ TopologyFiles \subseteq TopologyFile \cup {Unreadable} /\ Unreadable \notin TopologyFile
  /\ Members \subseteq Node
  /\ Learnt \subseteq EdgeConfig
  /\ Second \in Nat \ {0} /\ MaxDuration \in Nat /\ 30 * Second <= MaxDuration
  /\ MaxRequests \in Nat

VARIABLES
  host,       \* "tool" or "sdk"
  step,       \* how far the calls have come
  file,       \* the topology file
  rc,         \* the runtime configuration
  logFile,    \* a log file is open
  interval,   \* TopologySync.syncInterval, a time.Duration
  serf,       \* a serf instance exists and holds its port
  topo,       \* the link-state database
  linked,     \* the places of the configured links that Start has put there
  withdrawn,  \* history: the ends of links that an event has taken away
  loops,      \* how often TopologySync.Start has started its two loops
  printer,    \* the loop that prints the topology runs
  serving,    \* the gRPC server takes requests
  requests,   \* those it is working on
  untimed,    \* those of them that have no deadline
  announced   \* the links of the last full broadcast

running == <<serf, loops, printer, serving>>
setting == <<host, file, rc, logFile, interval>>
load == <<requests, untimed>>
vars == <<setting, step, running, topo, linked, withdrawn, load, announced>>

\* An integer as a time.Duration keeps it: the width is fixed.
Wrap(n) == ((n + MaxDuration + 1) % (2 * (MaxDuration + 1))) - (MaxDuration + 1)

\* time.Duration(n) * time.Second
Seconds(n) == Wrap(n * Second)

DefaultInterval == 30 * Second

Init ==
  /\ host \in {"tool", "sdk"}
  /\ step = "new"
  /\ file \in TopologyFiles
  /\ rc = Unreadable
  /\ logFile = FALSE
  /\ interval = DefaultInterval
  /\ serf = FALSE /\ loops = 0 /\ printer = FALSE /\ serving = FALSE
  /\ topo = NewTopology /\ linked = {} /\ withdrawn = {}
  /\ requests = 0 /\ untimed = 0
  /\ announced = {}

\* The end of a process is the end of all it runs.
Exit ==
  /\ step' = "exited"
  /\ serf' = FALSE /\ loops' = 0 /\ printer' = FALSE /\ serving' = FALSE
  /\ requests' = 0 /\ untimed' = 0
  /\ logFile' = FALSE

\* A call that fails: log.Fatalf in the tool, an error returned in the SDK.
\* Nothing that was started before is taken back.
Fail(back) ==
  IF host = "tool" THEN Exit
  ELSE step' = back /\ UNCHANGED <<running, load, logFile>>

-----------------------------------------------------------------------------
(* Configuration. *)

\* The SDK names no node, so it always has the arguments.
LoadConfig(app, args) ==
  /\ step = "new"
  /\ host = "sdk" => args.node = NoName
  /\ IF Loadable(file, args)
     THEN /\ rc' = LoadRuntimeConfig(app, file, args)
          /\ step' = "configured"
          /\ UNCHANGED <<running, load, logFile>>
     ELSE rc' = rc /\ Fail("new")
  /\ UNCHANGED <<host, file, interval, topo, linked, withdrawn, announced>>

\* RouteNode.Init ends here if SetupLogger cannot open its file.
LoggerFails ==
  /\ step = "configured"
  /\ rc.app.output # "stdout"
  /\ Fail("new")
  /\ UNCHANGED <<host, file, rc, interval, topo, linked, withdrawn, announced>>

\* Mutant of InitNode: whatever the file says is the interval.
InitNodeUnchecked ==
  /\ step = "configured"
  /\ step' = "initialised"
  /\ logFile' = (rc.app.output # "stdout")
  /\ topo' = NewTopology
  /\ interval' = Seconds(rc.app.interval)
  /\ UNCHANGED <<host, file, rc, running, linked, withdrawn, load, announced>>

\* The components are made; an interval that is not positive is passed over.
InitNode ==
  /\ step = "configured"
  /\ step' = "initialised"
  /\ logFile' = (rc.app.output # "stdout")
  /\ topo' = NewTopology
  /\ interval' = IF rc.app.interval > 0 THEN Seconds(rc.app.interval) ELSE DefaultInterval
  /\ UNCHANGED <<host, file, rc, running, linked, withdrawn, load, announced>>

-----------------------------------------------------------------------------
(* RouteNode.Start. Nothing keeps an application from calling it again. *)

Startable == step = "initialised" \/ (host = "sdk" /\ step \in {"failed", "stopped"})

\* serf listens at its port before it joins anybody, so it cannot be created
\* while another instance has the port: then Start fails and changes nothing.
CreateSerf ==
  /\ Startable
  /\ ~serf
  /\ serf' = TRUE
  /\ step' = "member"
  /\ UNCHANGED <<setting, loops, printer, serving, topo, linked, withdrawn, load, announced>>

\* The port may be somebody else's.
CreateFails ==
  /\ Startable
  /\ ~serf
  /\ Fail("failed")
  /\ UNCHANGED <<host, file, rc, interval, topo, linked, withdrawn, announced>>

\* Nobody answers at the address to join: the instance stays.
JoinFails ==
  /\ step = "member"
  /\ rc.join
  /\ Fail("failed")
  /\ UNCHANGED <<host, file, rc, interval, topo, linked, withdrawn, announced>>

\* The cluster is joined, if there is one, and the router enters itself.
EnterSelf ==
  /\ step = "member"
  /\ topo' = AddNode(topo, rc.id)
  /\ linked' = {}
  /\ step' = "entered"
  /\ UNCHANGED <<setting, running, withdrawn, load, announced>>

\* The configured links go into the database one by one,
ConfigureEdge(i) ==
  /\ step = "entered"
  /\ i \notin linked /\ \A j \in DOMAIN rc.edges : j < i => j \in linked
  /\ topo' = UpdateLink(topo, rc.edges[i].from, rc.edges[i].to, rc.edges[i].cost)
  /\ linked' = linked \cup {i}
  /\ UNCHANGED <<setting, step, running, withdrawn, load, announced>>

\* and then the two loops are started.
StartSync ==
  /\ step = "entered"
  /\ linked = DOMAIN rc.edges
  /\ loops' = loops + 1
  /\ step' = "syncing"
  /\ UNCHANGED <<setting, serf, printer, serving, topo, linked, withdrawn, load, announced>>

\* Mutant of ListenFails: serf is shut down, for a later attempt to succeed.
ListenFailsCleanly ==
  /\ step = "syncing"
  /\ step' = "failed" /\ serf' = FALSE
  /\ UNCHANGED <<setting, loops, printer, serving, topo, linked, withdrawn, load, announced>>

\* The gRPC port is taken: the loops and serf go on.
ListenFails ==
  /\ step = "syncing"
  /\ Fail("failed")
  /\ UNCHANGED <<host, file, rc, interval, topo, linked, withdrawn, announced>>

\* Mutant of Listen: the server is the first thing to start.
ListenFirst ==
  /\ step = "member" /\ ~serving
  /\ serving' = TRUE
  /\ UNCHANGED <<setting, step, serf, loops, printer, topo, linked, withdrawn, load, announced>>

\* Requests are taken from here on, while Start sleeps for a second.
Listen ==
  /\ step = "syncing"
  /\ serving' = TRUE
  /\ step' = "listening"
  /\ UNCHANGED <<setting, serf, loops, printer, topo, linked, withdrawn, load, announced>>

Up ==
  /\ step = "listening"
  /\ printer' = TRUE
  /\ step' = "up"
  /\ UNCHANGED <<setting, serf, loops, serving, topo, linked, withdrawn, load, announced>>

-----------------------------------------------------------------------------
(* While it runs. *)

\* Another request is in progress, with or without a deadline.
Take == requests' = requests + 1 /\ untimed' \in {untimed, untimed + 1}

\* Mutant of Arrive: requests are taken to the very end.
ArriveAlways ==
  /\ step \in {"listening", "up", "stopping"}
  /\ requests < MaxRequests
  /\ Take
  /\ UNCHANGED <<setting, step, running, topo, linked, withdrawn, announced>>

Arrive ==
  /\ serving
  /\ requests < MaxRequests
  /\ Take
  /\ UNCHANGED <<setting, step, running, topo, linked, withdrawn, announced>>

Answer ==
  /\ requests > untimed
  /\ requests' = requests - 1
  /\ UNCHANGED <<setting, step, running, topo, linked, withdrawn, untimed, announced>>

\* Without a deadline a handler waits until the next router answers, which it
\* never does when the packet is in a circle beyond it.
AnswerUntimed ==
  /\ untimed > 0
  /\ requests' = requests - 1 /\ untimed' = untimed - 1
  /\ UNCHANGED <<setting, step, running, topo, linked, withdrawn, announced>>

\* The event loop runs from StartSync to the end of the process.
Event ==
  /\ loops > 0
  /\ UNCHANGED <<setting, step, running, linked, load, announced>>

HandleNodeJoin(m) ==
  /\ Event
  /\ topo' = AddNode(topo, m)
  /\ UNCHANGED withdrawn

\* Serf reports no router to itself as gone.
HandleNodeLeave(m) ==
  /\ Event
  /\ m # rc.id
  /\ topo' = RemoveNode(topo, m)
  /\ withdrawn' = withdrawn \cup {{m, a} : a \in Node}

HandleLinkUpdate(e) ==
  /\ Event
  /\ topo' = UpdateLink(topo, e.from, e.to, e.cost)
  /\ withdrawn' = withdrawn \ {{e.from, e.to}}

HandleLinkRemoval(e) ==
  /\ Event
  /\ topo' = RemoveLink(topo, e.from, e.to)
  /\ withdrawn' = withdrawn \cup {{e.from, e.to}}

Linked(t) == {ab \in Node \X Node : HasLink(t, ab[1], ab[2])}

Entries(t) == {[from |-> ab[1], to |-> ab[2], cost |-> GetCost(t, ab[1], ab[2])] : ab \in Linked(t)}

EdgeId(e) == makeEdgeID(e.from, e.to)

\* Of the entries with one edge id, the range loop keeps the one it meets first.
Broadcasts(t) ==
  {links \in SUBSET Entries(t) :
     \A e \in Entries(t) : \E l \in links : EdgeId(l) = EdgeId(e)
                                            /\ \A k \in links : EdgeId(k) = EdgeId(e) => k = l}

BroadcastFullTopology ==
  /\ loops > 0 /\ interval > 0
  /\ announced' \in Broadcasts(topo)
  /\ UNCHANGED <<setting, step, running, topo, linked, withdrawn, load>>

\* time.NewTicker panics at an interval that is not positive, and a panic in
\* any goroutine ends the process, the application's too.
TickerPanics ==
  /\ loops > 0 /\ interval <= 0
  /\ Exit
  /\ UNCHANGED <<host, file, rc, interval, topo, linked, withdrawn, announced>>

-----------------------------------------------------------------------------
(* The end. *)

\* GracefulStop closes the listener first; a router without a server has
\* nothing to wait for.
Stop ==
  /\ step = "up" \/ (host = "sdk" /\ step \in {"initialised", "failed", "stopped"})
  /\ serving' = FALSE
  /\ step' = "stopping"
  /\ UNCHANGED <<setting, serf, loops, printer, topo, linked, withdrawn, load, announced>>

\* The requests in progress are waited for, and nothing else is. The tool's
\* main returns then.
Stopped ==
  /\ step = "stopping"
  /\ requests = 0
  /\ IF host = "tool" THEN Exit
     ELSE step' = "stopped" /\ UNCHANGED <<running, load, logFile>>
  /\ UNCHANGED <<host, file, rc, interval, topo, linked, withdrawn, announced>>

\* The process is killed; the tool takes signals for itself only once it is up.
Kill ==
  /\ step # "exited"
  /\ Exit
  /\ UNCHANGED <<host, file, rc, interval, topo, linked, withdrawn, announced>>

-----------------------------------------------------------------------------

Failing == LoggerFails \/ CreateFails \/ JoinFails \/ ListenFails

Starting ==
  \/ InitNode \/ CreateSerf \/ EnterSelf \/ StartSync \/ Listen \/ Up
  \/ step = "entered" /\ \E i \in DOMAIN rc.edges : ConfigureEdge(i)

HandleEvent ==
  \/ \E m \in Members : HandleNodeJoin(m) \/ HandleNodeLeave(m)
  \/ \E e \in Learnt : HandleLinkUpdate(e) \/ HandleLinkRemoval(e)

Next ==
  \/ \E app \in AppFiles, args \in Arguments : LoadConfig(app, args)
  \/ Starting \/ Failing
  \/ Arrive \/ Answer \/ AnswerUntimed
  \/ HandleEvent \/ BroadcastFullTopology \/ TickerPanics
  \/ Stop \/ Stopped \/ Kill

\* A request that has a deadline is answered, for its handler hands the
\* deadline on to whatever it waits for; one that has none may not be. And
\* GracefulStop returns when no request is left.
Fairness == WF_vars(Answer) /\ WF_vars(Stopped)

Spec == Init /\ [][Next]_vars /\ Fairness

-----------------------------------------------------------------------------

Steps == {"new", "configured", "initialised", "member", "entered", "syncing",
          "listening", "up", "failed", "stopping", "stopped", "exited"}

\* Every variable stays in its domain: whatever way it is configured, a router
\* has an id that is not empty. (config.go: LoadRuntimeConfig.)
TypeOK ==
  /\ host \in {"tool", "sdk"}
  /\ step \in Steps
  /\ file \in TopologyFile \cup {Unreadable}
  /\ rc = Unreadable \/ IsRuntimeConfig(rc)
  /\ step \notin {"new", "exited"} => IsRuntimeConfig(rc)
  /\ logFile \in BOOLEAN /\ serf \in BOOLEAN /\ printer \in BOOLEAN /\ serving \in BOOLEAN
  /\ interval \in Int
  /\ topo \in Topologies
  /\ linked \subseteq Nat
  /\ withdrawn \subseteq SUBSET Node
  /\ loops \in Nat
  /\ requests \in 0..MaxRequests
  /\ untimed \in 0..requests

\* A request finds the router in its own node table, the loops running and
\* each configured link in the database, unless the last event about that link
\* took it away: whichever of the steps of Start and of the attempts before it
\* failed. (bootstrap.go: the order of Start; topology_sync.go:147, 186.)
ServesOnlyWhenReady ==
  requests > 0 =>
    /\ rc.id \in topo.nodes
    /\ loops > 0
    /\ \A e \in Range(rc.edges) : HasLink(topo, e.from, e.to) \/ {e.from, e.to} \in withdrawn

\* The periodic loop gets no interval that time.NewTicker panics at, as long as
\* the file's, in seconds, fits a time.Duration: neither a missing nor a
\* negative one reaches it. (config.go:105, bootstrap.go:53.)
TickerIsPositive ==
  loops > 0 /\ rc.app.interval * Second <= MaxDuration => interval > 0

\* Start has no guard against a second call, and an application may well try
\* again after an error: the events of a router still have one reader.
\* (bootstrap.go:73, node.go:130: the port serf keeps is what prevents it.)
OneEventLoop == loops <= 1

\* The cost a link has after all edges were set in their order.
LastCost(edges, a, b) ==
  LET places == {i \in DOMAIN edges : {edges[i].from, edges[i].to} = {a, b}}
  IN  IF places = {} THEN NoLink
      ELSE edges[CHOOSE i \in places : \A j \in places : j <= i].cost

\* Two routers that read the same topology file start with the same cost for
\* the link between them, even if the file names it twice.
\* (config.go: GetNodeEdges; bootstrap.go:91.)
EndsAgree ==
  [][loops' > loops =>
       \A e \in Range(rc.edges), m \in Node : {e.from, e.to} = {rc.id, m} /\ HasNode(file, m) =>
         GetCost(topo, rc.id, m) = LastCost(GetNodeEdges(file, m), m, rc.id)]_vars

Ends(t) == UNION {{ab[1], ab[2]} : ab \in Linked(t)}

\* A full broadcast names every link the router knows, as long as no id is
\* another one with a hyphen and more behind it.
\* (topology_sync.go:246: one entry for each edge id.)
BroadcastNamesEveryLink ==
  [][announced' # announced /\ Unmistakable(Ends(topo)) =>
       \A ab \in Linked(topo) : \E l \in announced' : {l.from, l.to} = {ab[1], ab[2]}]_vars

\* Stop returns, unless a request without a deadline is in progress when it is
\* called. (bootstrap.go:138: GracefulStop.)
StopReturns == step = "stopping" /\ untimed = 0 ~> step \in {"stopped", "exited"}

\* A router that Start has brought up entirely leaves nothing behind when an
\* application's Stop returns. (docs/SDK_QUICKSTART.md:175.)
StopReleases ==
  [][step = "stopping" /\ step' = "stopped" /\ printer =>
       ~serf' /\ loops' = 0 /\ ~printer' /\ ~logFile']_vars

=============================================================================
