---------------------------- MODULE RuntimeConfig ----------------------------
(***************************************************************************)
(* What a router reads before it starts (internal/route/config.go): the    *)
(* application's file, the topology file and the command line, or the      *)
(* arguments of the SDK.  A file is Unreadable when it is missing or does  *)
(* not parse.  Addresses, ports and log levels are left out.               *)
(***************************************************************************)
EXTENDS Topology, Sequences

CONSTANTS
  Unreadable,
  DefaultId     \* node-<port>

NoName == <<>>  \* the empty string

AppFile == [output : {"", "file", "stdout"}, interval : Int]
NodeConfig == [id : Node, join : BOOLEAN]
EdgeConfig == [from : Node, to : Node, cost : Cost]
TopologyFile == [nodes : Seq(NodeConfig), edges : Seq(EdgeConfig)]
Arguments == [node : Node \cup {NoName}, id : Node \cup {NoName}, join : BOOLEAN]

AppDefaults == [output |-> "file", interval |-> 30]

\* Values that are missing in the file get a default; a file that cannot be
\* read is only warned about.
LoadAppConfig(f) ==
  IF f = Unreadable THEN AppDefaults
  ELSE [output |-> IF f.output = "" THEN AppDefaults.output ELSE f.output,
        interval |-> IF f.interval = 0 THEN AppDefaults.interval ELSE f.interval]

\* The first entry that bears the name.
IsNode(f, name, i) == f.nodes[i].id = name /\ \A j \in 1..(i - 1) : f.nodes[j].id # name

HasNode(f, name) == \E i \in DOMAIN f.nodes : IsNode(f, name, i)

GetNodeConfig(f, name) == f.nodes[CHOOSE i \in DOMAIN f.nodes : IsNode(f, name, i)]

EdgesAt(f, places) == [i \in places |-> f.edges[i]]

\* Mutant of GetNodeEdges: the links that start here.
GetNodeEdgesFrom(f, id) == EdgesAt(f, {i \in DOMAIN f.edges : f.edges[i].from = id})

\* Links are undirected: those that end here count too. Each keeps its place
\* in the file, for the slice of the code has them in that order.
GetNodeEdges(f, id) ==
  EdgesAt(f, {i \in DOMAIN f.edges : id \in {f.edges[i].from, f.edges[i].to}})

\* A name in the topology file must be found there.
Loadable(f, args) == args.node = NoName \/ (f # Unreadable /\ HasNode(f, args.node))

NoEdges == <<>>

Merged(app, node, edges) ==
  [app |-> LoadAppConfig(app), id |-> node.id, join |-> node.join, edges |-> edges]

\* Mutant of LoadRuntimeConfig: no default for the id.
LoadRuntimeConfigAsGiven(app, f, args) ==
  IF args.node # NoName
  THEN Merged(app, GetNodeConfig(f, args.node), GetNodeEdges(f, args.node))
  ELSE Merged(app, args, NoEdges)

\* The topology file when a name is given, the arguments when none is.
LoadRuntimeConfig(app, f, args) ==
  IF args.node # NoName
  THEN Merged(app, GetNodeConfig(f, args.node), GetNodeEdges(f, args.node))
  ELSE Merged(app, [args EXCEPT !.id = IF @ = NoName THEN DefaultId ELSE @], NoEdges)

IsRuntimeConfig(c) ==
  /\ c.app \in AppFile /\ c.id \in Node /\ c.join \in BOOLEAN
  /\ DOMAIN c.edges \subseteq Nat
  /\ \A i \in DOMAIN c.edges : c.edges[i] \in EdgeConfig

=============================================================================
