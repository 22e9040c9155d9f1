------------------------------- MODULE ConnPool -------------------------------
(***************************************************************************)
(* The connections of one router to its next hops                          *)
(* (internal/route/forward_manager.go: connPool, getClient), used by       *)
(* several goroutines at once, each with a packet to forward.              *)
(*                                                                         *)
(* The pool has one connection per node id.  A connection is opened to     *)
(* the address in the node's entry, and the entry may be replaced at any   *)
(* time: a join event writes IP and port, AddLink writes the address its   *)
(* caller names.  A new connection is idle until the first call on it.     *)
(***************************************************************************)
EXTENDS Naturals, Sequences

CONSTANTS
  Goroutine,
  Peer,       \* the next hops
  Address,
  Refused,    \* addresses grpc.NewClient rejects
  Nobody,     \* nobody holds poolMtx
  MaxCalls,   \* bound: packets forwarded
  MaxChanges  \* bound: entries replaced, listeners moved, connections lost

ASSUME ConnPoolAssumption ==
  /\ Nobody \notin Goroutine
  /\ Peer # {}
  /\ Refused \subseteq Address
  /\ MaxCalls \in Nat /\ MaxChanges \in Nat

VARIABLES
  entry,      \* the address in each peer's node entry
  listening,  \* the addresses somebody answers at
  conns,      \* all connections ever opened
  pool,       \* connPool: an index into conns; 0 if there is none
  poolMtx,    \* who holds it for writing
  pc,
  peer, info, \* the next hop of each goroutine's packet, and the address it read
  conn,       \* the connection it holds
  calls, changes

work == <<peer, info, calls>>
world == <<entry, listening, changes>>
vars == <<work, world, conns, pool, poolMtx, pc, conn>>

Usable == Address \ Refused

States == {"idle", "connecting", "ready", "failure", "closed"}
Connection == [state : States, addr : Address]

State(c) == conns[c].state
IsReady(c) == c # 0 /\ State(c) = "ready"
Enter(c, s) == conns' = [conns EXCEPT ![c].state = s]
Goto(g, place) == pc' = [pc EXCEPT ![g] = place]

Init ==
  /\ entry \in [Peer -> Address]
  /\ listening \in SUBSET Usable
  /\ conns = <<>>
  /\ pool = [m \in Peer |-> 0]
  /\ poolMtx = Nobody
  /\ pc = [g \in Goroutine |-> "idle"]
  /\ peer = [g \in Goroutine |-> CHOOSE m \in Peer : TRUE]
  /\ info = [g \in Goroutine |-> entry[peer[g]]]
  /\ conn = [g \in Goroutine |-> 0]
  /\ calls = 0 /\ changes = 0

-----------------------------------------------------------------------------
(* forwardPacket and getClient. *)

\* forwardPacket has read the next hop's node entry.
Forward(g, m) ==
  /\ pc[g] = "idle"
  /\ calls < MaxCalls
  /\ calls' = calls + 1
  /\ peer' = [peer EXCEPT ![g] = m]
  /\ info' = [info EXCEPT ![g] = entry[m]]
  /\ Goto(g, "peek")
  /\ UNCHANGED <<world, conns, pool, poolMtx, conn>>

\* The pool is read under the read lock,
Peek(g) ==
  /\ pc[g] = "peek"
  /\ poolMtx = Nobody
  /\ conn' = [conn EXCEPT ![g] = pool[peer[g]]]
  /\ Goto(g, "check")
  /\ UNCHANGED <<work, world, conns, pool, poolMtx>>

\* Mutant of Check: any connection will do.
CheckExists(g) ==
  /\ pc[g] = "check"
  /\ Goto(g, IF conn[g] # 0 THEN "call" ELSE "lock")
  /\ UNCHANGED <<work, world, conns, pool, poolMtx, conn>>

\* and the connection's state is looked at after it was released.
Check(g) ==
  /\ pc[g] = "check"
  /\ Goto(g, IF IsReady(conn[g]) THEN "call" ELSE "lock")
  /\ UNCHANGED <<work, world, conns, pool, poolMtx, conn>>

\* Mutants of Lock: the lock is shared; the connection seen before is replaced
\* without looking again; the early return leaves the lock taken.
LockShared(g) ==
  LET c == pool[peer[g]]
  IN  /\ pc[g] = "lock"
      /\ conn' = [conn EXCEPT ![g] = c]
      /\ IF IsReady(c) THEN Goto(g, "call") /\ UNCHANGED poolMtx
         ELSE Goto(g, "replace") /\ poolMtx' = g
      /\ UNCHANGED <<work, world, conns, pool>>

LockOnce(g) ==
  /\ pc[g] = "lock"
  /\ poolMtx = Nobody
  /\ poolMtx' = g
  /\ Goto(g, "replace")
  /\ UNCHANGED <<work, world, conns, pool, conn>>

LockAndKeep(g) ==
  /\ pc[g] = "lock"
  /\ poolMtx = Nobody
  /\ conn' = [conn EXCEPT ![g] = pool[peer[g]]]
  /\ poolMtx' = g
  /\ Goto(g, IF IsReady(pool[peer[g]]) THEN "call" ELSE "replace")
  /\ UNCHANGED <<work, world, conns, pool>>

\* The double check under the write lock.
Lock(g) ==
  LET c == pool[peer[g]]
  IN  /\ pc[g] = "lock"
      /\ poolMtx = Nobody
      /\ conn' = [conn EXCEPT ![g] = c]
      /\ IF IsReady(c) THEN Goto(g, "call") /\ UNCHANGED poolMtx
         ELSE Goto(g, "replace") /\ poolMtx' = g
      /\ UNCHANGED <<work, world, conns, pool>>

Closed(c) == IF c = 0 THEN conns ELSE [conns EXCEPT ![c].state = "closed"]

\* The pooled connection is closed, whatever has become of it and whoever is
\* using it, and another one takes its place, unless NewClient fails.
Replace(g) ==
  /\ pc[g] = "replace"
  /\ IF info[g] \in Refused
     THEN /\ conns' = Closed(conn[g])
          /\ Goto(g, "idle")
          /\ UNCHANGED <<pool, conn>>
     ELSE /\ conns' = Append(Closed(conn[g]), [state |-> "idle", addr |-> info[g]])
          /\ pool' = [pool EXCEPT ![peer[g]] = Len(conns')]
          /\ conn' = [conn EXCEPT ![g] = Len(conns')]
          /\ Goto(g, "call")
  /\ poolMtx' = Nobody
  /\ UNCHANGED <<work, world>>

\* The call on the client: an idle connection begins to connect; one that is
\* closed or has failed is an error at once.
Call(g) ==
  /\ pc[g] = "call"
  /\ IF State(conn[g]) \in {"closed", "failure"} THEN Goto(g, "idle") ELSE Goto(g, "busy")
  /\ IF State(conn[g]) = "idle" THEN Enter(conn[g], "connecting") ELSE UNCHANGED conns
  /\ UNCHANGED <<work, world, pool, poolMtx, conn>>

\* The answer comes, or the connection does not carry the call any more.
Finish(g) ==
  /\ pc[g] = "busy"
  /\ State(conn[g]) # "connecting"
  /\ Goto(g, "idle")
  /\ UNCHANGED <<work, world, conns, pool, poolMtx, conn>>

-----------------------------------------------------------------------------
(* gRPC's own goroutines, and the rest of the system. *)

Connect(c) ==
  /\ State(c) = "connecting"
  /\ Enter(c, IF conns[c].addr \in listening THEN "ready" ELSE "failure")
  /\ UNCHANGED <<work, world, pool, poolMtx, pc, conn>>

Backoff(c) ==
  /\ State(c) = "failure"
  /\ changes < MaxChanges
  /\ changes' = changes + 1
  /\ Enter(c, "connecting")
  /\ UNCHANGED <<work, entry, listening, pool, poolMtx, pc, conn>>

Change == changes < MaxChanges /\ changes' = changes + 1

Disconnect(c) ==
  /\ Change
  /\ State(c) = "ready"
  /\ Enter(c, "idle")
  /\ UNCHANGED <<work, entry, listening, pool, poolMtx, pc, conn>>

\* HandleNodeJoin or AddLink.
AddNode(m, a) ==
  /\ Change
  /\ entry' = [entry EXCEPT ![m] = a]
  /\ UNCHANGED <<work, listening, conns, pool, poolMtx, pc, conn>>

\* A router starts to listen, or stops, which ends its connections.
Listen(as) ==
  /\ Change
  /\ listening' = as
  /\ conns' = [c \in DOMAIN conns |-> IF State(c) = "ready" /\ conns[c].addr \notin as
                                      THEN [conns[c] EXCEPT !.state = "idle"] ELSE conns[c]]
  /\ UNCHANGED <<work, entry, pool, poolMtx, pc, conn>>

-----------------------------------------------------------------------------

GetClient(g) == Check(g) \/ Replace(g)

Next ==
  \/ \E g \in Goroutine : \/ \E m \in Peer : Forward(g, m)
                          \/ Peek(g) \/ Lock(g) \/ GetClient(g) \/ Call(g) \/ Finish(g)
  \/ \E c \in DOMAIN conns : Connect(c) \/ Backoff(c) \/ Disconnect(c)
  \/ \E m \in Peer, a \in Address : AddNode(m, a)
  \/ \E as \in SUBSET Usable : Listen(as)

\* Goroutines run on, sync.RWMutex lets nobody starve, and an attempt to
\* connect succeeds or fails.
Fairness ==
  /\ \A g \in Goroutine : /\ SF_vars(Peek(g)) /\ SF_vars(Lock(g))
                          /\ WF_vars(GetClient(g)) /\ WF_vars(Call(g)) /\ WF_vars(Finish(g))
  /\ \A c \in 1..MaxCalls : WF_vars(c \in DOMAIN conns /\ Connect(c))

Spec == Init /\ [][Next]_vars /\ Fairness

-----------------------------------------------------------------------------

Places == {"idle", "peek", "check", "lock", "replace", "call", "busy"}

\* Every variable stays in its domain, the write lock is held by exactly the
\* goroutine that replaces a connection, and the connection it is about to
\* replace is the one in the pool.
TypeOK ==
  /\ entry \in [Peer -> Address]
  /\ listening \subseteq Address
  /\ conns \in Seq(Connection)
  /\ pool \in [Peer -> 0..Len(conns)]
  /\ poolMtx \in Goroutine \cup {Nobody}
  /\ pc \in [Goroutine -> Places]
  /\ peer \in [Goroutine -> Peer]
  /\ info \in [Goroutine -> Address]
  /\ conn \in [Goroutine -> 0..Len(conns)]
  /\ calls \in 0..MaxCalls /\ changes \in 0..MaxChanges
  /\ \A g \in Goroutine : pc[g] = "replace" <=> poolMtx = g
  /\ \A g \in Goroutine : pc[g] = "replace" => conn[g] = pool[peer[g]]
  /\ \A g \in Goroutine : pc[g] \in {"call", "busy"} => conn[g] # 0

\* However many goroutines find no usable connection at once, no connection
\* is left open outside the pool. (forward_manager.go: getClient looks again
\* under the write lock and closes what it replaces.)
NoConnectionLeaks ==
  \A c \in DOMAIN conns : State(c) # "closed" => \E m \in Peer : pool[m] = c

\* getClient returns a connection to the address the node entry had, or one
\* that was READY: an address that has been replaced is used only while
\* somebody still answers there. (forward_manager.go:186 and :195.)
StaleOnlyWhileReady ==
  [][\A g \in Goroutine : pc[g] # "call" /\ pc'[g] = "call" =>
       conns'[conn'[g]].addr = info[g] \/ IsReady(conn'[g])]_vars

\* Every packet is through in the end: nobody waits for poolMtx for ever, and
\* every call on a connection that has been replaced returns.
\* (forward_manager.go: getClient, forwardPacket.)
CallsReturn == \A g \in Goroutine : pc[g] # "idle" ~> pc[g] = "idle"

\* No connection is closed while another goroutine holds it for a call.
InUseStaysOpen ==
  [][\A c \in DOMAIN conns : State(c) # "closed" /\ conns'[c].state = "closed" =>
       \A g \in Goroutine : ~(pc[g] \in {"call", "busy"} /\ conn[g] = c)]_vars

=============================================================================
