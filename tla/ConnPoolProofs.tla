--------------------------- MODULE ConnPoolProofs ---------------------------
(***************************************************************************)
(* For any number of goroutines, next hops and packets: the pool loses no  *)
(* connection, and hands out an old address only while somebody answers    *)
(* there.  The induction rests on the write lock: the one goroutine at     *)
(* "replace" still has the pool's connection in hand.                      *)
(***************************************************************************)
EXTENDS ConnPool, SequenceTheorems, TLAPS

IInv == TypeOK /\ NoConnectionLeaks

-----------------------------------------------------------------------------
(* Sequences of connections. *)

LEMMA SeqFacts ==
  ASSUME NEW cs \in Seq(Connection)
  PROVE  /\ Len(cs) \in Nat /\ DOMAIN cs = 1..Len(cs)
         /\ \A c \in DOMAIN cs : cs[c] \in Connection
  OBVIOUS

\* What a change of the states leaves as it was.
LEMMA Restated ==
  ASSUME NEW cs \in Seq(Connection), NEW ds, DOMAIN ds = DOMAIN cs,
         ds = [c \in DOMAIN cs |-> ds[c]],
         \A c \in DOMAIN cs : ds[c] \in Connection
  PROVE  ds \in Seq(Connection) /\ Len(ds) = Len(cs)
<1>1. DOMAIN cs = 1..Len(cs) /\ Len(cs) \in Nat
  OBVIOUS
<1>2. ds \in [1..Len(cs) -> Connection]
  BY <1>1
<1>3. ds \in Seq(Connection)
  BY <1>1, <1>2, IsASeq
<1>4. Len(ds) = Len(cs)
  BY <1>1, <1>3
<1>5. QED
  BY <1>3, <1>4

LEMMA EnterType ==
  ASSUME TypeOK, NEW c \in DOMAIN conns, NEW s \in States, Enter(c, s)
  PROVE  /\ conns' \in Seq(Connection) /\ Len(conns') = Len(conns)
         /\ \A d \in DOMAIN conns : /\ conns'[d].addr = conns[d].addr
                                    /\ conns'[d].state = IF d = c THEN s ELSE conns[d].state
<1>1. \A d \in DOMAIN conns : conns[d] \in Connection
  BY SeqFacts DEF TypeOK
<1>2. /\ DOMAIN conns' = DOMAIN conns
      /\ conns' = [d \in DOMAIN conns |-> conns'[d]]
      /\ \A d \in DOMAIN conns : conns'[d] = IF d = c THEN [conns[d] EXCEPT !.state = s] ELSE conns[d]
  BY DEF Enter
<1>3. \A d \in DOMAIN conns : conns'[d] \in Connection
  BY <1>1, <1>2 DEF Connection
<1>4. \A d \in DOMAIN conns : /\ conns'[d].addr = conns[d].addr
                              /\ conns'[d].state = IF d = c THEN s ELSE conns[d].state
  BY <1>1, <1>2 DEF Connection
<1>5. QED
  BY <1>2, <1>3, <1>4, Restated DEF TypeOK

LEMMA ClosedType ==
  ASSUME TypeOK, NEW c \in 0..Len(conns)
  PROVE  /\ Closed(c) \in Seq(Connection) /\ Len(Closed(c)) = Len(conns)
         /\ \A d \in DOMAIN conns :
              Closed(c)[d].state = IF d = c THEN "closed" ELSE conns[d].state
<1>1. \A d \in DOMAIN conns : conns[d] \in Connection
  BY SeqFacts DEF TypeOK
<1>2. DOMAIN conns = 1..Len(conns) /\ Len(conns) \in Nat
  BY SeqFacts DEF TypeOK
<1>3. CASE c = 0
  BY <1>2, <1>3 DEF Closed, TypeOK
<1>4. CASE c # 0
  <2> DEFINE ds == [conns EXCEPT ![c].state = "closed"]
  <2>1. /\ DOMAIN ds = DOMAIN conns
        /\ ds = [d \in DOMAIN conns |-> ds[d]]
        /\ \A d \in DOMAIN conns :
             ds[d] = IF d = c THEN [conns[d] EXCEPT !.state = "closed"] ELSE conns[d]
    OBVIOUS
  <2>2. \A d \in DOMAIN conns : ds[d] \in Connection
    BY <1>1, <2>1 DEF Connection, States
  <2>3. \A d \in DOMAIN conns : ds[d].state = IF d = c THEN "closed" ELSE conns[d].state
    BY <1>1, <2>1 DEF Connection
  <2>4. Closed(c) = ds
    BY <1>4 DEF Closed
  <2> HIDE DEF ds
  <2>5. QED
    BY <2>1, <2>2, <2>3, <2>4, Restated DEF TypeOK
<1>5. QED
  BY <1>3, <1>4

-----------------------------------------------------------------------------
(* The invariant holds at first, and every step keeps it. *)

LEMMA InitIInv == Init => IInv
<1> SUFFICES ASSUME Init PROVE IInv
  OBVIOUS
<1>1. (CHOOSE m \in Peer : TRUE) \in Peer
  BY ConnPoolAssumption
<1>2. peer \in [Goroutine -> Peer] /\ info \in [Goroutine -> Address]
  BY <1>1 DEF Init
<1>3. conns \in Seq(Connection) /\ Len(conns) = 0 /\ DOMAIN conns = {}
  BY DEF Init
<1>4. pool \in [Peer -> 0..Len(conns)] /\ conn \in [Goroutine -> 0..Len(conns)]
  BY <1>3 DEF Init
<1>5. TypeOK
  BY <1>2, <1>3, <1>4, ConnPoolAssumption DEF Init, TypeOK, Places, Usable
<1>6. NoConnectionLeaks
  BY <1>3 DEF NoConnectionLeaks
<1>7. QED
  BY <1>5, <1>6 DEF IInv

LEMMA ForwardIInv ==
  ASSUME IInv, NEW g \in Goroutine, NEW m \in Peer, Forward(g, m)
  PROVE  IInv'
<1>1. TypeOK'
  BY ConnPoolAssumption DEF IInv, TypeOK, Forward, Goto, world, Places
<1>2. NoConnectionLeaks'
  BY DEF IInv, NoConnectionLeaks, State, Forward
<1>3. QED
  BY <1>1, <1>2 DEF IInv

LEMMA PeekIInv == ASSUME IInv, NEW g \in Goroutine, Peek(g) PROVE IInv'
<1>1. TypeOK'
  BY ConnPoolAssumption DEF IInv, TypeOK, Peek, Goto, world, work, Places
<1>2. NoConnectionLeaks'
  BY DEF IInv, NoConnectionLeaks, State, Peek
<1>3. QED
  BY <1>1, <1>2 DEF IInv

LEMMA CheckIInv == ASSUME IInv, NEW g \in Goroutine, Check(g) PROVE IInv'
<1>1. TypeOK'
  BY ConnPoolAssumption DEF IInv, TypeOK, Check, IsReady, Goto, world, work, Places
<1>2. NoConnectionLeaks'
  BY DEF IInv, NoConnectionLeaks, State, Check
<1>3. QED
  BY <1>1, <1>2 DEF IInv

LEMMA LockIInv == ASSUME IInv, NEW g \in Goroutine, Lock(g) PROVE IInv'
<1>1. TypeOK'
  <2>1. CASE IsReady(pool[peer[g]])
    <3>1. /\ pool[peer[g]] # 0 /\ pc[g] = "lock"
          /\ pc' = [pc EXCEPT ![g] = "call"] /\ conn' = [conn EXCEPT ![g] = pool[peer[g]]]
          /\ UNCHANGED <<entry, listening, conns, pool, poolMtx, peer, info, calls, changes>>
      BY <2>1 DEF Lock, IsReady, Goto, world, work
    <3>2. pool[peer[g]] \in 0..Len(conns)
      BY DEF IInv, TypeOK
    <3>3. (pc \in [Goroutine -> Places] /\ conn \in [Goroutine -> 0..Len(conns)])'
      BY <3>1, <3>2 DEF IInv, TypeOK, Places
    <3>4. (\A h \in Goroutine : /\ pc[h] = "replace" <=> poolMtx = h
                                /\ pc[h] = "replace" => conn[h] = pool[peer[h]]
                                /\ pc[h] \in {"call", "busy"} => conn[h] # 0)'
      BY <3>1 DEF IInv, TypeOK
    <3>5. QED
      BY <3>1, <3>3, <3>4 DEF IInv, TypeOK
  <2>2. CASE ~IsReady(pool[peer[g]])
    <3>1. /\ poolMtx = Nobody /\ poolMtx' = g /\ pc[g] = "lock"
          /\ pc' = [pc EXCEPT ![g] = "replace"] /\ conn' = [conn EXCEPT ![g] = pool[peer[g]]]
          /\ UNCHANGED <<entry, listening, conns, pool, peer, info, calls, changes>>
      BY <2>2 DEF Lock, Goto, world, work
    <3>2. pool[peer[g]] \in 0..Len(conns)
      BY DEF IInv, TypeOK
    <3>3. (pc \in [Goroutine -> Places] /\ conn \in [Goroutine -> 0..Len(conns)])'
      BY <3>1, <3>2 DEF IInv, TypeOK, Places
    <3>4. \A h \in Goroutine : pc[h] # "replace"
      BY <3>1, ConnPoolAssumption DEF IInv, TypeOK
    <3>5. (\A h \in Goroutine : /\ pc[h] = "replace" <=> poolMtx = h
                                /\ pc[h] = "replace" => conn[h] = pool[peer[h]]
                                /\ pc[h] \in {"call", "busy"} => conn[h] # 0)'
      BY <3>1, <3>4 DEF IInv, TypeOK
    <3>6. QED
      BY <3>1, <3>3, <3>5 DEF IInv, TypeOK
  <2>3. QED
    BY <2>1, <2>2
<1>2. NoConnectionLeaks'
  BY DEF IInv, NoConnectionLeaks, State, Lock
<1>3. QED
  BY <1>1, <1>2 DEF IInv

LEMMA AtReplace ==
  ASSUME IInv, NEW g \in Goroutine, Replace(g)
  PROVE  /\ poolMtx = g /\ conn[g] = pool[peer[g]] /\ conn[g] \in 0..Len(conns)
         /\ peer[g] \in Peer /\ info[g] \in Address
         /\ \A h \in Goroutine : pc[h] = "replace" => h = g
  BY DEF IInv, TypeOK, Replace

\* A connection that cannot be opened leaves a closed one in the pool.
LEMMA RefusedIInv ==
  ASSUME IInv, NEW g \in Goroutine, Replace(g), info[g] \in Refused
  PROVE  IInv'
<1>1. conns' = Closed(conn[g]) /\ UNCHANGED <<pool, conn>>
  BY DEF Replace
<1>2. /\ conns' \in Seq(Connection) /\ Len(conns') = Len(conns)
      /\ \A d \in DOMAIN conns :
           conns'[d].state = IF d = conn[g] THEN "closed" ELSE conns[d].state
  BY <1>1, AtReplace, ClosedType DEF IInv
<1>3. DOMAIN conns' = DOMAIN conns
  BY <1>2, SeqFacts DEF IInv, TypeOK
<1>4. TypeOK'
  <2>1. poolMtx' = Nobody /\ pc' = [pc EXCEPT ![g] = "idle"] /\ UNCHANGED <<work, world>>
    BY DEF Replace, Goto
  <2>2. (pc \in [Goroutine -> Places])'
    BY <2>1 DEF IInv, TypeOK, Places
  <2>3. (\A h \in Goroutine : /\ pc[h] # "replace" /\ poolMtx # h
                              /\ pc[h] \in {"call", "busy"} => conn[h] # 0)'
    BY <1>1, <2>1, AtReplace, ConnPoolAssumption DEF IInv, TypeOK
  <2>4. QED
    BY <1>1, <1>2, <2>1, <2>2, <2>3 DEF IInv, TypeOK, work, world
<1>5. NoConnectionLeaks'
  BY <1>1, <1>2, <1>3 DEF IInv, NoConnectionLeaks, State
<1>6. QED
  BY <1>4, <1>5 DEF IInv

\* Otherwise the new one takes the place of the one that is closed.
LEMMA ReplacedIInv ==
  ASSUME IInv, NEW g \in Goroutine, Replace(g), info[g] \notin Refused
  PROVE  IInv'
<1> DEFINE cs == Closed(conn[g])
           new == [state |-> "idle", addr |-> info[g]]
<1>1. /\ conns' = Append(cs, new)
      /\ pool' = [pool EXCEPT ![peer[g]] = Len(conns')]
      /\ conn' = [conn EXCEPT ![g] = Len(conns')]
      /\ pc' = [pc EXCEPT ![g] = "call"] /\ poolMtx' = Nobody
      /\ UNCHANGED <<work, world>>
  BY DEF Replace, Goto
<1>2. /\ cs \in Seq(Connection) /\ Len(cs) = Len(conns)
      /\ \A d \in DOMAIN conns : cs[d].state = IF d = conn[g] THEN "closed" ELSE conns[d].state
  BY AtReplace, ClosedType DEF IInv
<1>3. new \in Connection
  BY AtReplace DEF Connection, States
<1> HIDE DEF cs, new
<1>4. /\ conns' \in Seq(Connection) /\ Len(conns') = Len(conns) + 1
      /\ \A d \in 1..Len(conns) : conns'[d] = cs[d]
      /\ DOMAIN conns' = 1..(Len(conns) + 1)
  BY <1>1, <1>2, <1>3
<1>5. DOMAIN conns = 1..Len(conns) /\ Len(conns) \in Nat
  BY SeqFacts DEF IInv, TypeOK
<1>6. TypeOK'
  <2>1. (pool \in [Peer -> 0..Len(conns)] /\ conn \in [Goroutine -> 0..Len(conns)])'
    BY <1>1, <1>4, <1>5 DEF IInv, TypeOK
  <2>2. (\A h \in Goroutine : /\ pc[h] # "replace" /\ poolMtx # h
                              /\ pc[h] \in {"call", "busy"} => conn[h] # 0)'
    BY <1>1, <1>4, <1>5, AtReplace, ConnPoolAssumption DEF IInv, TypeOK
  <2>3. (pc \in [Goroutine -> Places])'
    BY <1>1 DEF IInv, TypeOK, Places
  <2>4. QED
    BY <1>1, <1>4, <2>1, <2>2, <2>3 DEF IInv, TypeOK, work, world
<1>7. NoConnectionLeaks'
  <2> SUFFICES ASSUME NEW c \in DOMAIN conns', conns'[c].state # "closed"
               PROVE  \E m \in Peer : pool'[m] = c
    BY DEF NoConnectionLeaks, State
  <2>1. CASE c = Len(conns) + 1
    BY <1>1, <1>4, <2>1, AtReplace DEF IInv, TypeOK
  <2>2. CASE c \in DOMAIN conns
    <3>1. c # conn[g] /\ conns[c].state # "closed"
      BY <1>2, <1>4, <1>5, <2>2
    <3>2. PICK m \in Peer : pool[m] = c
      BY <2>2, <3>1 DEF IInv, NoConnectionLeaks, State
    <3>3. m # peer[g]
      BY <3>1, <3>2, AtReplace
    <3>4. QED
      BY <1>1, <3>2, <3>3 DEF IInv, TypeOK
  <2>3. QED
    BY <1>4, <1>5, <2>1, <2>2
<1>8. QED
  BY <1>6, <1>7 DEF IInv

\* Steps after which the same connections are closed as before.
LEMMA StatesIInv ==
  ASSUME IInv, conns' \in Seq(Connection), Len(conns') = Len(conns),
         \A c \in DOMAIN conns : conns[c].state = "closed" <=> conns'[c].state = "closed",
         UNCHANGED <<work, pool, poolMtx, conn>>,
         pc' \in [Goroutine -> Places],
         \A g \in Goroutine : /\ pc'[g] = "replace" <=> pc[g] = "replace"
                              /\ pc'[g] \in {"call", "busy"} => pc[g] \in {"call", "busy"},
         entry' \in [Peer -> Address], listening' \subseteq Address, changes' \in 0..MaxChanges
  PROVE  IInv'
<1>1. DOMAIN conns' = DOMAIN conns
  BY SeqFacts DEF IInv, TypeOK
<1>2. TypeOK'
  BY DEF IInv, TypeOK, work
<1>3. NoConnectionLeaks'
  BY <1>1 DEF IInv, NoConnectionLeaks, State
<1>4. QED
  BY <1>2, <1>3 DEF IInv

LEMMA CallIInv == ASSUME IInv, NEW g \in Goroutine, Call(g) PROVE IInv'
<1>1. conn[g] \in DOMAIN conns /\ "connecting" \in States
  BY SeqFacts DEF IInv, TypeOK, Call, States
<1>2. /\ conns' \in Seq(Connection) /\ Len(conns') = Len(conns)
      /\ \A c \in DOMAIN conns : conns[c].state = "closed" <=> conns'[c].state = "closed"
  <2>1. CASE State(conn[g]) = "idle"
    BY <1>1, <2>1, EnterType DEF IInv, Call, State
  <2>2. CASE State(conn[g]) # "idle"
    BY <2>2 DEF IInv, TypeOK, Call
  <2>3. QED
    BY <2>1, <2>2
<1>3. /\ pc' \in [Goroutine -> Places]
      /\ \A h \in Goroutine : /\ pc'[h] = "replace" <=> pc[h] = "replace"
                              /\ pc'[h] \in {"call", "busy"} => pc[h] \in {"call", "busy"}
  BY DEF IInv, TypeOK, Call, Goto, Places
<1>4. QED
  BY <1>2, <1>3, StatesIInv DEF IInv, TypeOK, Call, world

LEMMA FinishIInv == ASSUME IInv, NEW g \in Goroutine, Finish(g) PROVE IInv'
<1>1. /\ pc' \in [Goroutine -> Places]
      /\ \A h \in Goroutine : /\ pc'[h] = "replace" <=> pc[h] = "replace"
                              /\ pc'[h] \in {"call", "busy"} => pc[h] \in {"call", "busy"}
  BY DEF IInv, TypeOK, Finish, Goto, Places
<1>2. QED
  BY <1>1, StatesIInv DEF IInv, TypeOK, Finish, world

LEMMA ConnectionIInv ==
  ASSUME IInv, NEW c \in DOMAIN conns, Connect(c) \/ Backoff(c) \/ Disconnect(c)
  PROVE  IInv'
<1>1. PICK s \in States \ {"closed"} : Enter(c, s)
  BY DEF Connect, Backoff, Disconnect, States
<1>2. conns[c].state # "closed"
  BY DEF Connect, Backoff, Disconnect, State
<1>3. /\ conns' \in Seq(Connection) /\ Len(conns') = Len(conns)
      /\ \A d \in DOMAIN conns : conns[d].state = "closed" <=> conns'[d].state = "closed"
  BY <1>1, <1>2, EnterType DEF IInv
<1>4. changes' \in 0..MaxChanges /\ UNCHANGED <<work, pool, poolMtx, pc, conn, entry, listening>>
  BY ConnPoolAssumption DEF IInv, TypeOK, Connect, Backoff, Disconnect, Change, world
<1>5. QED
  BY <1>3, <1>4, StatesIInv DEF IInv, TypeOK

LEMMA AddNodeIInv ==
  ASSUME IInv, NEW m \in Peer, NEW a \in Address, AddNode(m, a)
  PROVE  IInv'
<1>1. changes' \in 0..MaxChanges /\ entry' \in [Peer -> Address]
  BY ConnPoolAssumption DEF IInv, TypeOK, AddNode, Change
<1>2. QED
  BY <1>1, StatesIInv DEF IInv, TypeOK, AddNode

LEMMA ListenIInv ==
  ASSUME IInv, NEW as \in SUBSET Usable, Listen(as)
  PROVE  IInv'
<1>1. \A c \in DOMAIN conns : conns[c] \in Connection
  BY SeqFacts DEF IInv, TypeOK
<1>2. /\ DOMAIN conns' = DOMAIN conns
      /\ conns' = [c \in DOMAIN conns |-> conns'[c]]
      /\ \A c \in DOMAIN conns :
           \/ conns'[c] = conns[c]
           \/ conns[c].state = "ready" /\ conns'[c] = [conns[c] EXCEPT !.state = "idle"]
  BY DEF Listen, State
<1>3. \A c \in DOMAIN conns : /\ conns'[c] \in Connection
                              /\ conns[c].state = "closed" <=> conns'[c].state = "closed"
  BY <1>1, <1>2 DEF Connection, States
<1>4. conns' \in Seq(Connection) /\ Len(conns') = Len(conns)
  BY <1>2, <1>3, Restated DEF IInv, TypeOK
<1>5. changes' \in 0..MaxChanges /\ listening' \subseteq Address
  <2>1. changes' = changes + 1 /\ changes < MaxChanges /\ listening' = as
    BY DEF Listen, Change
  <2>2. changes \in Nat /\ MaxChanges \in Nat
    BY ConnPoolAssumption DEF IInv, TypeOK
  <2>3. changes' \in 0..MaxChanges
    BY <2>1, <2>2
  <2>4. listening' \subseteq Address
    BY <2>1 DEF Usable
  <2>5. QED
    BY <2>3, <2>4
<1>6. QED
  BY <1>3, <1>4, <1>5, StatesIInv DEF IInv, TypeOK, Listen

LEMMA StutterIInv == ASSUME IInv, UNCHANGED vars PROVE IInv'
  BY DEF IInv, TypeOK, NoConnectionLeaks, State, vars, work, world

LEMMA NextIInv == IInv /\ [Next]_vars => IInv'
<1> SUFFICES ASSUME IInv, [Next]_vars PROVE IInv'
  OBVIOUS
<1>1. ASSUME NEW g \in Goroutine, NEW m \in Peer, Forward(g, m) PROVE IInv'
  BY <1>1, ForwardIInv
<1>2. ASSUME NEW g \in Goroutine, Peek(g) \/ Lock(g) \/ GetClient(g) \/ Call(g) \/ Finish(g)
      PROVE  IInv'
  BY <1>2, PeekIInv, LockIInv, CheckIInv, RefusedIInv, ReplacedIInv, CallIInv, FinishIInv
  DEF GetClient
<1>3. ASSUME NEW c \in DOMAIN conns, Connect(c) \/ Backoff(c) \/ Disconnect(c) PROVE IInv'
  BY <1>3, ConnectionIInv
<1>4. ASSUME NEW m \in Peer, NEW a \in Address, AddNode(m, a) PROVE IInv'
  BY <1>4, AddNodeIInv
<1>5. ASSUME NEW as \in SUBSET Usable, Listen(as) PROVE IInv'
  BY <1>5, ListenIInv
<1>6. QED
  BY <1>1, <1>2, <1>3, <1>4, <1>5, StutterIInv DEF Next

THEOREM Invariant == Spec => []IInv
  BY InitIInv, NextIInv, PTL DEF Spec

\* The write lock is held by exactly the goroutine that replaces a connection,
\* and what it closes is what the pool has (forward_manager.go: getClient).
THEOREM TypeCorrect == Spec => []TypeOK
<1>1. IInv => TypeOK
  BY DEF IInv
<1>2. QED
  BY <1>1, Invariant, PTL

\* No connection is left open outside the pool (forward_manager.go: getClient
\* looks again under the write lock and closes what it replaces).
THEOREM PoolLosesNothing == Spec => []NoConnectionLeaks
<1>1. IInv => NoConnectionLeaks
  BY DEF IInv
<1>2. QED
  BY <1>1, Invariant, PTL

\* A connection to an address the node entry has no longer is handed out only
\* while it is READY (forward_manager.go: getClient).
THEOREM OldAddressesAnswer == Spec => StaleOnlyWhileReady
<1> DEFINE Sound == \A g \in Goroutine : pc[g] # "call" /\ pc'[g] = "call" =>
                      conns'[conn'[g]].addr = info[g] \/ IsReady(conn'[g])
<1>1. IInv /\ [Next]_vars => [Sound]_vars
  <2> SUFFICES ASSUME IInv, Next, NEW g \in Goroutine, pc[g] # "call", pc'[g] = "call"
               PROVE  conns'[conn'[g]].addr = info[g] \/ IsReady(conn'[g])
    OBVIOUS
  <2>1. \/ Check(g) \/ Lock(g) \/ Replace(g)
    <3>1. ASSUME NEW h \in Goroutine, h # g, Peek(h) \/ Lock(h) \/ GetClient(h) \/ Call(h) \/ Finish(h)
          PROVE  FALSE
      BY <3>1 DEF GetClient, Peek, Lock, Check, Replace, Call, Finish, Goto, IInv, TypeOK
    <3>2. ASSUME Peek(g) \/ Call(g) \/ Finish(g) \/ \E h \in Goroutine, m \in Peer : Forward(h, m)
          PROVE  FALSE
      BY <3>2 DEF Peek, Call, Finish, Forward, Goto, IInv, TypeOK
    <3>3. ASSUME \/ \E c \in DOMAIN conns : Connect(c) \/ Backoff(c) \/ Disconnect(c)
                 \/ \E m \in Peer, a \in Address : AddNode(m, a)
                 \/ \E as \in SUBSET Usable : Listen(as)
          PROVE  FALSE
      BY <3>3 DEF Connect, Backoff, Disconnect, AddNode, Listen
    <3>4. QED
      BY <3>1, <3>2, <3>3 DEF Next, GetClient
  <2>2. CASE Check(g)
    BY <2>2 DEF Check, Goto, IInv, TypeOK
  <2>3. CASE Lock(g)
    BY <2>3 DEF Lock, Goto, IInv, TypeOK
  <2>4. CASE Replace(g)
    <3>1. info[g] \notin Refused
      BY <2>4 DEF Replace, Goto, IInv, TypeOK
    <3>2. conns' = Append(Closed(conn[g]), [state |-> "idle", addr |-> info[g]])
          /\ conn'[g] = Len(conns')
      BY <2>4, <3>1 DEF Replace, IInv, TypeOK
    <3>3. Closed(conn[g]) \in Seq(Connection)
      BY <2>4, AtReplace, ClosedType DEF IInv
    <3>4. conns'[Len(conns')] = [state |-> "idle", addr |-> info[g]]
      BY <3>2, <3>3
    <3>5. QED
      BY <3>2, <3>4
  <2>5. QED
    BY <2>1, <2>2, <2>3, <2>4
<1>2. QED
  BY <1>1, Invariant, PTL DEF Spec, StaleOnlyWhileReady

=============================================================================
