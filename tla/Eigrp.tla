------------------------------- MODULE Eigrp -------------------------------
(***************************************************************************)
(* EigrpEngine (engine/protocols.py): adjacencies kept by hellos and hold  *)
(* timers, and updates sent only when a topology table changes.  A packet  *)
(* is delivered by calling the receiver, so one hello can unroll into many *)
(* nested calls before the event loop runs anything else.  The variable    *)
(* calls is that call stack: a frame is one of the code's loops over peers *)
(* and only the innermost frame runs.                                      *)
(*                                                                         *)
(* A metric counts links: every link, and a connected network, costs the   *)
(* same in the code.  Each interface leads to one peer, so an interface is *)
(* named by the peer.  Redistributed routes and distribute lists are left  *)
(* out, and every network belongs to one router.                           *)
(***************************************************************************)
EXTENDS Naturals, Sequences, FiniteSets

CONSTANTS Router, Network, OwnerOf, AS, K, NoOne, Wiring, InitialCable, Commands, MaxCommands

ASSUME EigrpAssumption ==
    /\ OwnerOf \in [Network -> Router]
    /\ NoOne \notin Router
    /\ Wiring \subseteq SUBSET Router /\ InitialCable \subseteq Wiring
    /\ MaxCommands \in Nat
    /\ AS # {} /\ K # {}
    /\ IsFiniteSet(Router)

\* The cable between d and p is the only one out of S, a part of the network
\* with d in it and without p.
Divides(S, d, p) ==
    /\ d \in S /\ p \notin S
    /\ \A q \in S, r \in Router \ S : {q, r} \in Wiring => q = d /\ r = p
\* No cable is part of a ring: each one is the only way between two parts.
NoRing == \A d, p \in Router : {d, p} \in Wiring => \E S \in SUBSET Router : Divides(S, d, p)

VARIABLES enabled,   \* enabled[d]: the process runs, and so does its hello loop
          asn,       \* its autonomous system
          kval,      \* its K values
          nets,      \* its network statements
          topo,      \* topo[d][n]: where network n was learned, and the distance
          nbr,       \* nbr[d]: its neighbours
          hold,      \* hold[d]: the neighbours whose hold timer is running
          passive,   \* passive[d]: the peers behind its passive interfaces
          shut,      \* shut[d]: the peers behind its interfaces that are shut
          cable,     \* the cables, each the set of its two ends
          starting,  \* starting[d]: starts still in their sleep
          resetting, \* the routers whose neighbour reset has been spawned
          calls,     \* the call stack
          commands   \* the operator's commands, for the bound

config == <<enabled, asn, kval, nets, passive, shut, cable>>
tasks == <<starting, resetting, commands>>
vars == <<config, tasks, topo, nbr, hold, calls>>

Unknown == [via |-> NoOne, fd |-> 0]
Route == [via : Router \cup {NoOne}, fd : Nat]
Frame == [op : {"hello", "update", "answer", "arm", "table"}, by : Router, to : SUBSET Router]

Init ==
    /\ enabled = [d \in Router |-> FALSE]
    /\ asn = [d \in Router |-> CHOOSE a \in AS : TRUE]
    /\ kval = [d \in Router |-> CHOOSE k \in K : TRUE]
    /\ nets = [d \in Router |-> {}]
    /\ topo = [d \in Router |-> [n \in Network |-> Unknown]]
    /\ nbr = [d \in Router |-> {}]
    /\ hold = [d \in Router |-> {}]
    /\ passive = [d \in Router |-> {}]
    /\ shut = [d \in Router |-> {}]
    /\ cable = InitialCable
    /\ starting = [d \in Router |-> 0]
    /\ resetting = {}
    /\ calls = <<>>
    /\ commands = 0

----------------------------------------------------------------------------
(* The call stack.                                                         *)

Idle == calls = <<>>
Top == Head(calls)
Runs(op, d, p) == ~Idle /\ Top.op = op /\ Top.by = d /\ p \in Top.to
Loop(op, d, peers) == IF peers = {} THEN <<>> ELSE <<[op |-> op, by |-> d, to |-> peers]>>
\* The stack once the innermost loop has dealt with p.
Rest(p) == Loop(Top.op, Top.by, Top.to \ {p}) \o Tail(calls)

(* The topology table.                                                     *)

\* Mutant: a table that keeps its routes.
FlushedNot(table, peers) == table
Flushed(table, peers) ==
    [n \in Network |-> IF table[n].via \in peers THEN Unknown ELSE table[n]]
Connected(d, table, own) ==
    [n \in Network |-> IF n \in own THEN [via |-> d, fd |-> 1] ELSE table[n]]

\* Mutant: no split horizon.
EntriesAll(d, p) == {n \in Network : topo[d][n].via # NoOne}
\* Split horizon: what d tells p.
Entries(d, p) == {n \in Network : topo[d][n].via \notin {NoOne, p}}
Heard(d, n) == [via |-> d, fd |-> topo[d][n].fd + 1]
Takes(p, d, n) ==
    LET old == topo[p][n]
    IN  \/ old.via = NoOne
        \/ old.via # p /\ Heard(d, n).fd < old.fd
        \/ old.via = d /\ Heard(d, n) # old
Learned(p, d) == {n \in Entries(d, p) : Takes(p, d, n)}

(* Whether p answers a hello of d, and which peers the loop of d says it to.*)

Matches(d, p) == enabled[d] /\ enabled[p] /\ asn[d] = asn[p] /\ kval[d] = kval[p]
Linked(d) == {p \in Router : {d, p} \in cable}
Reachable(d) == Linked(d) \ (shut[d] \cup passive[d])
Refreshes(d, p) == p \in Reachable(d) /\ Matches(d, p)

----------------------------------------------------------------------------
(* The innermost call takes one step.                                      *)

HelloIgnored(d, p) ==
    /\ Runs("hello", d, p)
    /\ ~Matches(d, p)
    /\ calls' = Rest(p)
    /\ UNCHANGED <<config, tasks, topo, nbr, hold>>

HelloKnown(d, p) ==
    /\ Runs("hello", d, p)
    /\ Matches(d, p)
    /\ d \in nbr[p]
    /\ hold' = [hold EXCEPT ![p] = @ \cup {d}]
    /\ calls' = Rest(p)
    /\ UNCHANGED <<config, tasks, topo, nbr>>

\* Mutant: the timer of a new neighbour waits for its second hello.
NeighborUpUnarmed(d, p) ==
    /\ Runs("hello", d, p)
    /\ Matches(d, p)
    /\ d \notin nbr[p]
    /\ nbr' = [nbr EXCEPT ![p] = @ \cup {d}]
    /\ calls' = Loop("update", p, {d}) \o Loop("answer", p, {d}) \o Rest(p)
    /\ UNCHANGED <<config, tasks, topo, hold>>
\* A new neighbour is told the whole table, then gets a hello in return, and
\* only then is its hold timer started.
NeighborUp(d, p) ==
    /\ Runs("hello", d, p)
    /\ Matches(d, p)
    /\ d \notin nbr[p]
    /\ nbr' = [nbr EXCEPT ![p] = @ \cup {d}]
    /\ calls' = Loop("update", p, {d}) \o Loop("answer", p, {d})
                \o Loop("arm", p, {d}) \o Rest(p)
    /\ UNCHANGED <<config, tasks, topo, hold>>

Answer(p, d) ==
    /\ Runs("answer", p, d)
    /\ calls' = Loop("hello", p, IF p \in nbr[d] THEN {} ELSE {d}) \o Rest(d)
    /\ UNCHANGED <<config, tasks, topo, nbr, hold>>

Arm(p, d) ==
    /\ Runs("arm", p, d)
    /\ hold' = [hold EXCEPT ![p] = @ \cup {d}]
    /\ calls' = Rest(d)
    /\ UNCHANGED <<config, tasks, topo, nbr>>

\* An update reaches p only from a neighbour of its AS, and a router whose
\* table changed tells all of its neighbours before the call returns.
Hears(p, d) ==
    /\ enabled[d] /\ enabled[p] /\ asn[d] = asn[p]
    /\ p \in nbr[d] /\ d \in nbr[p]
Update(d, p) ==
    /\ Runs("update", d, p)
    /\ LET news == IF Hears(p, d) THEN Learned(p, d) ELSE {}
       IN  /\ topo' = [topo EXCEPT ![p] =
                          [n \in Network |-> IF n \in news THEN Heard(d, n) ELSE @[n]]]
           /\ calls' = Loop("update", p, IF news = {} THEN {} ELSE nbr[p]) \o Rest(p)
    /\ UNCHANGED <<config, tasks, nbr, hold>>

\* The whole table to whoever is a neighbour once the hellos have returned.
Table(d) ==
    /\ Runs("table", d, d)
    /\ calls' = Loop("update", d, nbr[d]) \o Rest(d)
    /\ UNCHANGED <<config, tasks, topo, nbr, hold>>

Call(d, p) ==
    \/ HelloIgnored(d, p) \/ HelloKnown(d, p) \/ NeighborUp(d, p)
    \/ Answer(d, p) \/ Arm(d, p) \/ Update(d, p) \/ Table(d)

----------------------------------------------------------------------------
(* Timers and background tasks, which run when no call is in progress.     *)

HelloLoop(d) ==
    /\ Idle
    /\ enabled[d]
    /\ Reachable(d) # {}
    /\ calls' = Loop("hello", d, Reachable(d))
    /\ UNCHANGED <<config, tasks, topo, nbr, hold>>

\* The second half of start, after its sleep: a hello of its own, then the
\* table for the neighbours the router has by then.
Announce(d) ==
    /\ Idle
    /\ starting[d] > 0
    /\ starting' = [starting EXCEPT ![d] = @ - 1]
    /\ calls' = IF enabled[d]
                THEN Loop("hello", d, Reachable(d)) \o Loop("table", d, {d})
                ELSE <<>>
    /\ UNCHANGED <<config, resetting, commands, topo, nbr, hold>>

\* d loses the peers, and the routers in back lose d.
Down(d, peers, back) ==
    /\ nbr' = [r \in Router |->
                IF r = d THEN nbr[r] \ peers ELSE IF r \in back THEN nbr[r] \ {d} ELSE nbr[r]]
    /\ hold' = [r \in Router |->
                IF r = d THEN hold[r] \ peers ELSE IF r \in back THEN hold[r] \ {d} ELSE hold[r]]
    /\ topo' = [r \in Router |->
                IF r = d THEN Flushed(topo[r], peers)
                ELSE IF r \in back THEN Flushed(topo[r], {d}) ELSE topo[r]]

\* Three hello intervals: a timer runs out only where hellos have stopped,
\* and never before a task that is ready to run.
HoldTimer(d, p) ==
    /\ Idle
    /\ resetting = {}
    /\ p \in hold[d]
    /\ ~Refreshes(p, d)
    /\ Down(d, {p}, {})
    /\ UNCHANGED <<config, tasks, calls>>

ResetNeighbors(d) ==
    /\ Idle
    /\ d \in resetting
    /\ Down(d, nbr[d], {p \in nbr[d] : d \in nbr[p]})
    /\ resetting' = resetting \ {d}
    /\ UNCHANGED <<config, starting, commands, calls>>

----------------------------------------------------------------------------
(* The operator.                                                           *)

Commanded(kind) ==
    /\ Idle
    /\ kind \in Commands
    /\ commands < MaxCommands
    /\ commands' = commands + 1

Start(d, a, n) ==
    /\ Commanded("start")
    /\ OwnerOf[n] = d
    /\ enabled' = [enabled EXCEPT ![d] = TRUE]
    /\ asn' = [asn EXCEPT ![d] = a]
    /\ nets' = [nets EXCEPT ![d] = @ \cup {n}]
    /\ topo' = [topo EXCEPT ![d] = Connected(d, @, nets'[d])]
    /\ starting' = [starting EXCEPT ![d] = @ + 1]
    /\ UNCHANGED <<kval, passive, shut, cable, resetting, nbr, hold, calls>>

\* The network statements outlive the process.
Stop(d) ==
    /\ Commanded("stop")
    /\ enabled' = [enabled EXCEPT ![d] = FALSE]
    /\ topo' = [topo EXCEPT ![d] = [n \in Network |-> Unknown]]
    /\ nbr' = [nbr EXCEPT ![d] = {}]
    /\ hold' = [hold EXCEPT ![d] = {}]
    /\ UNCHANGED <<asn, kval, nets, passive, shut, cable, starting, resetting, calls>>

SetKValues(d, k) ==
    /\ Commanded("weights")
    /\ k # kval[d]
    /\ kval' = [kval EXCEPT ![d] = k]
    /\ resetting' = IF nbr[d] = {} THEN resetting ELSE resetting \cup {d}
    /\ UNCHANGED <<enabled, asn, nets, passive, shut, cable, starting, topo, nbr, hold, calls>>

\* passive-interface and its negation: neither touches the neighbours.
SetPassive(d, p) ==
    /\ Commanded("passive")
    /\ p \in Linked(d)
    /\ passive' = [passive EXCEPT ![d] = IF p \in @ THEN @ \ {p} ELSE @ \cup {p}]
    /\ UNCHANGED <<enabled, asn, kval, nets, shut, cable, starting, resetting, topo, nbr, hold, calls>>

Shutdown(d, p) ==
    /\ Commanded("shut")
    /\ p \in Linked(d) \ shut[d]
    /\ shut' = [shut EXCEPT ![d] = @ \cup {p}]
    /\ IF enabled[d] THEN Down(d, {p}, {p}) ELSE UNCHANGED <<topo, nbr, hold>>
    /\ UNCHANGED <<enabled, asn, kval, nets, passive, cable, starting, resetting, calls>>

\* Either end says hello to the other by name, whatever its interface is.
NoShutdown(d, p) ==
    /\ Commanded("shut")
    /\ p \in Linked(d) \cap shut[d]
    /\ shut' = [shut EXCEPT ![d] = @ \ {p}]
    /\ calls' = IF enabled[d] /\ enabled[p]
                THEN Loop("hello", d, {p}) \o Loop("hello", p, {d}) ELSE <<>>
    /\ UNCHANGED <<enabled, asn, kval, nets, passive, cable, starting, resetting, topo, nbr, hold>>

\* Neither plugging nor unplugging a cable tells the engine.
PlugIn(d, p) ==
    /\ Commanded("cable")
    /\ {d, p} \in Wiring \ cable
    /\ cable' = cable \cup {{d, p}}
    /\ UNCHANGED <<enabled, asn, kval, nets, passive, shut, starting, resetting, topo, nbr, hold, calls>>
PullOut(d, p) ==
    /\ Commanded("cable")
    /\ p \in Linked(d)
    /\ cable' = cable \ {{d, p}}
    /\ UNCHANGED <<enabled, asn, kval, nets, passive, shut, starting, resetting, topo, nbr, hold, calls>>

Command ==
    \E d \in Router :
        \/ \E a \in AS, n \in Network : Start(d, a, n)
        \/ Stop(d)
        \/ \E k \in K : SetKValues(d, k)
        \/ \E p \in Router : \/ SetPassive(d, p) \/ Shutdown(d, p) \/ NoShutdown(d, p)
                             \/ PlugIn(d, p) \/ PullOut(d, p)

Background ==
    \E d \in Router :
        \/ HelloLoop(d) \/ Announce(d) \/ ResetNeighbors(d)
        \/ \E p \in Router : HoldTimer(d, p) \/ Call(d, p)

Next == Command \/ Background

Spec == Init /\ [][Next]_vars

\* The event loop runs every call to its end and wakes every sleeper; a
\* hello loop and a timer that keep coming due are never passed over for good.
Fairness ==
    /\ WF_vars(\E d, p \in Router : Call(d, p))
    /\ \A d \in Router : SF_vars(HelloLoop(d))
    /\ SF_vars(\E d \in Router : Announce(d) \/ ResetNeighbors(d))
    /\ SF_vars(\E d, p \in Router : HoldTimer(d, p))
FairSpec == Spec /\ Fairness

----------------------------------------------------------------------------
(* Properties.                                                             *)

\* The state has the shape the engine gives it.
TypeOK ==
    /\ enabled \in [Router -> BOOLEAN]
    /\ asn \in [Router -> AS]
    /\ kval \in [Router -> K]
    /\ nets \in [Router -> SUBSET Network]
    /\ topo \in [Router -> [Network -> Route]]
    /\ nbr \in [Router -> SUBSET Router]
    /\ hold \in [Router -> SUBSET Router]
    /\ passive \in [Router -> SUBSET Router]
    /\ shut \in [Router -> SUBSET Router]
    /\ cable \subseteq SUBSET Router
    /\ starting \in [Router -> Nat]
    /\ resetting \subseteq Router
    /\ calls \in Seq(Frame)
    /\ commands \in 0 .. MaxCommands

\* A learned route dies with the adjacency it came over: however the calls
\* nest, every route names a neighbour of now, and a stopped process has
\* neither routes nor neighbours.
RoutesHaveNeighbors ==
    \A d \in Router :
        /\ \A n \in Network : topo[d][n].via \in nbr[d] \cup {d, NoOne}
        /\ ~enabled[d] => nbr[d] = {} /\ \A n \in Network : topo[d][n] = Unknown

\* Once the calls have returned, every adjacency has the hold timer that can
\* end it and no timer is left for an adjacency that is gone.
NeighborsExpire == Idle => hold = nbr

\* Without a ring of cables no route is longer than the way to the network:
\* split horizon lets no router count its own news back.
Around(ps) == {p \in Router : \E q \in ps : p = q \/ {p, q} \in Wiring}
Ball(d, i) ==
    LET ball[j \in 0 .. i] == IF j = 0 THEN {d} ELSE Around(ball[j - 1])
    IN  ball[i]
Distance(d, p) ==
    CHOOSE i \in 0 .. Cardinality(Router) : p \in Ball(d, i) /\ (i > 0 => p \notin Ball(d, i - 1))
MetricIsDistance ==
    \A d \in Router, n \in Network :
        topo[d][n].via # NoOne => topo[d][n].fd = 1 + Distance(d, OwnerOf[n])

\* The adjacencies end up being what the configuration says: a router keeps a
\* neighbour exactly where that neighbour's hellos arrive and match.
AdjacencySettles ==
    <>[](\A d, p \in Router : d \in nbr[p] <=> Refreshes(d, p))

\* Two routers that are each other's neighbours know each other's networks:
\* the hello sent in return is there so that routes flow both ways.
RoutesFlowBothWays ==
    Idle => \A d, p \in Router :
        d \in nbr[p] /\ p \in nbr[d] /\ starting[d] = 0 /\ asn[d] = asn[p] =>
            \A n \in nets[d] : topo[p][n].via # NoOne

\* No adjacency comes up behind an interface that is shut.
ShutStaysDown ==
    [][\A d \in Router : \A p \in shut[d] : p \notin nbr[d] => p \notin nbr'[d]]_vars

\* No route is longer than a walk over all the routers.
MetricsArePaths ==
    \A d \in Router, n \in Network : topo[d][n].fd <= Cardinality(Router)

=============================================================================
