-------------------------------- MODULE Stp --------------------------------
(***************************************************************************)
(* Class StpEngine (engine/protocols.py): bridges that elect a root by     *)
(* BPDUs, port roles, guards, and the reaction to shutdowns of app.py and  *)
(* to removed cables, whose handlers sleep in the middle.                  *)
(*                                                                         *)
(* A pair of bridges has at most one cable, so a port is named by the      *)
(* bridge at its other end. Every port costs 19 in the code, 1 here. A     *)
(* BPDU is received inside its sender without a sleep, so a broadcast is   *)
(* one step, and as a receiver changes only itself, its order is open.     *)
(***************************************************************************)
EXTENDS Integers, FiniteSets

CONSTANTS
    Device,     \* bridges
    Mac,        \* device -> the address that breaks ties
    Priority,   \* bridge priorities the operator sets, the VLAN added
    Default,    \* 32768 in the code
    Running,    \* the bridges that have been started, and have not sent a BPDU, at first
    Rstp,       \* the bridges that run rstp, the others stp
    Option,     \* port options the operator sets
    Task,       \* slots for handlers that are asleep
    Nobody,     \* no device
    NoTask,     \* an empty slot
    MaxConfig,  \* bound: CLI commands
    MaxFlaps,   \* bound: shutdowns, their ends, cables plugged and unplugged
    MaxTotal    \* bound: both together

ASSUME StpAssumption ==
    /\ Mac \in [Device -> Nat]
    /\ \A d, e \in Device : Mac[d] = Mac[e] => d = e
    /\ Priority \subseteq Nat /\ Default \in Priority
    /\ Rstp \subseteq Device /\ Running \subseteq Device /\ Nobody \notin Device
    /\ Option \subseteq {"portfast", "bpduguard", "rootguard"}

VARIABLES
    bridge,     \* device -> its entry of nodes
    cabled,     \* pairs with a cable
    shut,       \* device -> the ports its operator has shut
    demoting,   \* ports that lost PortFast, with the state of their transition
    task,       \* slot -> the link handler asleep in it
    configs, flaps  \* bounds

vars == <<bridge, cabled, shut, demoting, task, configs, flaps>>
bounds == <<configs, flaps>>

\* A bridge id: priority, then address. The smaller is the better one.
Bid(pr, d) == <<pr, Mac[d]>>
BridgeId == {Bid(pr, d) : pr \in Priority, d \in Device}
Better(a, b) == a[1] < b[1] \/ (a[1] = b[1] /\ a[2] < b[2])

Costs == 0 .. Cardinality(Device)
NoPort == [role |-> "none", state |-> "none", rx |-> {}]
NewPort(st) == [role |-> "designated", state |-> st, rx |-> {}]
Port == [role : {"root", "designated", "alternate", "disabled"},
         state : {"forwarding", "blocking", "discarding", "learning",
                  "err_disabled", "inconsistent"},
         rx : SUBSET [root : BridgeId, cost : Nat, bid : BridgeId]] \* the last BPDU, if any
Ports(n) == {q \in Device : n.port[q] # NoPort}

Up(d, e) == {d, e} \in cabled /\ e \notin shut[d] /\ d \notin shut[e]

Init ==
    /\ bridge = [d \in Device |->
                    [on |-> d \in Running, bid |-> Bid(Default, d), root |-> Bid(Default, d),
                     cost |-> 0,
                     port |-> [e \in Device |-> IF d \in Running /\ d # e
                                                 THEN NewPort("forwarding") ELSE NoPort],
                     opts |-> [e \in Device |-> {}]]]
    /\ cabled = {{d, e} : d, e \in Device} \ {{d} : d \in Device}
    /\ shut = [d \in Device |-> {}]
    /\ demoting = {}
    /\ task = [t \in Task |-> NoTask]
    /\ configs = 0 /\ flaps = 0

-----------------------------------------------------------------------------
(* _recompute_port_roles: the roles of bridge n from what its ports heard. *)

\* Offers of the root n believes in, and the port with the best of them.
Offers(n) == {q \in Ports(n) : \E m \in n.port[q].rx : m.root = n.root}
Cheaper(a, b) == a.cost < b.cost \/ (a.cost = b.cost /\ Better(a.bid, b.bid))
IsRootPort(n, q) ==
    /\ q \in Offers(n)
    /\ \A e \in Offers(n) \ {q} :
          \E m \in n.port[q].rx, k \in n.port[e].rx : Cheaper(m, k)

\* The bridge at the other end of port q is nearer to the root.
PeerNearer(n, q) ==
    \E m \in n.port[q].rx : m.cost < n.cost \/ (m.cost = n.cost /\ ~Better(n.bid, m.bid))

Assign(p, role) ==
    [p EXCEPT !.role = role,
              !.state = IF role = "alternate" THEN "blocking" ELSE "forwarding"]

\* Mutant of Roles: the other end's cost is not compared.
RolesOpen(n) ==
    [n EXCEPT !.port = [q \in Device |->
        IF n.port[q] = NoPort THEN NoPort
        ELSE Assign(n.port[q], IF n.root # n.bid /\ IsRootPort(n, q) THEN "root"
                               ELSE "designated")]]
Roles(n) ==
    [n EXCEPT !.port = [q \in Device |->
        IF n.port[q] = NoPort THEN NoPort
        ELSE Assign(n.port[q], IF n.root = n.bid THEN "designated"
                               ELSE IF IsRootPort(n, q) THEN "root"
                               ELSE IF PeerNearer(n, q) THEN "alternate"
                               ELSE "designated")]]

-----------------------------------------------------------------------------
(* receive_bpdu: what bridge n makes of message m that came in on port s.  *)

Guarded(n, s) == {"portfast", "bpduguard"} \subseteq n.opts[s]
Demotes(n, s) == n.on /\ n.port[s] # NoPort /\ "portfast" \in n.opts[s] /\ ~Guarded(n, s)

\* The port notes the BPDU; the bridge follows a better root or a shorter path.
Learn(n, s, m) ==
    LET adopts == Better(m.root, n.root) \/ (m.root = n.root /\ m.cost + 1 < n.cost)
    IN  [n EXCEPT !.port[s].rx = {[root |-> m.root, cost |-> m.cost, bid |-> m.bid]},
                  !.root = IF adopts THEN m.root ELSE @,
                  !.cost = IF adopts THEN m.cost + 1 ELSE @]

Receive(n, s, m) ==
    LET edge == [n EXCEPT !.opts[s] = @ \ {"portfast"}]
    IN  IF ~n.on \/ n.port[s] = NoPort THEN n
        ELSE IF Guarded(n, s)
        THEN [n EXCEPT !.port[s].state = "err_disabled", !.port[s].role = "disabled"]
        ELSE IF "rootguard" \in n.opts[s] /\ Better(m.root, n.bid)
        THEN [edge EXCEPT !.port[s].state = "inconsistent", !.port[s].role = "alternate"]
        ELSE Roles(Learn(edge, s, m))

Bpdu(n) == [root |-> n.root, cost |-> n.cost, bid |-> n.bid]

\* broadcast_to_neighbors of d's BPDU among bridges b: the bridges afterwards, and
\* the ports whose PortFast it ended.
Broadcast(b, d) ==
    [e \in Device |-> IF Up(d, e) THEN Receive(b[e], d, Bpdu(b[d])) ELSE b[e]]
Demoted(b, d) == {<<e, d, "start">> : e \in {x \in Device : Up(d, x) /\ Demotes(b[x], d)}}

-----------------------------------------------------------------------------
(* recompute_topology: shortest paths over the ports of all bridges.       *)

\* Graphs are functions from a bridge to its neighbours.
Adjacent(b) ==
    [d \in Device |-> {e \in Ports(b[d]) : b[d].on /\ b[e].on /\ d \in Ports(b[e])}]

\* The bridges that a symmetric graph E connects with d, the best bridge of each component,
\* and the distances from those.
Component(d, E) ==
    {e \in Device : \A S \in SUBSET Device :
        (d \in S /\ \A x \in S : E[x] \subseteq S) => e \in S}
Tops(b, E) ==
    {d \in Device : \A e \in Component(d, E) \ {d} : Better(b[d].bid, b[e].bid)}

\* The distance functions (there is one); here and below a value that is used often is
\* bound by a set with that one element.
Distances(b, E) ==
    UNION {{f \in [Device -> 0 .. Cardinality(Device) - 1] : \A d \in Device :
                IF d \in tops THEN f[d] = 0
                ELSE /\ \E e \in E[d] : f[d] = f[e] + 1
                     /\ \A e \in E[d] : f[d] <= f[e] + 1} :
           tops \in {Tops(b, E)}}

\* The new state of d, whose next hop towards the root is hop.
Placed(b, E, dist, d, hop) ==
    LET nearer(e) == dist[e] < dist[d] \/ (dist[e] = dist[d] /\ Better(b[e].bid, b[d].bid))
        role(e) == IF e = hop THEN "root" ELSE IF nearer(e) THEN "alternate" ELSE "designated"
        root == CHOOSE r \in Component(d, E) \cap Tops(b, E) : TRUE
    IN  [b[d] EXCEPT !.root = b[root].bid, !.cost = dist[d],
            !.port = [e \in Device |->
                IF e \in E[d] THEN Assign(@[e], role(e)) ELSE @[e]]]

\* Any of the neighbours nearest to the root becomes the next hop: the code takes the
\* first one of a dict.
NextHops(E, dist) ==
    LET nearest(d) == {e \in E[d] : dist[e] + 1 = dist[d]}
    IN  {h \in [Device -> Device \cup {Nobody}] : \A d \in Device :
            IF nearest(d) = {} THEN h[d] = Nobody ELSE h[d] \in nearest(d)}
Topologies(b) ==
    LET placed(E, dist, h) ==
            [d \in Device |-> IF b[d].on THEN Placed(b, E, dist, d, h[d]) ELSE b[d]]
        from(E) == UNION {{placed(E, dist, h) : h \in NextHops(E, dist)} :
                            dist \in Distances(b, E)}
    IN  UNION {from(E) : E \in {Adjacent(b)}}

-----------------------------------------------------------------------------
(* port_down and port_up at one end, up to their first sleep. An outcome:  *)
(* the bridges, the ports demoted, the port in transition or Nobody if the *)
(* handler is through, the ports its loop has passed, their number.        *)

Outcome(b, dm, at, seen, size) ==
    [bridge |-> b, demoted |-> dm, at |-> at, seen |-> seen, size |-> size]
Through(b, dm) == {Outcome(c, dm, Nobody, {}, 0) : c \in Topologies(b)}

\* The rest of the loop of port_down, which moves each Alternate port to Learning and sleeps.
Rest(b, dm, d, seen) ==
    LET left == Ports(b[d]) \ seen
        alternates == {q \in left : b[d].port[q].role = "alternate"}
    IN  IF alternates = {} THEN Through([b EXCEPT ![d] = Roles(b[d])], dm)
        ELSE {Outcome([b EXCEPT ![d].port[q].state = "learning"], dm, q,
                      seen \cup passed \cup {q}, Cardinality(Ports(b[d]))) :
                 q \in alternates, passed \in SUBSET (left \ alternates)}

PortDown(b, d, e) ==
    IF ~b[d].on \/ b[d].port[e] = NoPort THEN {Outcome(b, {}, Nobody, {}, 0)}
    ELSE LET gone == [b EXCEPT ![d].port[e] = NoPort]
             after(told) ==
                IF b[d].port[e].role = "root"
                THEN Rest([told EXCEPT ![d].root = b[d].bid, ![d].cost = 0],
                          Demoted(gone, d), d, {})
                ELSE Through([told EXCEPT ![d] = Roles(told[d])], Demoted(gone, d))
         IN  UNION {after(told) : told \in {Broadcast(gone, d)}}

PortUp(b, d, e) ==
    IF ~b[d].on THEN {Outcome(b, {}, Nobody, {}, 0)}
    ELSE IF b[d].port[e] # NoPort THEN Through(b, {})
    ELSE IF d \in Rstp
    THEN {Outcome([b EXCEPT ![d].port[e] = NewPort("learning")], {}, e, {}, 0)}
    ELSE Through([b EXCEPT ![d].port[e] = NewPort("blocking")], {})

End(kind, b, d, e) == IF kind = "down" THEN PortDown(b, d, e) ELSE PortUp(b, d, e)

\* A task whose port went away sleeps on over an object nobody sees.
Orphaned(x, b) == IF x # NoTask /\ x.at # Nobody /\ b[x.dev].port[x.at] = NoPort
                  THEN [x EXCEPT !.at = Nobody] ELSE x

\* Outcome o of handler x in slot t: it sleeps, is through, or goes on at the other end.
Settle(t, x, o) ==
    LET then(q, slot, dm) ==
            /\ bridge' = q.bridge
            /\ demoting' = {y \in demoting \cup dm : q.bridge[y[1]].port[y[2]] # NoPort}
            /\ task' = [s \in Task |-> Orphaned(IF s = t THEN slot ELSE task[s], q.bridge)]
        asleep(y, q) == IF q.at = Nobody THEN NoTask
                        ELSE [y EXCEPT !.pc = "asleep", !.at = q.at, !.seen = q.seen,
                                       !.size = q.size]
    IN  \/ (o.at # Nobody \/ ~x.both) /\ then(o, asleep(x, o), o.demoted)
        \/ /\ o.at = Nobody /\ x.both
           /\ \E q \in End(x.kind, o.bridge, x.peer, x.dev) :
                 then(q, asleep([x EXCEPT !.dev = x.peer, !.peer = x.dev, !.both = FALSE], q),
                      o.demoted \cup q.demoted)

Handler(kind, d, e, both) ==
    [kind |-> kind, dev |-> d, peer |-> e, both |-> both, pc |-> "begin",
     at |-> Nobody, seen |-> {}, size |-> 0]

-----------------------------------------------------------------------------
(* Commands of the operator.                                               *)

Configure ==
    /\ configs < MaxConfig /\ configs + flaps < MaxTotal /\ configs' = configs + 1
    /\ UNCHANGED <<cabled, shut, flaps>>

\* start: also "spanning-tree mode" and, on a running bridge, a new priority.
Start(d, pr) ==
    /\ Configure
    /\ bridge' = [bridge EXCEPT ![d].on = TRUE, ![d].bid = Bid(pr, d), ![d].root = Bid(pr, d),
                    ![d].cost = 0,
                    ![d].port = [e \in Device |->
                        IF {d, e} \in cabled /\ @[e] = NoPort THEN NewPort("forwarding")
                        ELSE @[e]]]
    /\ UNCHANGED <<demoting, task>>

\* "stp mode disable"
Disable(d) ==
    /\ Configure /\ bridge[d].on
    /\ bridge' = [bridge EXCEPT ![d].on = FALSE]
    /\ UNCHANGED <<demoting, task>>

\* set_vlan_priority
SetPriority(d, pr) ==
    /\ Configure
    /\ bridge' = [bridge EXCEPT ![d].bid = Bid(pr, d),
                                ![d].root = IF bridge[d].on THEN Bid(pr, d) ELSE @,
                                ![d].cost = IF bridge[d].on THEN 0 ELSE @]
    /\ UNCHANGED <<demoting, task>>

\* set_portfast, set_bpduguard and root guard: an option set, or unless it is portfast removed.
SetOption(d, e, o) ==
    /\ Configure /\ d # e
    /\ \/ /\ o = "portfast"
          /\ bridge' = [bridge EXCEPT ![d].opts[e] = @ \cup {o},
                            ![d].port[e] = IF @ = NoPort THEN NoPort ELSE Assign(@, "designated")]
       \/ o # "portfast" /\ bridge' = [bridge EXCEPT ![d].opts[e] = (@ \cup {o}) \ (@ \cap {o})]
    /\ UNCHANGED <<demoting, task>>

Flap ==
    /\ flaps < MaxFlaps /\ configs + flaps < MaxTotal /\ flaps' = flaps + 1
    /\ UNCHANGED <<bridge, demoting, configs>>
Spawn(t, h) == task[t] = NoTask /\ task' = [task EXCEPT ![t] = h]

\* The handlers of shutdown and no shutdown call VirtualNetwork and other engines,
\* some of which sleep, before they come to both ends' port_down or port_up.
Shutdown(d, e, t) ==
    /\ Flap /\ {d, e} \in cabled /\ e \notin shut[d]
    /\ shut' = [shut EXCEPT ![d] = @ \cup {e}]
    /\ Spawn(t, Handler("down", d, e, TRUE))
    /\ UNCHANGED cabled

NoShutdown(d, e, t) ==
    /\ Flap /\ {d, e} \in cabled /\ e \in shut[d]
    /\ shut' = [shut EXCEPT ![d] = @ \ {e}]
    /\ Spawn(t, Handler("up", d, e, TRUE))
    /\ UNCHANGED cabled

\* remove_link: each end's port_down is a task of its own.
Unplug(d, e, t, u) ==
    /\ Flap /\ {d, e} \in cabled /\ t # u /\ task[t] = NoTask /\ task[u] = NoTask
    /\ cabled' = cabled \ {{d, e}}
    /\ task' = [task EXCEPT ![t] = Handler("down", d, e, FALSE),
                            ![u] = Handler("down", e, d, FALSE)]
    /\ UNCHANGED shut

\* add_link tells this engine nothing.
Plug(d, e) ==
    /\ Flap /\ d # e /\ {d, e} \notin cabled
    /\ cabled' = cabled \cup {{d, e}}
    /\ UNCHANGED <<shut, task>>

-----------------------------------------------------------------------------
(* Tasks of the event loop.                                                *)

Begin(t) ==
    /\ task[t] # NoTask /\ task[t].pc = "begin"
    /\ \E o \in End(task[t].kind, bridge, task[t].dev, task[t].peer) : Settle(t, task[t], o)
    /\ UNCHANGED <<cabled, shut, bounds>>

\* The end of the sleep in _rstp_rapid_transition called by port_down or port_up.
Moved(x) == IF x.at = Nobody THEN bridge
            ELSE [bridge EXCEPT ![x.dev].port[x.at].state = "forwarding"]
Changed(x) == x.kind = "down" /\ Cardinality(Ports(bridge[x.dev])) # x.size

Wake(t) ==
    /\ task[t] # NoTask /\ task[t].pc = "asleep" /\ ~Changed(task[t])
    /\ \E o \in IF task[t].kind = "down"
                THEN Rest(Moved(task[t]), {}, task[t].dev, task[t].seen)
                ELSE Through(Moved(task[t]), {}) :
          Settle(t, task[t], o)
    /\ UNCHANGED <<cabled, shut, bounds>>

\* The loop over the ports finds that their number changed, and raises an error.
Fail(t) ==
    /\ task[t] # NoTask /\ task[t].pc = "asleep" /\ Changed(task[t])
    /\ bridge' = Moved(task[t])
    /\ task' = [task EXCEPT ![t] = NoTask]
    /\ UNCHANGED <<demoting, cabled, shut, bounds>>

\* _rstp_rapid_transition as a task of its own.
Demote(x) ==
    /\ x \in demoting
    /\ bridge' = [bridge EXCEPT ![x[1]].port[x[2]].state =
                    IF x[3] = "start" THEN "learning" ELSE "forwarding"]
    /\ demoting' = (demoting \ {x}) \cup
                   (IF x[3] = "start" THEN {<<x[1], x[2], "learning">>} ELSE {})
    /\ UNCHANGED <<cabled, shut, task, bounds>>

\* One turn of _bpdu_loop.
SendBpdu(d) ==
    /\ bridge[d].on
    /\ bridge' = Broadcast(bridge, d)
    /\ demoting' = demoting \cup Demoted(bridge, d)
    /\ UNCHANGED <<cabled, shut, task, bounds>>

Command ==
    \E d \in Device :
        \/ \E pr \in Priority : Start(d, pr) \/ SetPriority(d, pr)
        \/ Disable(d)
        \/ \E e \in Device, o \in Option : SetOption(d, e, o)
Cabling ==
    \E d, e \in Device, t \in Task :
        \/ Shutdown(d, e, t) \/ NoShutdown(d, e, t)
        \/ \E u \in Task : Unplug(d, e, t, u)
        \/ Plug(d, e)
Background ==
    \/ \E t \in Task : Begin(t) \/ Wake(t) \/ Fail(t)
    \/ \E x \in demoting : Demote(x)
    \/ \E d \in Device : SendBpdu(d)

Next == Command \/ Cabling \/ Background
Spec == Init /\ [][Next]_vars

\* A handler sleeps finitely often, so it comes to its end, and so does a transition. A BPDU
\* that would change something is sent; sent twice it changes nothing more, so this is weak
\* fairness of SendBpdu(d).
Speaks(d) == bridge[d].on /\ (Broadcast(bridge, d) # bridge \/ Demoted(bridge, d) # {})
FairSpec ==
    /\ Spec
    /\ \A t \in Task : []<>(task[t] = NoTask)
    /\ \A x \in Device \X Device \X {"start", "learning"} : []<>(x \notin demoting)
    /\ \A d \in Device : []<>~Speaks(d)

-----------------------------------------------------------------------------
(* Properties.                                                             *)

TypeOK ==
    /\ \A d \in Device :
        /\ bridge[d].on \in BOOLEAN /\ bridge[d].bid \in BridgeId /\ bridge[d].root \in BridgeId
        /\ bridge[d].cost \in Nat
        /\ bridge[d].port \in [Device -> Port \cup {NoPort}] /\ bridge[d].port[d] = NoPort
        /\ bridge[d].opts \in [Device -> SUBSET Option]
    /\ cabled \subseteq {{d, e} : d, e \in Device}
    /\ shut \in [Device -> SUBSET Device]
    /\ demoting \subseteq Device \X Device \X {"start", "learning"}
    /\ configs \in 0 .. MaxConfig /\ flaps \in 0 .. MaxFlaps

\* A running bridge has cost 0 exactly when it takes itself for the root, and never
\* follows a root that is worse than itself.
OwnRootCostsNothing ==
    \A d \in Device : bridge[d].on =>
        /\ (bridge[d].cost = 0) <=> (bridge[d].root = bridge[d].bid)
        /\ ~Better(bridge[d].bid, bridge[d].root)

\* A port that BPDU guard has disabled comes back by a command only (the log of
\* protocols.py:3555, "putting in err-disable state").
GuardHolds == [][\A d, e \in Device :
    (bridge[d].port[e].state = "err_disabled" /\ configs' = configs)
        => bridge'[d].port[e].state \in {"err_disabled", "none"}]_vars

\* The live cables between running bridges; the bridges they connect with d.
Linked == [d \in Device |-> {e \in Device : bridge[d].on /\ bridge[e].on /\ Up(d, e)}]
Island(d) == Component(d, Linked)

\* The ports are those of the live cables, ...
PortsMatch == Adjacent(bridge) = Linked
\* ... every root that is believed in exists, and no guard holds a port back.
RootsLive == \A d \in Device : bridge[d].on =>
                \E r \in Island(d) : bridge[r].bid = bridge[d].root
Unguarded == \A d, e \in Device : bridge[d].opts[e] \subseteq {"portfast"}

Forwarding == [d \in Device |-> {e \in Linked[d] : bridge[d].port[e].state = "forwarding"
                                               /\ bridge[e].port[d].state = "forwarding"}]
\* Every island agrees on its best bridge, at the true distance, and the links that forward
\* are a tree that spans it.
SpanningTree ==
    LET tops == Tops(bridge, Linked)
        running == {d \in Device : bridge[d].on}
        arcs == UNION {{<<d, e>> : e \in Forwarding[d]} : d \in Device}
    IN  /\ \E dist \in Distances(bridge, Linked) : \A d \in running : bridge[d].cost = dist[d]
        /\ \A d \in running : \A r \in tops \cap Island(d) : bridge[d].root = bridge[r].bid
        /\ \A d \in running : Component(d, Forwarding) = Island(d)
        /\ Cardinality(arcs) = 2 * Cardinality(running \ tops)

\* A root that is gone is forgotten: recompute_topology stands for the expiry after max age
\* (protocols.py:3829).
GhostsFade == <>[]PortsMatch => <>[]RootsLive
\* The ports are in the end those of the live cables (protocols.py:3829).
PortsFollowCables == <>[]PortsMatch

\* Once the operator rests, bridges whose ports match the live cables, and that believe in
\* no root that is gone, come to a spanning tree and keep it.
Converges == <>[](PortsMatch /\ RootsLive /\ Unguarded) => <>[]SpanningTree
=============================================================================
