----------------------------- MODULE BgpRoutes ------------------------------
(***************************************************************************)
(* The routes of class BgpEngine (engine/protocols.py): what a router      *)
(* advertises, what its peer accepts, the choice of the best route, and    *)
(* _propagate_bgp, which carries changes through the whole network in      *)
(* rounds until nothing changes or MaxRounds have passed.                  *)
(*                                                                         *)
(* Sessions are those of BgpSession with the handshake reduced to its end. *)
(* Routers have AS numbers, so routes transit, and iBGP routes stay inside *)
(* unless a reflector passes them on.  Route maps set the local preference *)
(* (in) or prepend the own AS (out).  Left out: MED, communities with the  *)
(* black holes they install, prefix lists, RPKI, confederations and LLGR.  *)
(* Calls of _propagate_bgp in a row count as one.                          *)
(***************************************************************************)
EXTENDS Naturals, FiniteSets, SequencesExt

CONSTANTS
    Router,     \* routers
    Plans,      \* ways to number the devices' autonomous systems
    Prefix,     \* networks that may be advertised
    Boot,       \* the routers in the order of their router bgp commands
    Peering,    \* device -> the neighbours configured
    MaxRounds,  \* rounds of one propagation (40 in the code)
    MaxChanges  \* bound: commands of the operator

ASSUME RouterAssumption ==
    /\ Plans \subseteq [Router -> Nat]
    /\ Peering \in [Router -> SUBSET Router]
    /\ \A d, n \in Router : n \in Peering[d] => n # d /\ d \in Peering[n]
ASSUME BootAssumption == Boot \in Seq(Router) /\ ToSet(Boot) = Router /\ IsInjective(Boot)
ASSUME BoundAssumption == MaxRounds \in Nat \ {0} /\ MaxChanges \in Nat

VARIABLES
    As,        \* device -> local_as, which never changes
    order,     \* the routers that have a node, in the order of the dictionary
    node,      \* device -> sessions and configuration (see Node)
    ribIn,     \* device -> prefix -> routes learned, oldest first
    updates,   \* <<device, peer, n>>: a handshake with n updates to send
    timers,    \* <<device, peer>> whose Graceful Restart expiry sleeps
    expired,   \* history: an expiry removed routes since the last propagation
    changes    \* bound: commands so far

bgpVars == <<As, order, node, ribIn, updates, timers, expired, changes>>

\* What a router's node holds; session states other than Established are Idle.
Node == [session  : [Router -> {"none", "Idle", "Established"}],
         networks : SUBSET Prefix,
         client   : SUBSET Router,  \* neighbor route-reflector-client
         prefer   : SUBSET Router,  \* in-bound route map: local preference
         prepend  : SUBSET Router,  \* out-bound route map: own AS once more
         gr       : BOOLEAN]        \* bgp graceful-restart

NewNode == [session |-> [n \in Router |-> "none"], networks |-> {}, client |-> {},
            prefer |-> {}, prepend |-> {}, gr |-> FALSE]

Route == [from : Router, path : Seq(Nat), pref : {100, 200}, stale : BOOLEAN]

Known(d) == d \in ToSet(order)
IsEbgp(d, n) == As[d] # As[n]
Up(nodes, d, n) == nodes[d].session[n] = "Established"

-----------------------------------------------------------------------------
(* Choice and advertisement of routes.                                     *)

\* Mutant of Better: the length of the path is not looked at.
BetterByPreference(r, c) ==
    (c.stale /\ ~r.stale) \/ (r.stale = c.stale /\ r.pref > c.pref)

\* _better: fresh before stale, the higher preference, the shorter path.
Better(r, c) ==
    \/ c.stale /\ ~r.stale
    \/ r.stale = c.stale /\ r.pref > c.pref
    \/ r.stale = c.stale /\ r.pref = c.pref /\ Len(r.path) < Len(c.path)

\* The first of the routes that no later one beats, as a set of at most one.
Best(routes) ==
    IF routes = <<>> THEN {}
    ELSE {FoldLeft(LAMBDA cur, r : IF Better(r, cur) THEN r ELSE cur, Head(routes), routes)}

\* A learned route never goes back to its teacher, and from one iBGP peer to
\* another only if one of them is a reflector client.
MayPass(nodes, d, n, r) ==
    /\ r.from # n
    /\ \/ IsEbgp(d, n)
       \/ nodes[d].session[r.from] = "none"
       \/ IsEbgp(d, r.from)
       \/ {n, r.from} \cap nodes[d].client # {}

\* What d's out-bound route map makes of a path.
Mapped(nodes, d, n, path) == IF n \in nodes[d].prepend THEN <<As[d]>> \o path ELSE path

\* Mutant of PassesLoopTest: only the AS that a route comes from is looked at.
PassesFirst(d, n, path) == IsEbgp(d, n) => As[n] # Head(path)

\* The loop test of an eBGP receiver.
PassesLoopTest(d, n, path) == IsEbgp(d, n) => As[n] \notin ToSet(path)

\* The path n takes from d for p: that of d's best route if it passes and n
\* accepts it, else that of d's own network.
Paths(rib, nodes, d, n, p) ==
    LET best == {r \in Best(rib[d][p]) : MayPass(nodes, d, n, r)}
        learned == {IF IsEbgp(d, n) THEN <<As[d]>> \o r.path ELSE r.path : r \in best}
        own == IF p \in nodes[d].networks THEN {<<As[d]>>} ELSE {}
        Taken(paths) ==
            {path \in {Mapped(nodes, d, n, x) : x \in paths} : PassesLoopTest(d, n, path)}
    IN  IF Taken(learned) # {} THEN Taken(learned) ELSE Taken(own)

Wanted(rib, nodes, d, n, p) ==
    {[from |-> d, path |-> path, stale |-> FALSE,
      pref |-> IF d \in nodes[n].prefer THEN 200 ELSE 100] : path \in Paths(rib, nodes, d, n, p)}

From(routes, d) == {r \in ToSet(routes) : r.from = d}

\* A router has at most one route from a peer, so this is the list without d's.
Without(routes, d) == RemoveFirstMatch(routes, LAMBDA r : r.from = d)

\* Mutant of Refreshed: a route that is there already keeps its attributes.
RefreshedOnce(routes, d, wanted) ==
    IF wanted = {} THEN Without(routes, d)
    ELSE IF From(routes, d) = {} THEN Append(routes, CHOOSE r \in wanted : TRUE) ELSE routes

\* What n has from d is withdrawn, appended, or replaced in its place.
Refreshed(routes, d, wanted) ==
    IF wanted = {} THEN Without(routes, d)
    ELSE LET new == CHOOSE r \in wanted : TRUE
         IN  IF From(routes, d) = {} THEN Append(routes, new)
             ELSE [i \in DOMAIN routes |-> IF routes[i].from = d THEN new ELSE routes[i]]

\* One round: every Established end advertises, in the order of the nodes,
\* from the best routes at the end of the last round.
Round(rib, nodes) ==
    [n \in Router |-> [p \in Prefix |->
        FoldLeft(LAMBDA acc, d :
                     IF Known(n) /\ Up(nodes, d, n)
                     THEN Refreshed(acc, d, Wanted(rib, nodes, d, n, p)) ELSE acc,
                 rib[n][p], order)]]

\* Mutant of Propagated: one round and no repetition until nothing changes.
PropagatedOnce(rib, nodes) == Round(rib, nodes)

\* _propagate_bgp among the given nodes, starting from the routes rib.
Propagated(rib, nodes) ==
    LET after[k \in 0..MaxRounds] ==
            IF k = 0 THEN [rib |-> rib, changed |-> TRUE]
            ELSE LET last == after[k - 1]
                     next == Round(last.rib, nodes)
                 IN  IF last.changed THEN [rib |-> next, changed |-> next # last.rib]
                     ELSE last
    IN  after[MaxRounds].rib

Propagates == ribIn' = Propagated(ribIn, node') /\ expired' = FALSE

-----------------------------------------------------------------------------
\* Every router is configured and every session established.
BgpInit ==
    /\ As \in Plans
    /\ order = Boot
    /\ node = [d \in Router |->
                  [NewNode EXCEPT !.session = [n \in Router |->
                      IF n \in Peering[d] THEN "Established" ELSE "none"]]]
    /\ ribIn = [d \in Router |-> [p \in Prefix |-> <<>>]]
    /\ updates = {}
    /\ timers = {}
    /\ expired = FALSE
    /\ changes = 0

(* Commands.                                                               *)

Changes == changes < MaxChanges /\ changes' = changes + 1

\* advertise_network: an update for every session that is up.
AdvertiseNetwork(d, p) ==
    /\ Changes
    /\ Known(d) /\ p \notin node[d].networks
    /\ node' = [node EXCEPT ![d].networks = @ \cup {p}]
    /\ IF \E n \in Router : Up(node, d, n) THEN Propagates ELSE UNCHANGED <<ribIn, expired>>
    /\ UNCHANGED <<order, updates, timers>>

HasSession(d, n) == node[d].session[n] # "none"

\* neighbor route-reflector-client, which has no effect between two ASes.
SetReflectorClient(d, n) ==
    /\ Changes
    /\ HasSession(d, n) /\ ~IsEbgp(d, n) /\ n \notin node[d].client
    /\ node' = [node EXCEPT ![d].client = @ \cup {n}]
    /\ Propagates
    /\ UNCHANGED <<order, updates, timers>>

\* neighbor route-map in, with a map that sets a higher local preference.
SetPreference(d, n) ==
    /\ Changes
    /\ HasSession(d, n) /\ n \notin node[d].prefer
    /\ node' = [node EXCEPT ![d].prefer = @ \cup {n}]
    /\ Propagates
    /\ UNCHANGED <<order, updates, timers>>

\* neighbor route-map out, with a map that prepends the own AS.
SetPrepend(d, n) ==
    /\ Changes
    /\ HasSession(d, n) /\ n \notin node[d].prepend
    /\ node' = [node EXCEPT ![d].prepend = @ \cup {n}]
    /\ Propagates
    /\ UNCHANGED <<order, updates, timers>>

SetGracefulRestart(d, on) ==
    /\ Changes
    /\ Known(d) /\ node[d].gr # on
    /\ node' = [node EXCEPT ![d].gr = on]
    /\ UNCHANGED <<order, ribIn, updates, timers, expired>>

\* remove_device pops the node and leaves the others' sessions with it alone.
RemoveDevice(d) ==
    /\ Changes
    /\ Known(d)
    /\ order' = RemoveFirst(order, d)
    /\ node' = [node EXCEPT ![d] = NewNode]
    /\ ribIn' = [ribIn EXCEPT ![d] = [p \in Prefix |-> <<>>]]
    /\ UNCHANGED <<updates, timers, expired>>

\* router bgp on a device that has no node.
Start(d) ==
    /\ Changes
    /\ ~Known(d)
    /\ order' = Append(order, d)
    /\ UNCHANGED <<node, ribIn, updates, timers, expired>>

AddNeighbor(d, n) ==
    /\ Changes
    /\ Known(d) /\ n \in Peering[d] /\ ~HasSession(d, n)
    /\ node' = [node EXCEPT ![d].session[n] = "Idle"]
    /\ UNCHANGED <<order, ribIn, updates, timers, expired>>

-----------------------------------------------------------------------------
(* Sessions.                                                               *)

\* _open_session of d towards n comes to its end: both ends, if n has one.
Establish(d, n) ==
    /\ Known(n) /\ node[d].session[n] = "Idle"
    /\ node' = [node EXCEPT ![d].session[n] = "Established",
                            ![n].session[d] = IF @ = "none" THEN @ ELSE "Established"]
    /\ updates' = updates \cup {<<d, n, 2>>}
    /\ UNCHANGED <<order, ribIn, timers, expired, changes>>

\* One of its two rounds of updates, from whichever end is Established.
SendUpdates(d, n, k) ==
    /\ <<d, n, k>> \in updates
    /\ updates' = (updates \ {<<d, n, k>>}) \cup (IF k = 2 THEN {<<d, n, 1>>} ELSE {})
    /\ UNCHANGED <<order, node, timers, changes>>
    /\ IF Up(node, d, n) \/ Up(node, n, d) THEN Propagates ELSE UNCHANGED <<ribIn, expired>>

Staled(routes, d) ==
    [i \in DOMAIN routes |->
        IF routes[i].from = d THEN [routes[i] EXCEPT !.stale = TRUE] ELSE routes[i]]

\* What session_down leaves of the routes x has from its lost peer.
Kept(x, peer) ==
    [p \in Prefix |-> IF node[x].gr THEN Staled(ribIn[x][p], peer)
                                    ELSE Without(ribIn[x][p], peer)]

\* session_down, from the shutdown of d's interface to n: the ends that are
\* Established lose the session and their routes, then the rest converges.
SessionDown(d, n) ==
    LET ends == {e \in {<<d, n>>, <<n, d>>} : Up(node, e[1], e[2])}
        Lost(x) == {y \in Router : <<x, y>> \in ends}
        kept == [x \in Router |-> IF Lost(x) = {} THEN ribIn[x]
                                  ELSE Kept(x, CHOOSE y \in Lost(x) : TRUE)]
    IN  /\ Changes
        /\ Known(d) /\ HasSession(d, n) /\ ends # {}
        /\ node' = [x \in Router |-> [node[x] EXCEPT !.session =
                        [y \in Router |-> IF y \in Lost(x) THEN "Idle" ELSE @[y]]]]
        /\ ribIn' = Propagated(kept, node')
        /\ expired' = FALSE
        /\ timers' = timers \cup {e \in ends : node[e[1]].gr}
        /\ UNCHANGED <<order, updates>>

\* The expiry of d's routes from n wakes; it chooses d's best routes anew and
\* tells nobody.
GrExpire(d, n) ==
    /\ <<d, n>> \in timers
    /\ timers' = timers \ {<<d, n>>}
    /\ IF HasSession(d, n) /\ ~Up(node, d, n)
       THEN /\ ribIn' = [ribIn EXCEPT ![d] = [p \in Prefix |-> Without(@[p], n)]]
            /\ expired' = TRUE
       ELSE UNCHANGED <<ribIn, expired>>
    /\ UNCHANGED <<order, node, updates, changes>>

-----------------------------------------------------------------------------
Step ==
    \/ \E d \in Router, p \in Prefix : AdvertiseNetwork(d, p)
    \/ \E d, n \in Router :
          \/ SetReflectorClient(d, n) \/ SetPreference(d, n) \/ SetPrepend(d, n)
          \/ AddNeighbor(d, n) \/ Establish(d, n) \/ SessionDown(d, n) \/ GrExpire(d, n)
    \/ \E d \in Router, on \in BOOLEAN : SetGracefulRestart(d, on)
    \/ \E d \in Router : RemoveDevice(d) \/ Start(d)
    \/ \E u \in updates : SendUpdates(u[1], u[2], u[3])

BgpNext == Step /\ UNCHANGED As

BgpSpec == BgpInit /\ [][BgpNext]_bgpVars

-----------------------------------------------------------------------------
(* Properties.                                                             *)

BgpTypeOK ==
    /\ As \in Plans
    /\ order \in Seq(Router) /\ IsInjective(order)
    /\ node \in [Router -> Node]
    /\ ribIn \in [Router -> [Prefix -> Seq(Route)]]
    /\ updates \subseteq Router \X Router \X {1, 2}
    /\ timers \subseteq Router \X Router
    /\ expired \in BOOLEAN
    /\ changes \in 0..MaxChanges

\* Nothing is on its way that would still change the tables.
Quiet == updates = {} /\ ~expired

SessionsAgree == \A d, n \in Router : Up(node, d, n) => Up(node, n, d)

\* No network is announced by two routers, and at most one route map is in
\* use: the conditions under which propagation ends before MaxRounds.
Moderate ==
    /\ \A p \in Prefix, d, n \in Router :
          p \in node[d].networks \cap node[n].networks => d = n
    /\ Cardinality({e \in Router \X Router :
                       e[2] \in node[e[1]].prefer \cup node[e[1]].prepend}) <= 1

\* A router has from an Established peer what that peer advertises to it now.
IsFixpoint ==
    \A d, n \in ToSet(order), p \in Prefix :
        Up(node, d, n) => From(ribIn[n][p], d) = Wanted(ribIn, node, d, n, p)

\* A round that would change nothing has nothing left to advertise, so the
\* propagation may stop at it.
StopsAtFixpoint == Round(ribIn, node) = ribIn => IsFixpoint

\* When nothing is on its way and no session misses its other end, the tables
\* are a fixpoint of what the routers advertise, in whatever order sessions,
\* route maps, reflectors, removals and expiries came.
RibsAreAdvertised == Quiet /\ SessionsAgree /\ Moderate => IsFixpoint

NextHop(d, p) ==
    IF p \in node[d].networks THEN {} ELSE {r.from : r \in Best(ribIn[d][p])}

\* Packets do not circle: following the best routes of a network from router
\* to router, no router comes again.
NoForwardingLoop ==
    SessionsAgree /\ Moderate => \A p \in Prefix :
        LET hops[k \in 0..Cardinality(Router), d \in Router] ==
                IF k = 0 THEN {d} ELSE UNION {hops[k - 1, n] : n \in NextHop(d, p)}
        IN  \A d \in Router : \A k \in 1..Cardinality(Router) : d \notin hops[k, d]

\* The routers from which d is reached within k sessions, d included.
Within(d) ==
    LET ball[k \in 0..Cardinality(Router)] ==
            IF k = 0 THEN {d}
            ELSE {n \in Router : \E m \in ball[k - 1] : n = m \/ Up(node, m, n)}
    IN  ball

\* Between ASes of one router each and without route maps, a router's best
\* path is as long as the announcing router is far away, and there is one if
\* and only if it is reached at all: nothing announced is missing and, once
\* stale routes have gone, nothing withdrawn lives on.
ShortestPaths ==
    /\ Quiet /\ SessionsAgree /\ Moderate /\ IsInjective(As)
    /\ \A d \in Router : node[d].prefer \cup node[d].prepend = {}
    /\ \A d \in Router, p \in Prefix : \A r \in ToSet(ribIn[d][p]) : ~r.stale
    => \A d, n \in Router, p \in Prefix :
           d # n /\ p \in node[d].networks
               => LET near == {k \in 1..Cardinality(Router) : n \in Within(d)[k]}
                  IN  {Len(r.path) : r \in Best(ribIn[n][p])}
                          = {k \in near : \A j \in near : k <= j}

\* No path leads back into an AS that it has left, and with the router's own
\* AS in front neither does it: the loop test, which compares with one AS at a
\* time, keeps reflectors, prepending and stale routes from making paths that
\* go round, whether or not a propagation has come to its end.
Unlooped(path) ==
    \A i, j, k \in DOMAIN path : i < j /\ j < k /\ path[i] = path[k] => path[j] = path[i]
PathsUnlooped ==
    \A n \in Router, p \in Prefix : \A r \in ToSet(ribIn[n][p]) : Unlooped(<<As[n]>> \o r.path)

\* _propagate_bgp's docstring: routes are propagated to a fixpoint, whoever
\* announces what.
SharedNetworksSettle ==
    /\ Quiet /\ SessionsAgree
    /\ \A d \in Router : node[d].prefer \cup node[d].prepend = {}
    => IsFixpoint

\* _schedule_gr_expiry's docstring: a stale route is really withdrawn, so its
\* other holders lose it too.
ExpiryIsPropagated == updates = {} /\ SessionsAgree /\ Moderate => IsFixpoint

\* remove_device's docstring: the device's registrations in all engines are
\* cleaned up, the sessions of others with it among them.
RemovalEndsSessions == \A d, n \in Router : Up(node, d, n) => Known(n)
=============================================================================
