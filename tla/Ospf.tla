-------------------------------- MODULE Ospf --------------------------------
(***************************************************************************)
(* OspfEngine (engine/protocols.py), one area: hello loops, the handshake  *)
(* that a hello loop carries out inside its receiver, dead timers, the     *)
(* election of DR and BDR, and link state databases.                       *)
(*                                                                         *)
(* A hello is delivered by calling the receiver, and the receiver of a new *)
(* neighbour's first hello sleeps five times on the way from Init to Full: *)
(* the sender's hello loop is the coroutine that sleeps.  Init stands for  *)
(* the states short of Full.  Every cable is direct; a database entry is   *)
(* the Router or Network LSA of one router, and routes are the routers     *)
(* whose networks are reachable.  A router's LSAs of one generation share  *)
(* a sequence number.  Costs, areas, Summary and External LSAs are left    *)
(* out.                                                                    *)
(*                                                                         *)
(* Removing a router drops its node and cables and cancels nothing: its    *)
(* hello loop and dead timers wake up later, when a router of its name may *)
(* have been added again.  A router added again has the addresses it had,  *)
(* so also its router id.                                                  *)
(***************************************************************************)
EXTENDS Naturals, FiniteSets

CONSTANTS Router, Wiring, NoOne, Priority, RouterId, Commands, MaxCommands, MaxRemovals

\* Router ids are distinct: the databases are keyed by them.
ASSUME OspfAssumption ==
    /\ NoOne \notin Router /\ IsFiniteSet(Router)
    /\ Wiring \subseteq SUBSET Router
    /\ Priority \subseteq Nat /\ 1 \in Priority
    /\ RouterId \in [Router -> Nat]
    /\ \A p, q \in Router : RouterId[p] = RouterId[q] => p = q
    /\ MaxCommands \in Nat /\ MaxRemovals \in Nat

VARIABLES nodes,     \* the routers the engine has a node for
          enabled,   \* enabled[d]: the process runs
          priority,  \* priority[d]: its priority for the election
          shut,      \* shut[d]: the peers behind its interfaces that are shut
          cables,    \* the cables of Wiring that are plugged
          removals,  \* removals[d]: how often d has been removed
          loop,      \* loop[d][g]: the hello loop that d started after g removals
          late,      \* the dead timers of removed routers: the router, its
                     \* neighbour, and the removals before its own
          nbrs,      \* nbrs[d][p]: the state of neighbour p
          dr, bdr,   \* dr[d], bdr[d]: what d takes for DR and BDR
          electing,  \* the routers with an election spawned
          seq,       \* seq[d]: the sequence number of its next LSAs
          lsdb,      \* lsdb[d][k]: its copy of LSA k
          routes,    \* routes[d]: the routers whose networks it has routes to
          commands   \* the operator's commands, for the bound

topology == <<shut, cables, removals>>
config == <<nodes, enabled, priority, topology>>
database == <<seq, lsdb, routes>>
vars == <<config, loop, late, nbrs, dr, bdr, electing, database, commands>>

Removals == 0 .. MaxRemovals

Key == {"router", "network"} \X Router
NoLsa == [seq |-> 0, links |-> {}]
Lsa == [seq : Nat, links : SUBSET Router]
\* A hello loop: whether it goes on, whom it still has to say hello to, the
\* peer in whose handshake it sleeps, and whether that peer's table still has
\* the neighbour the handshake is for.
Loop == [on : BOOLEAN, todo : SUBSET Router, at : Router \cup {NoOne}, kept : BOOLEAN]
Ended == [on |-> FALSE, todo |-> {}, at |-> NoOne, kept |-> FALSE]
Asleep == [Ended EXCEPT !.on = TRUE]

Init ==
    /\ nodes = {}
    /\ enabled = [d \in Router |-> FALSE]
    /\ priority = [d \in Router |-> 1]
    /\ shut = [d \in Router |-> {}]
    /\ cables = Wiring
    /\ removals = [d \in Router |-> 0]
    /\ loop = [d \in Router |-> [g \in Removals |-> Ended]]
    /\ late = {}
    /\ nbrs = [d \in Router |-> [p \in Router |-> "Down"]]
    /\ dr = [d \in Router |-> NoOne]
    /\ bdr = [d \in Router |-> NoOne]
    /\ electing = {}
    /\ seq = [d \in Router |-> 1]
    /\ lsdb = [d \in Router |-> [k \in Key |-> NoLsa]]
    /\ routes = [d \in Router |-> {}]
    /\ commands = 0

----------------------------------------------------------------------------
(* Cables and neighbours.                                                  *)

Linked(d) == {p \in Router : {d, p} \in cables}
\* Both interfaces are open; whether the cable is plugged it does not ask.
EdgeUp(d, p) == p \notin shut[d] /\ d \notin shut[p]
Known(d) == {p \in Router : nbrs[d][p] # "Down"}
Full(table, d) == {p \in Router : table[d][p] = "Full"}
\* The hello loops when d's table has lost the neighbours P: a handshake for
\* one of them goes on with a neighbour that nobody looks up any more.
Forgotten(d, P) ==
    [x \in Router |-> [g \in Removals |->
        IF x \in P /\ loop[x][g].at = d THEN [loop[x][g] EXCEPT !.kept = FALSE]
        ELSE loop[x][g]]]

----------------------------------------------------------------------------
(* Link state databases.                                                   *)

\* The LSAs that the routers of R would issue now: their Router LSAs and,
\* where they take themselves for the DR, their Network LSAs.
Issues(R) == {k \in Key : k[2] \in R /\ (k[1] = "router" \/ dr[k[2]] = k[2])}
\* Mutant of Issued: an LSA that reuses the number of the one before.
IssuedAgain(table, k) ==
    [seq |-> 1, links |-> Full(table, k[2]) \cup (IF k[1] = "network" THEN {k[2]} ELSE {})]
Issued(table, k) ==
    [seq |-> seq[k[2]],
     links |-> Full(table, k[2]) \cup (IF k[1] = "network" THEN {k[2]} ELSE {})]

Active == {d \in Router : enabled[d]}
\* The running routers that d reaches over cables between running routers;
\* flooding does not ask whether an interface is shut.
Component(d) ==
    {p \in Router : \A S \in SUBSET Router :
        d \in S /\ (\A q \in S : Linked(q) \cap Active \subseteq S) => p \in S}
\* Mutant: the two routers of a handshake keep their databases to themselves.
PoolKept(d, pair) == {d}
\* The databases that d's is merged from when the pair has exchanged theirs
\* and the area has been flooded.
Pool(d, pair) ==
    LET flood == IF enabled[d] THEN Component(d) ELSE {d}
    IN  IF flood \cap pair # {} THEN flood \cup pair ELSE flood
\* The LSAs issued at the end of a handshake of d in p, and the databases that
\* are merged: without a node for both there is no exchange and no flooding.
Met(d, p) == {d, p} \subseteq nodes
IssuedAtEnd(d, p) ==
    IF Met(d, p) THEN Issues(Active \cup {d, p}) ELSE {<<"router", q>> : q \in {p} \cap nodes}
Merged(r, d, p) == IF Met(d, p) THEN Pool(r, {d, p}) ELSE {r}
\* The newest LSA k in the databases of S, where the LSAs K have been issued
\* anew.
Newest(S, K, table, k) ==
    LET copies == {IF k[2] = d /\ k \in K THEN Issued(table, k) ELSE lsdb[d][k] : d \in S}
    IN  CHOOSE c \in copies : \A e \in copies : e.seq <= c.seq

\* SPF on one router's database: the routers a walk from d leads to.
Spf(db, d) ==
    {p \in Router :
        /\ db[<<"router", p>>].seq > 0
        /\ \A S \in SUBSET Router :
              d \in S /\ (\A k \in Key : k[2] \in S => db[k].links \subseteq S) => p \in S}

----------------------------------------------------------------------------
(* The election, from what the router itself knows: the highest priority,  *)
(* then the highest router id; a DR or BDR that is still a candidate stays.*)

Beats(p, q) ==
    \/ priority[p] > priority[q]
    \/ priority[p] = priority[q] /\ RouterId[p] > RouterId[q]
Best(S) == IF S = {} THEN NoOne ELSE CHOOSE p \in S : \A q \in S \ {p} : Beats(p, q)
Candidates(d, table) ==
    {p \in nodes : (p = d \/ table[d][p] # "Down") /\ priority[p] > 0}
Dr(d, table) ==
    IF dr[d] \in Candidates(d, table) THEN dr[d] ELSE Best(Candidates(d, table))
\* Mutant: the BDR of the election before stays even when it is now the DR.
BdrKept(d, table) ==
    IF bdr[d] \in Candidates(d, table) THEN bdr[d]
    ELSE Best(Candidates(d, table) \ {Dr(d, table)})
Bdr(d, table) ==
    IF bdr[d] \in Candidates(d, table) \ {Dr(d, table)} THEN bdr[d]
    ELSE Best(Candidates(d, table) \ {Dr(d, table)})

\* An election of d, and whether it makes d the DR, which then issues a
\* Network LSA.
Elect(d, table) ==
    IF Candidates(d, table) = {} THEN UNCHANGED <<dr, bdr>>
    ELSE /\ dr' = [dr EXCEPT ![d] = Dr(d, table)]
         /\ bdr' = [bdr EXCEPT ![d] = Bdr(d, table)]
Promoted(d, table) == dr[d] # d /\ Candidates(d, table) # {} /\ Dr(d, table) = d

----------------------------------------------------------------------------
(* The hello loop that d started after g removals.  One left over from     *)
(* before a removal ends when it wakes and d does not run.                 *)

HelloLoop(d, g) ==
    /\ loop[d][g] = Asleep
    /\ \/ /\ enabled[d] /\ Linked(d) # {}
          /\ loop' = [loop EXCEPT ![d][g].todo = Linked(d)]
       \/ /\ ~enabled[d]
          /\ loop' = [loop EXCEPT ![d][g] = Ended]
    /\ UNCHANGED <<config, late, nbrs, dr, bdr, electing, database, commands>>

\* The next peer: a hello that does not arrive, one that restarts the dead
\* timer of a neighbour in whatever state it is, and the first of a neighbour.
SayHello(d, g, p) ==
    /\ p \in loop[d][g].todo
    /\ loop[d][g].at = NoOne
    /\ LET new == EdgeUp(d, p) /\ enabled[p] /\ nbrs[p][d] = "Down"
       IN  /\ loop' = [loop EXCEPT ![d][g] =
                          [loop[d][g] EXCEPT !.todo = @ \ {p},
                                             !.at = IF new THEN p ELSE NoOne,
                                             !.kept = new]]
           /\ nbrs' = IF new THEN [nbrs EXCEPT ![p][d] = "Init"] ELSE nbrs
    /\ UNCHANGED <<config, late, dr, bdr, electing, database, commands>>

\* The sleep in a handshake ends.
WakesUp(d, g) ==
    /\ loop[d][g].at # NoOne
    /\ loop' = [loop EXCEPT ![d][g].at = NoOne, ![d][g].kept = FALSE]

\* The handshake in p ends.  The neighbour may be gone from the table by
\* then; the LSAs, the flooding and the election take place all the same,
\* for the nodes that d and p have then.
\* The Network LSA of a router the election promotes comes after the flood
\* and leads nowhere that its Router LSA does not.
LoadingDone(d, g) ==
    /\ WakesUp(d, g)
    /\ UNCHANGED <<config, late, electing, commands>>
    /\ LET p == loop[d][g].at
           table == IF loop[d][g].kept THEN [nbrs EXCEPT ![p][d] = "Full"] ELSE nbrs
           issued == IssuedAtEnd(d, p)
           promoted == Promoted(p, table)
           pools == [r \in Router |-> Merged(r, d, p)]
           first == <<"network", p>>
       IN  /\ nbrs' = table
           /\ Elect(p, table)
           /\ lsdb' = [r \in Router |-> [k \in Key |->
                          IF r = p /\ k = first /\ promoted
                          THEN [Issued(table, first) EXCEPT !.seq = @ + 1]
                          ELSE Newest(pools[r], issued, table, k)]]
           /\ seq' = [r \in Router |->
                         IF <<"router", r>> \notin issued THEN seq[r]
                         ELSE seq[r] + 1 + IF r = p /\ promoted THEN 1 ELSE 0]
           /\ routes' = [r \in Router |-> IF Met(d, p) /\ enabled[r] THEN Spf(lsdb'[r], r)
                                          ELSE routes[r]]

\* Four hello intervals.  A hello that arrives restarts the timer, and a
\* handshake is much shorter.
Silent(p, d) == ~enabled[p] \/ p \notin Linked(d) \/ ~EdgeUp(p, d)
DeadTimer(d, p) ==
    /\ nbrs[d][p] # "Down"
    /\ Silent(p, d)
    /\ \A g \in Removals : ~(loop[p][g].at = d /\ loop[p][g].kept)
    /\ nbrs' = [nbrs EXCEPT ![d][p] = "Down"]
    /\ routes' = [routes EXCEPT ![d] = Spf(lsdb[d], d)]
    /\ UNCHANGED <<config, loop, late, dr, bdr, electing, seq, lsdb, commands>>

\* A dead timer of a router that was removed: it takes p from the neighbours
\* that d has by then.
LateTimer(d, p, g) ==
    /\ <<d, p, g>> \in late
    /\ late' = late \ {<<d, p, g>>}
    /\ nbrs' = [nbrs EXCEPT ![d][p] = "Down"]
    /\ loop' = Forgotten(d, {p})
    /\ routes' = [routes EXCEPT ![d] = IF p \in Known(d) THEN Spf(lsdb[d], d) ELSE @]
    /\ UNCHANGED <<config, dr, bdr, electing, seq, lsdb, commands>>

SpawnedElection(d) ==
    /\ d \in electing
    /\ electing' = electing \ {d}
    /\ Elect(d, nbrs)
    /\ IF Promoted(d, nbrs)
       THEN /\ lsdb' = [lsdb EXCEPT ![d][<<"network", d>>] = Issued(nbrs, <<"network", d>>)]
            /\ seq' = [seq EXCEPT ![d] = @ + 1]
       ELSE UNCHANGED <<lsdb, seq>>
    /\ UNCHANGED <<config, loop, late, nbrs, routes, commands>>

----------------------------------------------------------------------------
(* The operator.                                                           *)

Commanded(kind) ==
    /\ kind \in Commands
    /\ commands < MaxCommands
    /\ commands' = commands + 1

\* A network statement: the hello loop is cancelled wherever it sleeps.
Start(d) ==
    /\ Commanded("start")
    /\ nodes' = nodes \cup {d}
    /\ enabled' = [enabled EXCEPT ![d] = TRUE]
    /\ loop' = [loop EXCEPT ![d][removals[d]] = Asleep]
    /\ UNCHANGED <<priority, topology, late, nbrs, dr, bdr, electing, database>>

\* no router ospf
Stop(d) ==
    /\ Commanded("stop")
    /\ enabled' = [enabled EXCEPT ![d] = FALSE]
    /\ loop' = [Forgotten(d, Router) EXCEPT ![d][removals[d]] = Ended]
    /\ nbrs' = [nbrs EXCEPT ![d] = [p \in Router |-> "Down"]]
    /\ dr' = [dr EXCEPT ![d] = NoOne]
    /\ bdr' = [bdr EXCEPT ![d] = NoOne]
    /\ routes' = [routes EXCEPT ![d] = {}]
    /\ lsdb' = [lsdb EXCEPT ![d] = [k \in Key |-> NoLsa]]
    /\ UNCHANGED <<nodes, priority, topology, late, electing, seq>>

SetPriority(d, n) ==
    /\ Commanded("priority")
    /\ n # priority[d] \/ d \notin nodes
    /\ nodes' = nodes \cup {d}
    /\ priority' = [priority EXCEPT ![d] = n]
    /\ electing' = IF enabled[d] /\ Known(d) # {} THEN electing \cup {d} ELSE electing
    /\ UNCHANGED <<enabled, topology, loop, late, nbrs, dr, bdr, database>>

\* Only the near end is told; the far end has its dead timer.
Shutdown(d, p) ==
    /\ Commanded("shut")
    /\ {d, p} \in Wiring /\ p \notin shut[d]
    /\ shut' = [shut EXCEPT ![d] = @ \cup {p}]
    /\ IF p \in Linked(d) /\ p \in Known(d)
       THEN /\ nbrs' = [nbrs EXCEPT ![d][p] = "Down"]
            /\ loop' = Forgotten(d, {p})
            /\ routes' = [routes EXCEPT ![d] = Spf(lsdb[d], d)]
       ELSE UNCHANGED <<nbrs, loop, routes>>
    /\ UNCHANGED <<nodes, enabled, priority, cables, removals, late, dr, bdr, electing, seq, lsdb>>

NoShutdown(d, p) ==
    /\ Commanded("shut")
    /\ p \in shut[d]
    /\ shut' = [shut EXCEPT ![d] = @ \ {p}]
    /\ UNCHANGED <<nodes, enabled, priority, cables, removals, loop, late, nbrs, dr, bdr,
                   electing, database>>

\* A cable is plugged or pulled; nobody tells the engine.
Recable(c) ==
    /\ Commanded("cable")
    /\ cables' = IF c \in cables THEN cables \ {c} ELSE cables \cup {c}
    /\ UNCHANGED <<nodes, enabled, priority, shut, removals, loop, late, nbrs, dr, bdr,
                   electing, database>>

\* The device is deleted, and its node with it.  Its tasks go on.  It is added
\* again by the first command for it.
RemoveDevice(d) ==
    /\ Commanded("remove")
    /\ removals[d] < MaxRemovals
    /\ removals' = [removals EXCEPT ![d] = @ + 1]
    /\ cables' = {c \in cables : d \notin c}
    /\ shut' = [shut EXCEPT ![d] = {}]
    /\ nodes' = nodes \ {d}
    /\ enabled' = [enabled EXCEPT ![d] = FALSE]
    /\ priority' = [priority EXCEPT ![d] = 1]
    /\ late' = late \cup {<<d, p, removals[d]>> : p \in Known(d)}
    /\ loop' = Forgotten(d, Router)
    /\ nbrs' = [nbrs EXCEPT ![d] = [p \in Router |-> "Down"]]
    /\ dr' = [dr EXCEPT ![d] = NoOne]
    /\ bdr' = [bdr EXCEPT ![d] = NoOne]
    /\ routes' = [routes EXCEPT ![d] = {}]
    /\ lsdb' = [lsdb EXCEPT ![d] = [k \in Key |-> NoLsa]]
    /\ seq' = [seq EXCEPT ![d] = 1]
    /\ UNCHANGED electing

Command ==
    \/ \E d \in Router :
          \/ Start(d) \/ Stop(d) \/ RemoveDevice(d)
          \/ \E n \in Priority : SetPriority(d, n)
          \/ \E p \in Router : Shutdown(d, p) \/ NoShutdown(d, p)
    \/ \E c \in Wiring : Recable(c)

Background ==
    \E d \in Router :
        \/ SpawnedElection(d)
        \/ \E g \in Removals : HelloLoop(d, g) \/ LoadingDone(d, g)
        \/ \E p \in Router : DeadTimer(d, p)
        \/ \E p \in Router, g \in Removals : SayHello(d, g, p) \/ LateTimer(d, p, g)

Next == Command \/ Background

Spec == Init /\ [][Next]_vars

\* Every coroutine whose sleep has ended is resumed.  A hello loop leaves a
\* handshake by waking up or by being cancelled.
Fairness ==
    \A d \in Router :
        /\ \A g \in Removals :
              /\ WF_vars(HelloLoop(d, g) \/ \E p \in Router : SayHello(d, g, p))
              /\ WF_loop(WakesUp(d, g))
        /\ WF_vars(\/ SpawnedElection(d)
                   \/ \E p \in Router :
                         DeadTimer(d, p) \/ \E g \in Removals : LateTimer(d, p, g))
FairSpec == Spec /\ Fairness

----------------------------------------------------------------------------
(* Properties.                                                             *)

\* The state has the shape the engine gives it.
TypeOK ==
    /\ nodes \subseteq Router
    /\ enabled \in [Router -> BOOLEAN]
    /\ priority \in [Router -> Priority]
    /\ shut \in [Router -> SUBSET Router]
    /\ cables \subseteq Wiring
    /\ removals \in [Router -> Removals]
    /\ loop \in [Router -> [Removals -> Loop]]
    /\ late \subseteq Router \X Router \X Removals
    /\ nbrs \in [Router -> [Router -> {"Down", "Init", "Full"}]]
    /\ dr \in [Router -> Router \cup {NoOne}]
    /\ bdr \in [Router -> Router \cup {NoOne}]
    /\ electing \subseteq Router
    /\ seq \in [Router -> Nat \ {0}]
    /\ lsdb \in [Router -> [Key -> Lsa]]
    /\ routes \in [Router -> SUBSET Router]
    /\ commands \in 0 .. MaxCommands

\* A neighbour is Full only where its LSA has arrived: the databases were
\* exchanged before anybody can see Full.  Of a neighbour that was removed in
\* between it is not true, see FullIsExchanged.
FullKnowsLsa ==
    \A d, p \in Router :
        nbrs[d][p] = "Full" /\ removals[p] = 0 => lsdb[d][<<"router", p>>].seq > 0

\* A sequence number names one LSA for good, as long as its router is not
\* removed: no copy carries a number its router has not used, and copies with
\* equal numbers are equal, whoever else is removed and added again.  The
\* merge keeps what it has when the numbers are equal.
SequenceNumbersTell ==
    \A k \in Key, d \in Router :
        removals[k[2]] = 0 =>
            /\ lsdb[d][k].seq < seq[k[2]]
            /\ \A p \in Router : lsdb[d][k].seq = lsdb[p][k].seq => lsdb[d][k] = lsdb[p][k]

\* The DR has a backup, and the backup is another router.
BackupIsAnother == \A d \in Router : dr[d] # NoOne => bdr[d] # dr[d]


\* Once the operator is done and hellos pass both ways, neighbours are Full.
AdjacenciesFill ==
    <>[](\A d, p \in Router :
            nbrs[d][p] = IF enabled[d] /\ ~Silent(p, d) THEN "Full" ELSE "Down")

\* A router that has lost its last neighbour has no route left but its own.
RoutesFollowAdjacencies ==
    \A d \in Router : Known(d) = {} => routes[d] \subseteq {d}

\* A neighbour is Full only where its LSA has arrived, also when it has been
\* removed.
FullIsExchanged ==
    \A d, p \in Router : nbrs[d][p] = "Full" => lsdb[d][<<"router", p>>].seq > 0

\* What a running router issues next is newer than every copy of what it, or a
\* router of its name that was removed, issued before.
NextLsaIsNewer ==
    \A k \in Key, d \in Router : enabled[k[2]] => lsdb[d][k].seq < seq[k[2]]

\* Routers that have all become each other's neighbours agree on the DR.
OneDr ==
    (\A d, p \in Router : p \in Linked(d) =>
            nbrs[d][p] = "Full" /\ \A g \in Removals : loop[d][g].at = NoOne)
        => \A d, p \in Router : p \in Linked(d) => dr[d] = dr[p]
=============================================================================
