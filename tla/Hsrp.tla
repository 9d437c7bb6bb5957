-------------------------------- MODULE Hsrp --------------------------------
(***************************************************************************)
(* One HSRP group of class VrrpEngine (engine/protocols.py) on one LAN,    *)
(* with object tracking: the election, the hello loops, the hold timers,   *)
(* and the CLI and shutdown handlers of app.py that drive them.            *)
(*                                                                         *)
(* Every router has a LAN interface, which carries the group and reaches   *)
(* every other router, and interfaces elsewhere that the group may track.  *)
(* Handling a hello never sleeps: a broadcast and all that its receivers   *)
(* do is one step, in the arbitrary order of a Python set.                 *)
(***************************************************************************)
EXTENDS Integers, FiniteSets, SequencesExt

CONSTANTS
    Device,      \* routers of the LAN
    Iface,       \* interfaces of a router
    Lan,         \* the interface that carries the group
    Priority,    \* priorities the operator sets
    Default,     \* 100 in the code
    Decrement,   \* decrements the operator sets
    NoGroup,     \* the group is not configured
    MaxConfig,   \* bound: CLI commands of the group
    MaxFlaps,    \* bound: shutdowns
    MaxFailover, \* bound: failover commands
    MaxEarly     \* bound: hold timers that fire although hellos arrive

\* track[i] = 0: interface i is not tracked; down: tracked_down.
Group == [state : {"Init", "Active", "Standby"}, priority : Nat, base : Priority,
          preempt : BOOLEAN, hello : BOOLEAN, dead : BOOLEAN,
          track : [Iface -> Decrement \cup {0}], down : SUBSET Iface]

ASSUME HsrpAssumption ==
    /\ IsFiniteSet(Device) /\ IsFiniteSet(Iface) /\ Lan \in Iface
    /\ NoGroup \notin Group
    /\ Priority \subseteq Nat /\ Default \in Priority
    /\ Decrement \subseteq Nat \ {0}

VARIABLES
    group,      \* device -> the current HsrpGroup, or NoGroup
    strayHello, \* device -> a hello loop started for a replaced HsrpGroup still runs
    strayDead,  \* device -> hold timers of replaced HsrpGroups that still run
    shut,       \* device -> interfaces that are shut down
    rising,     \* device -> interfaces whose interface_up is at its sleep(0)
    edited,     \* history: device -> track of a down interface changed, priority not recomputed
    failed,     \* history: device -> a failover command hit its current group
    configs, flaps, failovers, early  \* bounds

vars == <<group, strayHello, strayDead, shut, rising, edited, failed,
          configs, flaps, failovers, early>>
bounds == <<configs, flaps, failovers, early>>

Has(g, d) == g[d] # NoGroup
Is(d, st) == group[d] # NoGroup /\ group[d].state = st
Others(d) == Device \ {d}

Init ==
    /\ group = [d \in Device |-> NoGroup]
    /\ strayHello = [d \in Device |-> FALSE]
    /\ strayDead = [d \in Device |-> 0]
    /\ shut = [d \in Device |-> {}]
    /\ rising = [d \in Device |-> {}]
    /\ edited = [d \in Device |-> FALSE]
    /\ failed = [d \in Device |-> FALSE]
    /\ configs = 0 /\ flaps = 0 /\ failovers = 0 /\ early = 0

-----------------------------------------------------------------------------
(* What router r does with a hello of s that carries priority p, as a      *)
(* function of all the groups.                                             *)

\* _hsrp_elect, which also sets the state of the peer's group object.
Elect(g, r, s, p) ==
    LET wins == g[r].priority >= p
    IN  [d \in Device |->
            IF d = r THEN [g[r] EXCEPT !.state = IF wins THEN "Active" ELSE "Standby",
                                       !.dead = TRUE]
            ELSE IF d = s /\ Has(g, s)
            THEN [g[s] EXCEPT !.state = IF wins THEN "Standby" ELSE "Active"]
            ELSE g[d]]

\* Mutant of Receive: an Active router does not give way.
ReceiveKeep(g, r, s, p) ==
    IF ~Has(g, r) \/ g[r].state = "Active" THEN g
    ELSE IF g[r].state = "Init" THEN Elect(g, r, s, p)
    ELSE [g EXCEPT ![r].dead = TRUE,
                   ![r].state = IF g[r].preempt /\ g[r].priority > p THEN "Active" ELSE "Standby"]

\* hsrp_receive_hello.
Receive(g, r, s, p) ==
    IF ~Has(g, r) THEN g
    ELSE CASE g[r].state = "Init" -> Elect(g, r, s, p)
           [] g[r].state = "Active" ->
                IF p > g[r].priority THEN [g EXCEPT ![r].state = "Standby"] ELSE g
           [] g[r].state = "Standby" ->
                [g EXCEPT ![r].dead = TRUE,
                          ![r].state = IF g[r].preempt /\ g[r].priority > p
                                       THEN "Active" ELSE "Standby"]

\* The groups g after the given hellos, each <<receiver, sender, priority>>.
Delivered(g, hellos) ==
    LET after[n \in 0 .. Len(hellos)] ==
            IF n = 0 THEN g
            ELSE Receive(after[n - 1], hellos[n][1], hellos[n][2], hellos[n][3])
    IN  after[Len(hellos)]

\* The CLI's negotiation: d receives every configured neighbour's current
\* values, whatever the state of the link.  Handling hellos changes no priority.
Negotiated(g, d) ==
    {Delivered(g, hellos) : hellos \in
        SetToSeqs({<<d, s, g[s].priority>> : s \in {s \in Others(d) : Has(g, s)}})}

Reaches(d, r) == Lan \notin shut[d] /\ Lan \notin shut[r]

\* _hsrp_send_hello over live edges; the packet is made once.
Advertised(g, d) ==
    {Delivered(g, hellos) : hellos \in
        SetToSeqs({<<r, d, g[d].priority>> : r \in {r \in Others(d) : Reaches(d, r)}})}

\* The priority that base_priority and the tracked interfaces that are down leave.
Sum(track, down) == FoldSet(LAMBDA i, n : track[i] + n, 0, down)

Effective(x) == IF x.base > Sum(x.track, x.down) THEN x.base - Sum(x.track, x.down) ELSE 0

-----------------------------------------------------------------------------
(* The operator.                                                           *)

\* hsrp_start and the correction after it: a new group that keeps what was
\* configured and what is tracked down.
Renewed(x) ==
    LET y == [x EXCEPT !.state = "Init", !.hello = TRUE, !.dead = FALSE, !.priority = x.base]
    IN  IF x.down = {} THEN y ELSE [y EXCEPT !.priority = Effective(x)]

Fresh == [state |-> "Init", priority |-> Default, base |-> Default, preempt |-> FALSE,
          hello |-> TRUE, dead |-> FALSE, track |-> [i \in Iface |-> 0], down |-> {}]

\* "standby ip": the tasks of a group that is replaced are not cancelled.
Configure(d) ==
    /\ configs < MaxConfig
    /\ configs' = configs + 1
    /\ group' \in Negotiated(
           [group EXCEPT ![d] = IF Has(group, d) THEN Renewed(group[d]) ELSE Fresh], d)
    /\ strayHello' = [strayHello EXCEPT ![d] = @ \/ (Has(group, d) /\ group[d].hello)]
    /\ strayDead' = [strayDead EXCEPT ![d] = IF Has(group, d) /\ group[d].dead THEN @ + 1 ELSE @]
    /\ edited' = [edited EXCEPT ![d] = FALSE]
    /\ failed' = [failed EXCEPT ![d] = FALSE]
    /\ UNCHANGED <<shut, rising, flaps, failovers, early>>

\* "standby priority": forgets which tracked interfaces are down.
SetPriority(d, p) ==
    /\ configs < MaxConfig
    /\ Has(group, d)
    /\ configs' = configs + 1
    /\ group' \in Negotiated(
           [group EXCEPT ![d].priority = p, ![d].base = p, ![d].down = {}], d)
    /\ edited' = [edited EXCEPT ![d] = FALSE]
    /\ UNCHANGED <<strayHello, strayDead, shut, rising, failed, flaps, failovers, early>>

\* "standby preempt"; there is no command that switches it off.
SetPreempt(d) ==
    /\ Has(group, d) /\ ~group[d].preempt
    /\ group' = [group EXCEPT ![d].preempt = TRUE]
    /\ UNCHANGED <<strayHello, strayDead, shut, rising, edited, failed, bounds>>

\* "standby track": hsrp_set_track; the interface may be down already.
SetTrack(d, i, n) ==
    /\ configs < MaxConfig
    /\ Has(group, d) /\ group[d].track[i] # n
    /\ configs' = configs + 1
    /\ group' = [group EXCEPT ![d].track[i] = n]
    /\ edited' = [edited EXCEPT ![d] = @ \/ i \in group[d].down]
    /\ UNCHANGED <<strayHello, strayDead, shut, rising, failed, flaps, failovers, early>>

\* "no standby track": hsrp_remove_track.
RemoveTrack(d, i) ==
    /\ configs < MaxConfig
    /\ Has(group, d) /\ group[d].track[i] # 0
    /\ configs' = configs + 1
    /\ LET x == [group[d] EXCEPT !.track[i] = 0, !.down = @ \ {i}]
       IN  group' = [group EXCEPT ![d] = IF i \in group[d].down
                                         THEN [x EXCEPT !.priority = Effective(x)] ELSE x]
    /\ edited' = [edited EXCEPT ![d] = @ /\ i \notin group[d].down]
    /\ UNCHANGED <<strayHello, strayDead, shut, rising, failed, flaps, failovers, early>>

\* hsrp_track_down: is the group to lose priority for interface i?
PenaltyDue(x, i) == x.track[i] # 0 /\ i \notin x.down

\* Mutant of ReliefDue: a group in Init is passed over.
ReliefInService(x, i) == x.track[i] # 0 /\ i \in x.down /\ x.state # "Init"

\* hsrp_track_up: is the group to regain priority for interface i?
ReliefDue(x, i) == x.track[i] # 0 /\ i \in x.down

\* Group x with `down' as its tracked_down, and the hello that tells of it.
Retracked(g, d, down) ==
    LET x == [g[d] EXCEPT !.down = down]
        h == [g EXCEPT ![d] = [x EXCEPT !.priority = Effective(x)]]
    IN  IF x.state = "Init" THEN {h} ELSE Advertised(h, d)

\* interface_down: the group on the interface falls to Init.
Fallen(g, d, i) ==
    IF Has(g, d) /\ i = Lan /\ g[d].state # "Init"
    THEN [g EXCEPT ![d].state = "Init", ![d].dead = FALSE] ELSE g

\* "shutdown": interface_down, then hsrp_track_down.  A group whose own interface
\* is shut is in Init and sends no hello.
Shutdown(d, i) ==
    /\ flaps < MaxFlaps
    /\ i \notin shut[d]
    /\ flaps' = flaps + 1
    /\ shut' = [shut EXCEPT ![d] = @ \cup {i}]
    /\ LET g == Fallen(group, d, i)
       IN  IF Has(g, d) /\ PenaltyDue(g[d], i)
           THEN group' \in Retracked(g, d, g[d].down \cup {i}) /\ edited' = [edited EXCEPT ![d] = FALSE]
           ELSE group' = g /\ UNCHANGED edited
    /\ UNCHANGED <<strayHello, strayDead, rising, failed, configs, failovers, early>>

\* "no shutdown": interface_up as far as its sleep(0).
NoShutdown(d, i) ==
    /\ i \in shut[d]
    /\ shut' = [shut EXCEPT ![d] = @ \ {i}]
    /\ rising' = [rising EXCEPT ![d] = @ \cup {i}]
    /\ UNCHANGED <<group, strayHello, strayDead, edited, failed, bounds>>

\* The rest of interface_up, then hsrp_track_up.
IsUp(d, i) ==
    /\ i \in rising[d]
    /\ rising' = [rising EXCEPT ![d] = @ \ {i}]
    /\ LET alone == i = Lan /\ Is(d, "Init") /\ \A p \in Others(d) : ~Has(group, p)
           g == IF alone THEN [group EXCEPT ![d].state = "Active"] ELSE group
       IN  IF Has(g, d) /\ ReliefDue(g[d], i)
           THEN group' \in Retracked(g, d, g[d].down \ {i}) /\ edited' = [edited EXCEPT ![d] = FALSE]
           ELSE group' = g /\ UNCHANGED edited
    /\ UNCHANGED <<strayHello, strayDead, shut, failed, bounds>>

\* "standby failover": d gives up, and every neighbour in Standby takes over.
Failover(d) ==
    /\ failovers < MaxFailover
    /\ Is(d, "Active")
    /\ failovers' = failovers + 1
    /\ group' = [e \in Device |->
                    IF e = d THEN [group[d] EXCEPT !.state = "Init", !.hello = FALSE]
                    ELSE IF Is(e, "Standby")
                    THEN [group[e] EXCEPT !.state = "Active", !.dead = FALSE]
                    ELSE group[e]]
    /\ failed' = [failed EXCEPT ![d] = TRUE]
    /\ UNCHANGED <<strayHello, strayDead, shut, rising, edited, configs, flaps, early>>

-----------------------------------------------------------------------------
(* The coroutines.                                                         *)

Sends(d) == Has(group, d) /\ (group[d].hello \/ strayHello[d])

\* A hello loop comes round.
Hello(d) ==
    /\ Sends(d)
    /\ group' \in Advertised(group, d)
    /\ UNCHANGED <<strayHello, strayDead, shut, rising, edited, failed, bounds>>

\* Somebody's hellos keep resetting d's hold timer while d is Standby.
Hears(d) == \E s \in Others(d) : Reaches(d, s) /\ Sends(s)

Promoted(d) == IF Is(d, "Standby") THEN [group EXCEPT ![d].state = "Active"] ELSE group

\* The hold timer of d's group, and those of the groups it replaced.
HoldTimer(d) ==
    /\ Has(group, d) /\ group[d].dead
    /\ IF Is(d, "Standby") /\ Hears(d)
       THEN early < MaxEarly /\ early' = early + 1 ELSE UNCHANGED early
    /\ group' = [Promoted(d) EXCEPT ![d].dead = FALSE]
    /\ UNCHANGED <<strayHello, strayDead, shut, rising, edited, failed, configs, flaps, failovers>>

StrayHoldTimer(d) ==
    /\ strayDead[d] > 0
    /\ strayDead' = [strayDead EXCEPT ![d] = @ - 1]
    /\ group' = Promoted(d)
    /\ UNCHANGED <<strayHello, shut, rising, edited, failed, bounds>>

-----------------------------------------------------------------------------
Next ==
    \/ \E d \in Device : Configure(d)
    \/ \E d \in Device, p \in Priority : SetPriority(d, p)
    \/ \E d \in Device : SetPreempt(d)
    \/ \E d \in Device, i \in Iface, n \in Decrement : SetTrack(d, i, n)
    \/ \E d \in Device, i \in Iface : RemoveTrack(d, i)
    \/ \E d \in Device, i \in Iface : Shutdown(d, i)
    \/ \E d \in Device, i \in Iface : NoShutdown(d, i)
    \/ \E d \in Device, i \in Iface : IsUp(d, i)
    \/ \E d \in Device : Failover(d)
    \/ \E d \in Device : Hello(d)
    \/ \E d \in Device : HoldTimer(d)
    \/ \E d \in Device : StrayHoldTimer(d)

Spec == Init /\ [][Next]_vars

\* Loops and timers go on; the operator owes nothing.
Fairness == \A d \in Device : /\ WF_vars(Hello(d)) /\ WF_vars(HoldTimer(d))
                              /\ WF_vars(StrayHoldTimer(d))
                              /\ \A i \in Iface : WF_vars(IsUp(d, i))

FairSpec == Spec /\ Fairness

-----------------------------------------------------------------------------
(* Properties.                                                             *)

\* Every variable holds values of its type.
TypeOK ==
    /\ group \in [Device -> Group \cup {NoGroup}]
    /\ strayHello \in [Device -> BOOLEAN] /\ strayDead \in [Device -> Nat]
    /\ shut \in [Device -> SUBSET Iface] /\ rising \in [Device -> SUBSET Iface]
    /\ edited \in [Device -> BOOLEAN] /\ failed \in [Device -> BOOLEAN]
    /\ configs \in Nat /\ flaps \in Nat /\ failovers \in Nat /\ early \in Nat

\* A group's priority is what its configured priority and its interfaces
\* recorded as down leave, whatever was configured, shut and brought back in
\* between; only a decrement changed while its interface is down is pending.
PriorityTracked ==
    \A d \in Device : Has(group, d) /\ ~edited[d] => group[d].priority = Effective(group[d])

\* A router is penalised only for an interface that it tracks and that is shut,
\* or whose "no shutdown" is still being handled.
PenaltyEnds ==
    \A d \in Device : Has(group, d) =>
        \A i \in group[d].down : group[d].track[i] # 0 /\ i \in shut[d] \cup rising[d]

Running == {d \in Device : Lan \notin shut[d] /\ Has(group, d)}

\* Two or more routers serve the virtual address for good, all of them
\* preempt, none was failed since it was configured, and no two have the same
\* priority.
Stable == \E S \in SUBSET Device :
    <>[](/\ Running = S
         /\ \E d, e \in S : d # e
         /\ \A d \in S : group[d].preempt /\ ~failed[d]
         /\ \A d, e \in S : group[d].priority = group[e].priority => d = e)

\* Whatever was configured, tracked, failed, shut, brought back and timed out:
\* in a pair that has become stable in the end exactly one router is Active, the
\* one of higher priority, and it stays so.
ActiveSettles ==
    Stable => <>[](\E m \in Running : \A d \in Running :
                       (Is(d, "Active") <=> d = m) /\ group[d].priority <= group[m].priority)

\* hsrp_track_down's comment: an Active router stays Active unless a peer of
\* higher priority preempts.  (A peer that is Active or being elected, and a
\* command, may take over as well.)
ActiveStays ==
    [][\A d \in Device :
          /\ configs' = configs
          /\ Is(d, "Active") /\ group'[d].state = "Standby"
          => \E p \in Others(d) :
                 /\ Has(group, p)
                 /\ group[p].preempt \/ group[p].state # "Standby"]_vars

\* Two routers that hear each other do not both stay Active.
OneActive ==
    \A d, e \in Device :
        d # e => []<>~(Is(d, "Active") /\ Is(e, "Active") /\ Reaches(d, e))

\* While no command is given, an interface that is recorded as down and stays
\* shut stays recorded as down.
ShutStaysPenalised ==
    [][\A d \in Device : Has(group, d) /\ configs' = configs =>
          \A i \in group[d].down : i \in shut[d] \cap shut'[d] => i \in group'[d].down]_vars
=============================================================================
