-------------------------------- MODULE Vrrp --------------------------------
(***************************************************************************)
(* One VRRP group of class VrrpEngine (engine/protocols.py) on one LAN:    *)
(* the election, the advertisement loops, the dead timers, and the CLI and *)
(* shutdown handlers of app.py that drive them.                            *)
(*                                                                         *)
(* Every router has one interface on the LAN and a cable to every other    *)
(* one.  Handling an advertisement never sleeps, so a broadcast and all    *)
(* that its receivers do is one step; the receivers come in the arbitrary  *)
(* order of a Python set.                                                  *)
(***************************************************************************)
EXTENDS Naturals, SequencesExt

CONSTANTS
    Device,      \* routers of the LAN
    Priority,    \* priorities the operator sets, Default among them
    Default,     \* 100 in the code
    LanRank,     \* device -> rank of its LAN address, compared as a string
    AnyRank,     \* device -> rank of the largest of its addresses, as a string
    NumRank,     \* device -> rank of its LAN address, compared as a number
    NoGroup,     \* the group is not configured
    Preempts,    \* the preempt settings the operator uses
    MaxConfig,   \* bound: CLI commands
    MaxFlaps,    \* bound: shutdowns
    MaxFailover, \* bound: vrrp failover commands
    MaxEarly     \* bound: dead timers that fire although advertisements arrive

VARIABLES
    group,      \* device -> the current VrrpGroup, or NoGroup
    strayHello, \* device -> a hello loop started for a replaced VrrpGroup still runs
    strayDead,  \* device -> dead timers of replaced VrrpGroups that still run
    up,         \* device -> the interface is not shut down
    rising,     \* device -> how many interface_ups are at their sleep(0)
    failed,     \* history: device -> a failover command hit its current group
    configs, flaps, failovers, early  \* bounds

vars == <<group, strayHello, strayDead, up, rising, failed, configs, flaps, failovers, early>>
bounds == <<configs, flaps, failovers, early>>

\* hello: hello_task runs; dead: dead_task has not fired or been cancelled.
Group == [state : {"Init", "Master", "Backup"}, priority : Priority, preempt : BOOLEAN,
          hello : BOOLEAN, dead : BOOLEAN]
Has(g, d) == g[d] # NoGroup
Is(d, st) == group[d] # NoGroup /\ group[d].state = st
Others(d) == Device \ {d}

Init ==
    /\ group = [d \in Device |-> NoGroup]
    /\ strayHello = [d \in Device |-> FALSE]
    /\ strayDead = [d \in Device |-> 0]
    /\ up = [d \in Device |-> TRUE]
    /\ rising = [d \in Device |-> 0]
    /\ failed = [d \in Device |-> FALSE]
    /\ configs = 0 /\ flaps = 0 /\ failovers = 0 /\ early = 0

-----------------------------------------------------------------------------
(* What router r does with an advertisement of s that carries priority p,  *)
(* as a function of all the groups.                                        *)

\* _vrrp_elect, which also sets the state of the peer's group object.
Elect(g, r, s, p) ==
    LET wins == g[r].priority > p \/ (g[r].priority = p /\ AnyRank[r] > AnyRank[s])
    IN  [d \in Device |->
            IF d = r THEN [g[r] EXCEPT !.state = IF wins THEN "Master" ELSE "Backup",
                                       !.dead = TRUE]
            ELSE IF d = s /\ Has(g, s)
            THEN [g[s] EXCEPT !.state = IF wins THEN "Backup" ELSE "Master"]
            ELSE g[d]]

\* Mutant of Receive: a Master does not give way.
ReceiveKeep(g, r, s, p) ==
    IF ~Has(g, r) \/ g[r].state = "Master" THEN g
    ELSE IF g[r].state = "Init" THEN Elect(g, r, s, p)
    ELSE [g EXCEPT ![r].dead = TRUE,
                   ![r].state = IF g[r].preempt /\ g[r].priority > p THEN "Master" ELSE "Backup"]

\* vrrp_receive_advert.
Receive(g, r, s, p) ==
    IF ~Has(g, r) THEN g
    ELSE CASE g[r].state = "Init" -> Elect(g, r, s, p)
           [] g[r].state = "Master" ->
                IF p > g[r].priority \/ (p = g[r].priority /\ LanRank[s] > LanRank[r])
                THEN [g EXCEPT ![r].state = "Backup"] ELSE g
           [] g[r].state = "Backup" ->
                [g EXCEPT ![r].dead = TRUE,
                          ![r].state = IF g[r].preempt /\ g[r].priority > p
                                       THEN "Master" ELSE "Backup"]

\* The CLI's negotiation: d receives every configured neighbour's current
\* values, whatever the state of the link.
Negotiated(g, d, order) ==
    FoldLeft(LAMBDA h, s : IF Has(h, s) THEN Receive(h, d, s, h[s].priority) ELSE h, g, order)

\* _vrrp_send_advert: the packet is made once, and goes over live edges only.
Advertised(g, d, order) ==
    FoldLeft(LAMBDA h, r : IF up[d] /\ up[r] THEN Receive(h, r, d, g[d].priority) ELSE h, g, order)

-----------------------------------------------------------------------------
(* The operator.                                                           *)

\* "vrrp ip": a new VrrpGroup; the tasks of the old one are not cancelled.
Configure(d) ==
    /\ configs < MaxConfig
    /\ configs' = configs + 1
    /\ LET new == [state |-> "Init", preempt |-> TRUE, hello |-> TRUE, dead |-> FALSE,
                   priority |-> IF Has(group, d) THEN group[d].priority ELSE Default]
       IN  \E order \in SetToSeqs(Others(d)) :
              group' = Negotiated([group EXCEPT ![d] = new], d, order)
    /\ strayHello' = [strayHello EXCEPT ![d] = @ \/ (Has(group, d) /\ group[d].hello)]
    /\ strayDead' = [strayDead EXCEPT ![d] = IF Has(group, d) /\ group[d].dead THEN @ + 1 ELSE @]
    /\ failed' = [failed EXCEPT ![d] = FALSE]
    /\ UNCHANGED <<up, rising, flaps, failovers, early>>

SetPriority(d, p) ==
    /\ configs < MaxConfig
    /\ Has(group, d)
    /\ configs' = configs + 1
    /\ \E order \in SetToSeqs(Others(d)) :
          group' = Negotiated([group EXCEPT ![d].priority = p], d, order)
    /\ UNCHANGED <<strayHello, strayDead, up, rising, failed, flaps, failovers, early>>

SetPreempt(d, on) ==
    /\ configs < MaxConfig
    /\ Has(group, d)
    /\ configs' = configs + 1
    /\ group' = [group EXCEPT ![d].preempt = on]
    /\ UNCHANGED <<strayHello, strayDead, up, rising, failed, flaps, failovers, early>>

\* shutdown: interface_down.
InterfaceDown(d) ==
    /\ up[d]
    /\ flaps < MaxFlaps
    /\ flaps' = flaps + 1
    /\ up' = [up EXCEPT ![d] = FALSE]
    /\ group' = IF Has(group, d) /\ group[d].state # "Init"
                THEN [group EXCEPT ![d].state = "Init", ![d].dead = FALSE]
                ELSE group
    /\ UNCHANGED <<strayHello, strayDead, rising, failed, configs, failovers, early>>

\* no shutdown: interface_up up to its sleep, and the rest of it, which comes
\* whatever happens to the interface meanwhile.
InterfaceUp(d) ==
    /\ ~up[d]
    /\ up' = [up EXCEPT ![d] = TRUE]
    /\ rising' = [rising EXCEPT ![d] = @ + 1]
    /\ UNCHANGED <<group, strayHello, strayDead, failed, bounds>>

InterfaceIsUp(d) ==
    /\ rising[d] > 0
    /\ rising' = [rising EXCEPT ![d] = @ - 1]
    /\ group' = IF Is(d, "Init") /\ \A p \in Others(d) : ~Has(group, p)
                THEN [group EXCEPT ![d].state = "Master"] ELSE group
    /\ UNCHANGED <<strayHello, strayDead, up, failed, bounds>>

\* vrrp failover: d gives up, and every neighbour that is Backup takes over.
Failover(d) ==
    /\ failovers < MaxFailover
    /\ Is(d, "Master")
    /\ failovers' = failovers + 1
    /\ group' = [e \in Device |->
                    IF e = d THEN [group[d] EXCEPT !.state = "Init", !.hello = FALSE]
                    ELSE IF Is(e, "Backup")
                    THEN [group[e] EXCEPT !.state = "Master", !.dead = FALSE]
                    ELSE group[e]]
    /\ failed' = [failed EXCEPT ![d] = TRUE]
    /\ UNCHANGED <<strayHello, strayDead, up, rising, configs, flaps, early>>

-----------------------------------------------------------------------------
(* The coroutines.                                                         *)

Sends(d) == Has(group, d) /\ (group[d].hello \/ strayHello[d])

\* A hello loop comes round.
Hello(d) ==
    /\ Sends(d)
    /\ \E order \in SetToSeqs(Others(d)) : group' = Advertised(group, d, order)
    /\ UNCHANGED <<strayHello, strayDead, up, rising, failed, bounds>>

\* Somebody's advertisements keep resetting d's dead timer while d is Backup.
Hears(d) == \E s \in Others(d) : up[d] /\ up[s] /\ Sends(s)

Promoted(d) == IF Is(d, "Backup") THEN [group EXCEPT ![d].state = "Master"] ELSE group

\* The dead timer of d's group, and those of the groups it replaced.
DeadTimer(d) ==
    /\ Has(group, d) /\ group[d].dead
    /\ IF Is(d, "Backup") /\ Hears(d) THEN early < MaxEarly /\ early' = early + 1 ELSE UNCHANGED early
    /\ group' = [Promoted(d) EXCEPT ![d].dead = FALSE]
    /\ UNCHANGED <<strayHello, strayDead, up, rising, failed, configs, flaps, failovers>>

StrayDeadTimer(d) ==
    /\ strayDead[d] > 0
    /\ strayDead' = [strayDead EXCEPT ![d] = @ - 1]
    /\ group' = Promoted(d)
    /\ UNCHANGED <<strayHello, up, rising, failed, bounds>>

-----------------------------------------------------------------------------
Next ==
    \/ \E d \in Device : Configure(d)
    \/ \E d \in Device, p \in Priority : SetPriority(d, p)
    \/ \E d \in Device, on \in Preempts : SetPreempt(d, on)
    \/ \E d \in Device : InterfaceDown(d)
    \/ \E d \in Device : InterfaceUp(d)
    \/ \E d \in Device : InterfaceIsUp(d)
    \/ \E d \in Device : Failover(d)
    \/ \E d \in Device : Hello(d)
    \/ \E d \in Device : DeadTimer(d)
    \/ \E d \in Device : StrayDeadTimer(d)

Spec == Init /\ [][Next]_vars

\* Loops and timers go on; the operator owes nothing.
Fairness == \A d \in Device : /\ WF_vars(Hello(d)) /\ WF_vars(InterfaceIsUp(d))
                              /\ WF_vars(DeadTimer(d)) /\ WF_vars(StrayDeadTimer(d))

FairSpec == Spec /\ Fairness

-----------------------------------------------------------------------------
(* Properties.                                                             *)

TypeOK ==
    /\ group \in [Device -> Group \cup {NoGroup}]
    /\ strayHello \in [Device -> BOOLEAN] /\ strayDead \in [Device -> Nat]
    /\ up \in [Device -> BOOLEAN] /\ rising \in [Device -> Nat]
    /\ failed \in [Device -> BOOLEAN]
    /\ configs \in Nat /\ flaps \in Nat /\ failovers \in Nat /\ early \in Nat

Running == {d \in Device : up[d] /\ Has(group, d)}

\* The group in good order: among the routers that could serve the virtual
\* address one is Master, and no other has a better claim by priority.
OneMaster == \E m \in Running :
    \A d \in Running : /\ Is(d, "Master") <=> d = m
                       /\ group[d].priority <= group[m].priority

\* Two or more routers serve the virtual address for good, all of them
\* preempt, none was failed since it was configured, and no two have the same
\* priority.
Stable == \E S \in SUBSET Device :
    <>[](/\ Running = S
         /\ \E d, e \in S : d # e
         /\ \A d \in S : group[d].preempt /\ ~failed[d]
         /\ \A d, e \in S : group[d].priority = group[e].priority => d = e)

\* Whatever was configured, failed, shut, brought back and timed out in any
\* order: in a group that has become stable in the end exactly one router is
\* Master, the one of highest priority, and it stays so.
MasterSettles == Stable => <>[]OneMaster

\* In a group of any size the router of highest priority is Master in the end
\* and stays so, whatever the others take themselves for.
HighestServes ==
    Stable => <>[](\E m \in Running : /\ Is(m, "Master")
                                      /\ \A d \in Running : group[d].priority <= group[m].priority)

\* The class comment: dead_interval after the Master is gone a Backup is
\* promoted.  A router does not stay Backup for ever unless it hears a Master.
BackupsPromote ==
    \A d \in Device :
        [](Is(d, "Backup") /\ up[d]
              => <>(~Is(d, "Backup") \/ \E m \in Others(d) : up[m] /\ Is(m, "Master")))

\* interface_down's comment: a router whose interface is down is in Init.
ShutRouterIsInit == \A d \in Device : (~up[d] /\ Has(group, d)) => Is(d, "Init")

\* interface_up's comment: with no peer, or with its peers down as well, a
\* router becomes Master when its interface comes up.
LoneRouterServes ==
    [][\A d \in Device :
          (rising'[d] < rising[d] /\ up'[d] /\ Is(d, "Init") /\ \A p \in Others(d) : ~up[p])
              => group'[d].state = "Master"]_vars

\* vrrp_failover's comment: it simulates the failure of the Master.  The
\* failed router does not serve again before it is reconfigured.
FailedStaysDown == \A d \in Device : failed[d] => ~Is(d, "Master")

\* The class comment: of two routers of one priority the one with the larger
\* IP address is preferred.  The other is not Master while it is Backup.
LargerAddressWins ==
    \A d, e \in Device :
        (Is(d, "Master") /\ Is(e, "Backup") /\ group[d].priority = group[e].priority)
            => NumRank[d] > NumRank[e]
=============================================================================
