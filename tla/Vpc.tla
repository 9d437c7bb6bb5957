-------------------------------- MODULE Vpc --------------------------------
(***************************************************************************)
(* Class VpcEngine (engine/protocols.py): the keepalive loops of Nexus     *)
(* switches, the election of their roles, the peer link and the member     *)
(* ports, and the two failures an operator can simulate.                   *)
(*                                                                         *)
(* A keepalive is handled inside the sender's loop, which waits while the  *)
(* receiver's logs are written. Time passes in intervals (1 s in the code): *)
(* in each, every loop takes one turn and the logs of that turn are        *)
(* written. Feature flags and options that are only shown are left out.    *)
(***************************************************************************)
EXTENDS Integers

CONSTANTS
    Device,     \* switches
    Domain,     \* vPC domain numbers
    Address,    \* addresses of keepalive interfaces
    Vrf,        \* their VRFs
    Rank,       \* role priorities, and numbers that stand for system MACs
    VpcId,      \* numbers of member ports
    Timeout,    \* intervals without a keepalive that are tolerated, 5 in the code
    Setup,      \* device -> the configuration that it starts with
    Nobody,     \* no device
    None,       \* no domain, no address
    MaxConfig   \* bound: commands

ASSUME VpcAssumption ==
    /\ Timeout \in Nat \ {0} /\ Rank \subseteq Nat /\ Nobody \notin Device
    /\ \E r \in Rank : \A q \in Rank : q <= r
    /\ MaxConfig \in Nat
    /\ None \notin Domain \cup Address
    /\ Setup \in [Device -> [dom : Domain \cup {None}, src : Address \cup {None},
                             dest : Address \cup {None}, vrf : Vrf, mac : Rank,
                             peerlink : BOOLEAN, ports : SUBSET VpcId]]

VARIABLES
    sw,         \* device -> its VpcDomain
    peers,      \* device -> the peer it remembers, or Nobody
    loop,       \* device -> its keepalive task
    due,        \* the loops whose turn of this interval is left
    rising,     \* tasks of set_peer_link that have not started
    configs     \* bound

vars == <<sw, peers, loop, due, rising, configs>>

Role == {"none", "primary", "secondary", "primary (oper)"}
Switch == [dom : Domain \cup {None}, src : Address \cup {None}, dest : Address \cup {None},
           vrf : Vrf, mac : Rank, priority : Rank, role : Role,
           alive : {"pending", "alive", "dead"}, age : 0 .. Timeout + 1,
           peerlink : BOOLEAN, up : BOOLEAN,
           port : [VpcId -> {"none", "up", "down", "suspended"}]]

\* A loop is where it is, and the switch its keepalive of this turn went to.
At(pc, p) == [pc |-> pc, to |-> p]
Loop == [pc : {"off", "starting", "asleep", "received", "elected"}, to : Device \cup {Nobody}]
Exists(d) == sw[d].dom # None

Init ==
    /\ sw = [d \in Device |->
                [dom |-> Setup[d].dom, src |-> Setup[d].src, dest |-> Setup[d].dest,
                 vrf |-> Setup[d].vrf, mac |-> Setup[d].mac,
                 priority |-> CHOOSE r \in Rank : \A q \in Rank : q <= r,
                 role |-> "none", alive |-> "pending", age |-> 0,
                 peerlink |-> Setup[d].peerlink, up |-> FALSE,
                 port |-> [v \in VpcId |-> IF v \in Setup[d].ports THEN "down" ELSE "none"]]]
    /\ peers = [d \in Device |-> Nobody]
    /\ loop = [d \in Device |->
                At(IF Setup[d].dest = None THEN "off" ELSE "starting", Nobody)]
    /\ due = {} /\ rising = {} /\ configs = 0

-----------------------------------------------------------------------------
(* _find_peer: the remembered peer, or else a switch whose addresses fit.  *)

Fits(d, p) ==
    /\ p # d /\ sw[p].dom = sw[d].dom
    /\ sw[d].dest # None /\ sw[d].src # None
    /\ sw[p].dest = sw[d].src /\ sw[d].dest = sw[p].src /\ sw[p].vrf = sw[d].vrf
Found(d) ==
    IF peers[d] # Nobody THEN {peers[d]}
    ELSE LET fit == {p \in Device : Fits(d, p)} IN IF fit = {} THEN {Nobody} ELSE fit
Remember(d, p) ==
    IF peers[d] # Nobody \/ p = Nobody THEN peers ELSE [peers EXCEPT ![d] = p, ![p] = d]

\* receive_keepalive accepts at p what d sends.
Admits(p, d) ==
    /\ Exists(p) /\ sw[p].dom = sw[d].dom
    /\ sw[d].dest = None \/ sw[p].src = None \/ sw[d].dest = sw[p].src

\* A switch whose own check finds that keepalives stay away.
Checked(s, d) == IF s[d].alive = "alive" /\ s[d].age > Timeout
                 THEN [s EXCEPT ![d].alive = "dead"] ELSE s

\* _elect_role, up to its logs.
Outranks(a, b) == a.priority < b.priority \/ (a.priority = b.priority /\ a.mac < b.mac)
Elected(a, b) ==
    LET first == Outranks(sw[a], sw[b])
    IN  [sw EXCEPT ![a].role = IF first THEN "primary" ELSE "secondary",
                   ![b].role = IF first THEN "secondary" ELSE "primary"]

\* Mutant of Risen: only the end that heard the keepalive raises the link.
RisenHere(s, a, b) ==
    IF ~(s[a].peerlink /\ s[b].peerlink) THEN s
    ELSE [s EXCEPT ![a].up = TRUE,
                   ![a].port = [v \in VpcId |-> IF @[v] = "none" THEN "none" ELSE "up"]]
\* _bring_up_peer_link.
Risen(s, a, b) ==
    IF ~(s[a].peerlink /\ s[b].peerlink) THEN s
    ELSE [d \in Device |->
            IF d \in {a, b}
            THEN [s[d] EXCEPT !.up = TRUE,
                    !.port = [v \in VpcId |-> IF @[v] = "none" THEN "none" ELSE "up"]]
            ELSE s[d]]

-----------------------------------------------------------------------------
(* _keepalive_loop.                                                        *)

Begin(d) ==
    /\ loop[d].pc = "starting"
    /\ \E p \in Found(d) : peers' = Remember(d, p)
    /\ loop' = [loop EXCEPT ![d] = At("asleep", Nobody)]
    /\ UNCHANGED <<sw, due, rising, configs>>

\* Mutants of Heard: the time is kept at a transition only; a sender takes itself for alive.
HeardOnce(d, p) ==
    [sw EXCEPT ![p].alive = "alive", ![p].age = IF sw[p].alive = "alive" THEN @ ELSE 0]
HeardSent(d, p) ==
    [sw EXCEPT ![d].alive = "alive", ![d].age = 0]
\* The receiver of a keepalive that fits.
Heard(d, p) == [sw EXCEPT ![p].alive = "alive", ![p].age = 0]

\* One turn: a keepalive to the peer and, unless its logs have to be waited for, the check.
Turn(d) ==
    /\ d \in due /\ due' = due \ {d}
    /\ \E p \in Found(d) :
        LET known == Remember(d, p)
            reaches == IF p = Nobody THEN FALSE ELSE Admits(p, d)
        IN  /\ peers' = IF reaches /\ known[p] = Nobody THEN [known EXCEPT ![p] = d] ELSE known
            /\ IF reaches /\ sw[p].alive # "alive"
               THEN sw' = Heard(d, p) /\ loop' = [loop EXCEPT ![d] = At("received", p)]
               ELSE /\ sw' = Checked(IF reaches THEN Heard(d, p) ELSE sw, d)
                    /\ UNCHANGED loop
    /\ UNCHANGED <<rising, configs>>

\* The receiver's first log is written, and it elects.
Elect(d) ==
    /\ loop[d].pc = "received"
    /\ sw' = Elected(loop[d].to, d)
    /\ loop' = [loop EXCEPT ![d].pc = "elected"]
    /\ UNCHANGED <<peers, due, rising, configs>>

\* The logs of the election are written.
Raise(d) ==
    /\ loop[d].pc = "elected"
    /\ sw' = Checked(Risen(sw, loop[d].to, d), d)
    /\ loop' = [loop EXCEPT ![d] = At("asleep", Nobody)]
    /\ UNCHANGED <<peers, due, rising, configs>>

\* The task that set_peer_link started.
Rise(x) ==
    /\ x \in rising /\ rising' = rising \ {x}
    /\ sw' = Risen(sw, x[1], x[2])
    /\ UNCHANGED <<peers, loop, due, configs>>

Tick ==
    /\ due = {} /\ rising = {}
    /\ \A d \in Device : loop[d].pc \in {"off", "asleep"}
    /\ due' = {d \in Device : loop[d].pc = "asleep"}
    /\ sw' = [d \in Device |-> [sw[d] EXCEPT !.age = IF @ > Timeout THEN @ ELSE @ + 1]]
    /\ UNCHANGED <<peers, loop, rising, configs>>

-----------------------------------------------------------------------------
(* Commands of the operator.                                               *)

Configure == configs < MaxConfig /\ configs' = configs + 1

\* create_domain: an existing domain only takes the new number.
CreateDomain(d, dom) ==
    /\ Configure
    /\ sw' = [sw EXCEPT ![d].dom = dom]
    /\ UNCHANGED <<peers, loop, due, rising>>

\* set_keepalive: the running loop is cancelled wherever it is.
SetKeepalive(d, src, dest, vrf) ==
    /\ Configure /\ Exists(d)
    /\ sw' = [sw EXCEPT ![d].src = src, ![d].dest = dest, ![d].vrf = vrf]
    /\ loop' = [loop EXCEPT ![d] = At("starting", Nobody)]
    /\ due' = due \ {d}
    /\ UNCHANGED <<peers, rising>>

\* set_role_priority and system-mac
SetRank(d, r) ==
    /\ Configure /\ Exists(d)
    /\ sw' = [sw EXCEPT ![d].priority = r] \/ sw' = [sw EXCEPT ![d].mac = r]
    /\ UNCHANGED <<peers, loop, due, rising>>

\* set_peer_link
SetPeerLink(d) ==
    /\ Configure /\ Exists(d)
    /\ sw' = [sw EXCEPT ![d].peerlink = TRUE]
    /\ rising' = IF peers[d] # Nobody /\ sw[d].alive = "alive"
                 THEN rising \cup {<<d, peers[d]>>} ELSE rising
    /\ UNCHANGED <<peers, loop, due>>

AddMember(d, v) ==
    /\ Configure /\ Exists(d)
    /\ sw' = [sw EXCEPT ![d].port[v] = IF sw[d].up THEN "up" ELSE "down"]
    /\ UNCHANGED <<peers, loop, due, rising>>

\* simulate_peer_failure: a failed switch sends no more, and goes on receiving.
PeerFails(d) ==
    /\ Configure /\ Exists(d)
    /\ loop' = [loop EXCEPT ![d] = At("off", Nobody)]
    /\ due' = due \ {d}
    /\ LET p == peers[d]
           down == [sw EXCEPT ![d].alive = "dead"]
       IN  sw' = IF p = Nobody THEN down
                 ELSE [down EXCEPT ![p].alive = "dead",
                                   ![p].role = IF @ = "secondary" THEN "primary (oper)" ELSE @]
    /\ UNCHANGED <<peers, rising>>

\* simulate_peer_link_failure
LinkFails(d) ==
    /\ Configure /\ Exists(d)
    /\ LET p == peers[d]
           down == [sw EXCEPT ![d].up = FALSE]
           suspended == [v \in VpcId |-> IF sw[p].port[v] = "none" THEN "none" ELSE "suspended"]
       IN  sw' = IF p = Nobody THEN down
                 ELSE [down EXCEPT ![p].up = FALSE,
                                   ![p].port = IF sw[p].role \in {"secondary", "none"}
                                               THEN suspended ELSE @]
    /\ UNCHANGED <<peers, loop, due, rising>>

Command ==
    \E d \in Device :
        \/ \E dom \in Domain : CreateDomain(d, dom)
        \/ \E src \in Address \cup {None}, dest \in Address, vrf \in Vrf :
              SetKeepalive(d, src, dest, vrf)
        \/ \E r \in Rank : SetRank(d, r)
        \/ SetPeerLink(d)
        \/ \E v \in VpcId : AddMember(d, v)
        \/ PeerFails(d)
        \/ LinkFails(d)
Background ==
    \/ \E d \in Device : Begin(d) \/ Turn(d) \/ Elect(d) \/ Raise(d)
    \/ \E x \in rising : Rise(x)
    \/ Tick
Next == Command \/ Background
Spec == Init /\ [][Next]_vars

\* Sleeps end, logs are written and started tasks run.
FairSpec ==
    /\ Spec
    /\ \A d \in Device : WF_vars(Begin(d)) /\ WF_vars(Turn(d)) /\ WF_vars(Elect(d))
                         /\ WF_vars(Raise(d))
    /\ \A x \in Device \X Device : WF_vars(Rise(x))
    /\ WF_vars(Tick)

-----------------------------------------------------------------------------
(* Properties.                                                             *)

TypeOK ==
    /\ sw \in [Device -> Switch]
    /\ peers \in [Device -> Device \cup {Nobody}] /\ \A d \in Device : peers[d] # d
    /\ loop \in [Device -> Loop]
    /\ due \subseteq {d \in Device : loop[d].pc = "asleep"}
    /\ rising \subseteq Device \X Device
    /\ configs \in 0 .. MaxConfig

\* The peer that a switch remembers remembers it.
PeersMutual == \A d \in Device : peers[d] # Nobody => peers[peers[d]] = d

\* Both ends say the same of the peer link, whose state each end keeps for itself, and a
\* member port is suspended only while it is down.
PeerLinkAgrees ==
    \A d \in Device :
        /\ sw[d].up => peers[d] # Nobody /\ sw[peers[d]].up
        /\ sw[d].up => \A v \in VpcId : sw[d].port[v] \in {"none", "up"}

\* The loop of d runs, and no switch has d as its peer and addresses keepalives to it.
Unheard(d) ==
    /\ loop[d].pc # "off"
    /\ \A p \in Device \ {d} : peers[p] = d => loop[p].pc = "off" \/ ~Admits(d, p)
\* A switch that nobody addresses is not told that its peer is alive: the comments at
\* protocols.py:331 and 9506, on a mistyped destination.
SilenceIsNoticed == \A d \in Device : <>[]Unheard(d) => <>[](sw[d].alive # "alive")

\* Two switches whose configurations fit, with both loops running, become alive and stay so.
Fitting(d, p) == Fits(d, p) /\ loop[d].pc # "off" /\ loop[p].pc # "off"
PairComesAlive ==
    \A d, p \in Device :
        <>[]Fitting(d, p) => <>[](sw[d].alive = "alive" /\ sw[p].alive = "alive")

\* ... and one is primary, the other secondary (the election of protocols.py:9412).
RolesSettle ==
    \A d, p \in Device :
        <>[]Fitting(d, p) => <>[]({sw[d].role, sw[p].role} = {"primary", "secondary"})

\* When the peer link goes down, the ports of the secondary are suspended (protocols.py:9418).
SecondarySuspends == [][\A d \in Device :
    (sw[d].up /\ ~sw'[d].up /\ sw[d].role = "secondary")
        => \A v \in VpcId : sw'[d].port[v] # "up"]_vars
=============================================================================
