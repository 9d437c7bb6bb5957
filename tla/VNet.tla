-------------------------------- MODULE VNet --------------------------------
(***************************************************************************)
(* The virtual wiring of the lab: class VirtualNetwork of                  *)
(* engine/protocols.py with the REST handlers of app.py that edit it.      *)
(*                                                                         *)
(* A pair of devices may be joined by several cables.  The code does not   *)
(* keep cables: it keeps, per device and peer, the set of local interface  *)
(* names ever used towards that peer (link_ifaces), the last one used      *)
(* (interface_links) and, per device, the interfaces that are shut down.   *)
(* The variable "cables" is a history variable: the cables the user        *)
(* plugged in and has not unplugged.  No guard and no other variable reads *)
(* it; the properties compare the code's verdicts with it.                 *)
(*                                                                         *)
(* Every method here runs without an await, so each is one action.         *)
(***************************************************************************)
EXTENDS Naturals, FiniteSets

CONSTANTS
    Device,      \* device ids
    Iface,       \* interface names, long and abbreviated
    NoIface,     \* the API's missing interface name (None)
    Norm,        \* what _norm_iface makes of a name
    LinkName,    \* names the link API is called with, NoIface perhaps among them
    CliName,     \* names the CLI shuts and unshuts interfaces by
    Nets,        \* the IP networks configured on each device
    PortVlans,   \* the VLANs of each device's switch ports
    TagVlans,    \* the 802.1Q tags of each device's subinterfaces
    Runs,        \* the devices speaking the flooded protocol
    SyncRequests,  \* the link lists /api/links/sync is called with
    MaxCables    \* bound: cables plugged in at a time

ASSUME DeviceAssumption == IsFiniteSet(Device) /\ Runs \subseteq Device
ASSUME NoIfaceAssumption == NoIface \notin Iface
ASSUME NameAssumption == LinkName \subseteq Iface \cup {NoIface} /\ CliName \subseteq Iface
ASSUME NormAssumption == Iface \subseteq DOMAIN Norm
ASSUME SyncAssumption ==
    SyncRequests \subseteq
        SUBSET (Device \X (Iface \cup {NoIface}) \X Device \X (Iface \cup {NoIface}))

VARIABLES
    links,            \* device -> peers
    interface_links,  \* device -> peer -> the last interface name given, or NoIface
    link_ifaces,      \* device -> peer -> every interface name given
    down_interfaces,  \* device -> shut down interface names
    cables            \* history: <<a, i, b, j>> in both directions

vars == <<links, interface_links, link_ifaces, down_interfaces, cables>>

OptIface == Iface \cup {NoIface}
Named(i) == {i} \ {NoIface}

-----------------------------------------------------------------------------
(* The questions the engines ask of the wiring.                            *)

\* ifaces_between: every local name from a towards b.
IfacesBetween(a, b) == link_ifaces[a][b] \cup Named(interface_links[a][b])

\* The normalised names of the interfaces shut on d.
DownPorts(d) == {Norm[x] : x \in down_interfaces[d]}

UpIfacesBetween(a, b) == {i \in IfacesBetween(a, b) : Norm[i] \notin DownPorts(a)}

\* Mutant of EndUp: the end is down as soon as one interface is.
EndUpAll(a, b) == \A i \in link_ifaces[a][b] : Norm[i] \notin DownPorts(a)

\* One end of _edge_up: some interface towards the peer is up, or none is known.
EndUp(a, b) ==
    \/ link_ifaces[a][b] = {}
    \/ \E i \in link_ifaces[a][b] : Norm[i] \notin DownPorts(a)

EdgeUp(a, b) ==
    \/ link_ifaces[a][b] = {} /\ link_ifaces[b][a] = {}
    \/ EndUp(a, b) /\ EndUp(b, a)

ActiveNeighbors(d) == {p \in links[d] : EdgeUp(d, p)}

\* Mutant of AllShut: a path without interface names counts as shut.
AllShutUnnamed(a, b) == UpIfacesBetween(a, b) = {}

\* The sender's own test for a shut path, in broadcast_to_neighbors and
\* _live_neighbors.
AllShut(a, b) == IfacesBetween(a, b) # {} /\ UpIfacesBetween(a, b) = {}

LiveNeighbors(d) == {p \in links[d] : ~AllShut(d, p) /\ EdgeUp(d, p)}

VlanTagsCompatible(a, b) ==
    TagVlans[a] = {} \/ TagVlans[b] = {} \/ TagVlans[a] \cap TagVlans[b] # {}

SharesSegment(a, b) ==
    IF PortVlans[a] # {} /\ PortVlans[b] # {}
    THEN PortVlans[a] \cap PortVlans[b] # {}
    ELSE /\ VlanTagsCompatible(a, b)
         /\ Nets[a] = {} \/ Nets[b] = {} \/ Nets[a] \cap Nets[b] # {}

\* The peers the loop of broadcast_to_neighbors hands a routing packet to.
DirectTargets(s) ==
    {p \in links[s] : /\ EdgeUp(s, p)
                      /\ down_interfaces[s] # {} => ~AllShut(s, p)
                      /\ SharesSegment(s, p)}

\* Mutant of RelaysWithin: relays are searched over links that are shut, too.
RelaysOverLinks(s) ==
    LET relays[n \in 0 .. Cardinality(Device \ Runs)] ==
            IF n = 0 THEN links[s] \ (Runs \cup {s})
            ELSE relays[n - 1] \cup {p \in Device \ (Runs \cup {s}) :
                                        \E w \in relays[n - 1] : p \in links[w]}
    IN  relays[Cardinality(Device \ Runs)]

\* The relays _flood_through_switches reaches from s in at most n hops.
RelaysWithin(s) ==
    LET relays[n \in 0 .. Cardinality(Device \ Runs)] ==
            IF n = 0
            THEN LiveNeighbors(s) \ (Runs \cup {s})
            ELSE LET seen == relays[n - 1]
                 IN  seen \cup {p \in Device \ (Runs \cup {s}) :
                                   \E w \in seen : p \in LiveNeighbors(w)}
    IN  relays[Cardinality(Device \ Runs)]

\* The speakers behind those relays; the direct live neighbours were served
\* by the loop already.
FloodTargets(s) ==
    LET relays == RelaysWithin(s)
    IN  {p \in Runs \ (LiveNeighbors(s) \cup {s}) :
            /\ \E w \in relays : p \in LiveNeighbors(w)
            /\ SharesSegment(s, p)}

BroadcastTargets(s) == DirectTargets(s) \cup FloodTargets(s)

PeersOnInterface(d, iface) ==
    {p \in links[d] : \E x \in IfacesBetween(d, p) : Norm[x] = Norm[iface]}

\* What RipEngine._send_update and EigrpEngine._send_update ask instead of
\* _edge_up before they send to a linked peer.
UpdateSends(a, b) ==
    /\ b \in links[a]
    /\ ~(interface_links[a][b] # NoIface /\ interface_links[a][b] \in down_interfaces[a])

-----------------------------------------------------------------------------
Init ==
    /\ links = [d \in Device |-> {}]
    /\ interface_links = [d \in Device |-> [p \in Device |-> NoIface]]
    /\ link_ifaces = [d \in Device |-> [p \in Device |-> {}]]
    /\ down_interfaces = [d \in Device |-> {}]
    /\ cables = {}

\* A link entry <<a, i, b, j>> names interface i of a and j of b.  The names
\* the entries L give for a's interfaces towards b:
BothWays(L) == L \cup {<<e[3], e[4], e[1], e[2]>> : e \in L}
EntriesFrom(L, a, b) == {e \in BothWays(L) : e[1] = a /\ e[3] = b}

\* Mutant of NamesGiven: a missing name is stored like a name.
NamesGivenOrNone(L, a, b) == {e[2] : e \in EntriesFrom(L, a, b)}

NamesGiven(L, a, b) == {e[2] : e \in EntriesFrom(L, a, b)} \ {NoIface}

NamesAdded(L) == [a \in Device |-> [b \in Device |->
                     link_ifaces[a][b] \cup NamesGiven(L, a, b)]]

\* POST /api/link
AddLink(a, b, i, j) ==
    /\ Cardinality(cables) < 2 * MaxCables
    /\ links' = [links EXCEPT ![a] = @ \cup {b}, ![b] = @ \cup {a}]
    /\ interface_links' = [interface_links EXCEPT
                             ![a][b] = IF i = NoIface THEN @ ELSE i,
                             ![b][a] = IF j = NoIface THEN @ ELSE j]
    /\ link_ifaces' = NamesAdded({<<a, i, b, j>>})
    /\ cables' = cables \cup BothWays({<<a, i, b, j>>})
    /\ UNCHANGED down_interfaces

\* DELETE /api/link: the interface names of the pair are kept.
RemoveLink(a, b) ==
    /\ links' = [links EXCEPT ![a] = @ \ {b}, ![b] = @ \ {a}]
    /\ cables' = {c \in cables : {c[1], c[3]} # {a, b}}
    /\ UNCHANGED <<interface_links, link_ifaces, down_interfaces>>

InterfaceDown(d, iface) ==
    /\ down_interfaces' = [down_interfaces EXCEPT ![d] = @ \cup {iface}]
    /\ UNCHANGED <<links, interface_links, link_ifaces, cables>>

InterfaceUp(d, iface) ==
    /\ down_interfaces' = [down_interfaces EXCEPT ![d] = @ \ {iface}]
    /\ UNCHANGED <<links, interface_links, link_ifaces, cables>>

\* The device's WebSocket closed: its links go.
Unregister(d) ==
    /\ links' = [x \in Device |-> IF x = d THEN {} ELSE links[x] \ {d}]
    /\ cables' = {c \in cables : d \notin {c[1], c[3]}}
    /\ UNCHANGED <<interface_links, link_ifaces, down_interfaces>>

\* DELETE /api/device: the device's own tables go too, link_ifaces stays.
RemoveDevice(d) ==
    /\ links' = [x \in Device |-> IF x = d THEN {} ELSE links[x] \ {d}]
    /\ interface_links' = [interface_links EXCEPT ![d] = [p \in Device |-> NoIface]]
    /\ down_interfaces' = [down_interfaces EXCEPT ![d] = {}]
    /\ cables' = {c \in cables : d \notin {c[1], c[3]}}
    /\ UNCHANGED link_ifaces

\* POST /api/links/sync with the entries L: links and interface_links are
\* rebuilt by adding the entries one by one, link_ifaces is only added to.
\* The last entry that names an end wins it, so the winners of the two ends
\* of a pair differ only if one of them leaves the other end unnamed.
AllNames(L) == {e[2] : e \in BothWays(L)} \ {NoIface}

LastWins(L, il) ==
    /\ \A a, b \in Device :
          IF NamesGiven(L, a, b) = {} THEN il[a][b] = NoIface
                                      ELSE il[a][b] \in NamesGiven(L, a, b)
    /\ \A a, b \in Device :
          \/ EntriesFrom(L, a, b) = {}
          \/ \E e \in EntriesFrom(L, a, b) : e[2] = il[a][b] /\ e[4] = il[b][a]
          \/ <<a, il[a][b], b, NoIface>> \in BothWays(L)
          \/ <<a, NoIface, b, il[b][a]>> \in BothWays(L)

\* The tables that name an end of a linked pair, and nothing else.
Ends(L) == {<<e[1], e[3]>> : e \in BothWays(L)}

Rebuilt(L) ==
    {[a \in Device |-> [b \in Device |->
        IF <<a, b>> \in Ends(L) THEN w[<<a, b>>] ELSE NoIface]] :
        w \in [Ends(L) -> AllNames(L) \cup {NoIface}]}

SyncLinks(L) ==
    /\ links' = [a \in Device |-> {b \in Device : EntriesFrom(L, a, b) # {}}]
    /\ \E il \in Rebuilt(L) : LastWins(L, il) /\ interface_links' = il
    /\ link_ifaces' = NamesAdded(L)
    /\ cables' = BothWays(L)
    /\ UNCHANGED down_interfaces

Next ==
    \/ \E a, b \in Device, i, j \in LinkName : a # b /\ AddLink(a, b, i, j)
    \/ \E a, b \in Device : b \in links[a] /\ RemoveLink(a, b)
    \/ \E d \in Device, iface \in CliName : InterfaceDown(d, iface)
    \/ \E d \in Device, iface \in CliName : InterfaceUp(d, iface)
    \/ \E d \in Device : Unregister(d)
    \/ \E d \in Device : RemoveDevice(d)
    \/ \E L \in SyncRequests : SyncLinks(L)

Spec == Init /\ [][Next]_vars
-----------------------------------------------------------------------------
(* Properties.                                                             *)

\* Every table is keyed by devices and holds interface names.
TypeOK ==
    /\ links \in [Device -> SUBSET Device]
    /\ interface_links \in [Device -> [Device -> OptIface]]
    /\ link_ifaces \in [Device -> [Device -> SUBSET Iface]]
    /\ down_interfaces \in [Device -> SUBSET Iface]
    /\ cables \subseteq Device \X OptIface \X Device \X OptIface

\* A link is known at both of its ends, whatever mix of the link API, the
\* device removal and closing WebSockets produced it.
LinksSymmetric == \A a, b \in Device : b \in links[a] <=> a \in links[b]

\* The one name interface_links remembers is always among link_ifaces' names.
LastNameKept ==
    \A a, b \in Device : interface_links[a][b] # NoIface
                            => interface_links[a][b] \in link_ifaces[a][b]

\* Every name a plugged cable has is among link_ifaces' names.
CablesKnown ==
    \A c \in cables : /\ c[2] # NoIface => c[2] \in link_ifaces[c[1]][c[3]]
                      /\ c[4] # NoIface => c[4] \in link_ifaces[c[3]][c[1]]

\* The two computations of "the neighbours behind a live link", active_neighbors
\* (both ends' names) and _live_neighbors (the sender's names first), agree.
LiveNeighborsAgree == \A d \in Device : LiveNeighbors(d) = ActiveNeighbors(d)

\* A routing packet broadcast by a reaches b exactly if one broadcast by b
\* reaches a: an interface shut at either end, on any cable, on the way
\* through relaying switches too, cuts both directions.
DeliverySymmetric ==
    \A a, b \in Runs : b \in BroadcastTargets(a) <=> a \in BroadcastTargets(b)

\* The same for the packets handed over the direct link only.
DirectDeliverySymmetric ==
    \A a, b \in Device : b \in DirectTargets(a) <=> a \in DirectTargets(b)

\* A cable is live when neither of its ends is shut.
Live(c) == /\ c[2] = NoIface \/ Norm[c[2]] \notin DownPorts(c[1])
           /\ c[4] = NoIface \/ Norm[c[4]] \notin DownPorts(c[3])

\* As long as one cable with named ends is live, _edge_up says so: shutting a
\* parallel link, or replugging others, never cuts the pair.
LiveCableKeepsEdgeUp ==
    \A c \in cables : (NoIface \notin {c[2], c[4]} /\ Live(c)) => EdgeUp(c[1], c[3])

\* _edge_up's docstring: True if even one physical link between a and b lives;
\* conversely a linked pair none of whose cables lives is not up.
EdgeUpOnlyWithLiveCable ==
    \A a, b \in Device : (b \in links[a] /\ EdgeUp(a, b))
        => \E c \in cables : c[1] = a /\ c[3] = b /\ Live(c)

\* An update is sent only over an edge that is up, as every other packet is.
UpdatesFollowEdge == \A a, b \in Device : UpdateSends(a, b) => EdgeUp(a, b)

\* add_link's comment: the adjacency is cut only when every interface of one
\* side is down.  PeersOnInterface are the peers whose protocol sessions
\* app.py's shutdown handler tears down after the interface went down.
ShutdownCutsOnlyDeadPeers ==
    [][\A d \in Device, iface \in CliName :
          (/\ iface \notin down_interfaces[d]
           /\ iface \in down_interfaces'[d])
             => \A p \in PeersOnInterface(d, iface)' : ~EdgeUp(d, p)']_vars
=============================================================================
