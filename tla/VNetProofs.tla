----------------------------- MODULE VNetProofs -----------------------------
(***************************************************************************)
(* Proofs about VNet, for any devices, interface names, addresses and      *)
(* VLANs.  The inductive invariant is                                      *)
(* TypeOK /\ LinksSymmetric /\ LastNameKept /\ CablesKnown.                *)
(***************************************************************************)
EXTENDS VNet, FiniteSetTheorems, WellFoundedInduction, TLAPS

\* What every reachable wiring satisfies.
IInv == TypeOK /\ LinksSymmetric /\ LastNameKept /\ CablesKnown

\* The initial, empty wiring satisfies the invariant.
LEMMA InitIInv == Init => IInv
  BY NoIfaceAssumption
  DEF Init, IInv, TypeOK, LinksSymmetric, LastNameKept, CablesKnown, OptIface

\* The optional names that a link request carries.
LEMMA LinkNameType == LinkName \subseteq OptIface
  BY NameAssumption DEF OptIface

\* The links a request stands for are closed under swapping their ends.
LEMMA BothWaysFlip ==
  ASSUME NEW L \in SUBSET (Device \X OptIface \X Device \X OptIface), NEW c \in BothWays(L)
  PROVE  <<c[3], c[4], c[1], c[2]>> \in BothWays(L)
<1>1. CASE c \in L
  BY <1>1 DEF BothWays
<1>2. CASE \E f \in L : c = <<f[3], f[4], f[1], f[2]>>
  <2>1. PICK f \in L : c = <<f[3], f[4], f[1], f[2]>>
    BY <1>2
  <2>2. f = <<f[1], f[2], f[3], f[4]>>
    OBVIOUS
  <2>3. QED
    BY <2>1, <2>2 DEF BothWays
<1>3. QED
  BY <1>1, <1>2 DEF BothWays

\* What the shared helper of add_link and sync_links does with link_ifaces:
\* names are only added, each named end of an entry is recorded.
LEMMA NamesAddedFacts ==
  ASSUME TypeOK, NEW L \in SUBSET (Device \X OptIface \X Device \X OptIface)
  PROVE  /\ NamesAdded(L) \in [Device -> [Device -> SUBSET Iface]]
         /\ BothWays(L) \subseteq Device \X OptIface \X Device \X OptIface
         /\ \A x, y \in Device : link_ifaces[x][y] \subseteq NamesAdded(L)[x][y]
         /\ \A x, y \in Device : NamesGiven(L, x, y) \subseteq NamesAdded(L)[x][y]
         /\ \A c \in BothWays(L) :
               /\ c[2] # NoIface => c[2] \in NamesAdded(L)[c[1]][c[3]]
               /\ c[4] # NoIface => c[4] \in NamesAdded(L)[c[3]][c[1]]
<1>1. BothWays(L) \subseteq Device \X OptIface \X Device \X OptIface
  BY DEF BothWays
<1>2. ASSUME NEW x \in Device, NEW y \in Device
      PROVE  NamesGiven(L, x, y) \subseteq Iface
  BY <1>1 DEF NamesGiven, EntriesFrom, OptIface
<1>3. NamesAdded(L) \in [Device -> [Device -> SUBSET Iface]]
  BY <1>2 DEF NamesAdded, TypeOK
<1>4. \A x, y \in Device : NamesAdded(L)[x][y] = link_ifaces[x][y] \cup NamesGiven(L, x, y)
  BY DEF NamesAdded
<1>5. ASSUME NEW c \in BothWays(L), c[2] # NoIface
      PROVE  c[2] \in NamesAdded(L)[c[1]][c[3]]
  <2>1. c[1] \in Device /\ c[3] \in Device
    BY <1>1
  <2>2. c[2] \in NamesGiven(L, c[1], c[3])
    BY <1>5 DEF NamesGiven, EntriesFrom
  <2>3. QED
    BY <1>4, <2>1, <2>2
<1>6. ASSUME NEW c \in BothWays(L), c[4] # NoIface
      PROVE  c[4] \in NamesAdded(L)[c[3]][c[1]]
  <2>1. <<c[3], c[4], c[1], c[2]>> \in BothWays(L)
    BY BothWaysFlip
  <2>2. QED
    BY <1>5, <1>6, <2>1
<1>7. QED
  BY <1>1, <1>3, <1>4, <1>5, <1>6

\* POST /api/link keeps the invariant.
LEMMA AddLinkIInv ==
  ASSUME IInv, NEW a \in Device, NEW b \in Device, NEW i \in LinkName, NEW j \in LinkName,
         a # b, AddLink(a, b, i, j)
  PROVE  IInv'
<1> DEFINE e == <<a, i, b, j>>
<1>1. {e} \in SUBSET (Device \X OptIface \X Device \X OptIface)
  BY LinkNameType
<1>2. /\ i \in OptIface /\ j \in OptIface
      /\ e \in BothWays({e}) /\ <<b, j, a, i>> \in BothWays({e})
      /\ e[1] = a /\ e[2] = i /\ e[3] = b /\ e[4] = j
  BY LinkNameType DEF BothWays
<1>3. TypeOK'
  <2>1. links' \in [Device -> SUBSET Device]
    BY DEF IInv, AddLink, TypeOK
  <2>2. interface_links' \in [Device -> [Device -> OptIface]]
    <3>1. interface_links \in [Device -> [Device -> OptIface]] /\ i \in OptIface /\ j \in OptIface
      BY <1>2 DEF IInv, TypeOK
    <3>2. interface_links' = [interface_links EXCEPT
                                ![a][b] = IF i = NoIface THEN @ ELSE i,
                                ![b][a] = IF j = NoIface THEN @ ELSE j]
      BY DEF AddLink
    <3>3. QED
      BY <3>1, <3>2
  <2>3. /\ link_ifaces' \in [Device -> [Device -> SUBSET Iface]]
        /\ cables' \subseteq Device \X OptIface \X Device \X OptIface
    BY <1>1, NamesAddedFacts DEF IInv, AddLink, TypeOK
  <2>4. QED
    BY <2>1, <2>2, <2>3 DEF IInv, AddLink, TypeOK
<1>4. LinksSymmetric'
  BY DEF IInv, AddLink, TypeOK, LinksSymmetric
<1>5. LastNameKept'
  <2>1. /\ i # NoIface => i \in link_ifaces'[a][b]
        /\ j # NoIface => j \in link_ifaces'[b][a]
    BY <1>1, <1>2, NamesAddedFacts DEF IInv, AddLink
  <2>2. \A x, y \in Device : link_ifaces[x][y] \subseteq link_ifaces'[x][y]
    BY <1>1, NamesAddedFacts DEF IInv, AddLink
  <2>3. QED
    BY <2>1, <2>2 DEF IInv, AddLink, TypeOK, LastNameKept
<1>6. CablesKnown'
  <2>1. \A x, y \in Device : link_ifaces[x][y] \subseteq link_ifaces'[x][y]
    BY <1>1, NamesAddedFacts DEF IInv, AddLink
  <2>2. \A c \in cables : /\ c[2] # NoIface => c[2] \in link_ifaces'[c[1]][c[3]]
                          /\ c[4] # NoIface => c[4] \in link_ifaces'[c[3]][c[1]]
    BY <2>1 DEF IInv, TypeOK, CablesKnown
  <2>3. \A c \in BothWays({e}) : /\ c[2] # NoIface => c[2] \in link_ifaces'[c[1]][c[3]]
                                 /\ c[4] # NoIface => c[4] \in link_ifaces'[c[3]][c[1]]
    BY <1>1, NamesAddedFacts DEF IInv, AddLink
  <2>4. QED
    BY <2>2, <2>3 DEF AddLink, CablesKnown
<1>7. QED
  BY <1>3, <1>4, <1>5, <1>6 DEF IInv

\* POST /api/links/sync keeps the invariant: what it rebuilds it takes from
\* the same entries whose names it records.
LEMMA SyncLinksIInv ==
  ASSUME IInv, NEW L \in SyncRequests, SyncLinks(L)
  PROVE  IInv'
<1>1. L \in SUBSET (Device \X OptIface \X Device \X OptIface)
  BY SyncAssumption DEF OptIface
<1>2. PICK il \in [Device -> [Device -> AllNames(L) \cup {NoIface}]] :
         LastWins(L, il) /\ interface_links' = il
  <2>1. Rebuilt(L) \subseteq [Device -> [Device -> AllNames(L) \cup {NoIface}]]
    <3> SUFFICES ASSUME NEW il \in Rebuilt(L)
                 PROVE  il \in [Device -> [Device -> AllNames(L) \cup {NoIface}]]
      OBVIOUS
    <3>1. PICK w \in [Ends(L) -> AllNames(L) \cup {NoIface}] :
             il = [a \in Device |-> [b \in Device |->
                     IF <<a, b>> \in Ends(L) THEN w[<<a, b>>] ELSE NoIface]]
      BY DEF Rebuilt
    <3>2. \A a, b \in Device : (IF <<a, b>> \in Ends(L) THEN w[<<a, b>>] ELSE NoIface)
                                  \in AllNames(L) \cup {NoIface}
      OBVIOUS
    <3> QED
      BY <3>1, <3>2
  <2> QED
    BY <2>1 DEF SyncLinks
<1>3. TypeOK'
  <2>1. links' \in [Device -> SUBSET Device]
    BY DEF SyncLinks
  <2>2. AllNames(L) \cup {NoIface} \subseteq OptIface
    BY <1>1, NamesAddedFacts DEF IInv, AllNames, OptIface
  <2>3. interface_links' \in [Device -> [Device -> OptIface]]
    BY <1>2, <2>2
  <2>4. /\ link_ifaces' \in [Device -> [Device -> SUBSET Iface]]
        /\ cables' \subseteq Device \X OptIface \X Device \X OptIface
    BY <1>1, NamesAddedFacts DEF IInv, SyncLinks
  <2>5. QED
    BY <2>1, <2>3, <2>4 DEF IInv, SyncLinks, TypeOK
<1>4. LinksSymmetric'
  <2>1. ASSUME NEW a \in Device, NEW b \in Device, EntriesFrom(L, a, b) # {}
        PROVE  EntriesFrom(L, b, a) # {}
    <3>1. PICK e \in BothWays(L) : e[1] = a /\ e[3] = b
      BY <2>1 DEF EntriesFrom
    <3>2. <<e[3], e[4], e[1], e[2]>> \in BothWays(L)
      BY <1>1, BothWaysFlip
    <3>3. QED
      BY <3>1, <3>2 DEF EntriesFrom
  <2>2. \A a, b \in Device : b \in links'[a] <=> EntriesFrom(L, a, b) # {}
    BY DEF SyncLinks
  <2>3. QED
    BY <2>1, <2>2 DEF LinksSymmetric
<1>5. LastNameKept'
  <2>1. \A a, b \in Device : interface_links'[a][b] # NoIface
                                => interface_links'[a][b] \in NamesGiven(L, a, b)
    BY <1>2 DEF LastWins
  <2>2. QED
    BY <1>1, <2>1, NamesAddedFacts DEF IInv, SyncLinks, LastNameKept
<1>6. CablesKnown'
  BY <1>1, NamesAddedFacts DEF IInv, SyncLinks, CablesKnown
<1>7. QED
  BY <1>3, <1>4, <1>5, <1>6 DEF IInv

\* The invariant is inductive.
LEMMA NextIInv == IInv /\ [Next]_vars => IInv'
<1> SUFFICES ASSUME IInv, [Next]_vars PROVE IInv'
  OBVIOUS
<1>1. CASE \E a, b \in Device, i, j \in LinkName : a # b /\ AddLink(a, b, i, j)
  BY <1>1, AddLinkIInv
<1>2. CASE \E a, b \in Device : b \in links[a] /\ RemoveLink(a, b)
  BY <1>2 DEF IInv, RemoveLink, TypeOK, LinksSymmetric, LastNameKept, CablesKnown
<1>3. CASE \E d \in Device, iface \in CliName : InterfaceDown(d, iface)
  <2>1. PICK d \in Device, iface \in CliName : InterfaceDown(d, iface)
    BY <1>3
  <2>2. iface \in Iface
    BY NameAssumption
  <2>3. QED
    BY <2>1, <2>2
    DEF IInv, InterfaceDown, TypeOK, LinksSymmetric, LastNameKept, CablesKnown
<1>4. CASE \E d \in Device, iface \in CliName : InterfaceUp(d, iface)
  BY <1>4 DEF IInv, InterfaceUp, TypeOK, LinksSymmetric, LastNameKept, CablesKnown
<1>5. CASE \E d \in Device : Unregister(d)
  BY <1>5 DEF IInv, Unregister, TypeOK, LinksSymmetric, LastNameKept, CablesKnown
<1>6. CASE \E d \in Device : RemoveDevice(d)
  <2>1. PICK d \in Device : RemoveDevice(d)
    BY <1>6
  <2>2. TypeOK'
    BY <2>1 DEF IInv, RemoveDevice, TypeOK, OptIface
  <2>3. LinksSymmetric' /\ CablesKnown'
    BY <2>1 DEF IInv, RemoveDevice, TypeOK, LinksSymmetric, CablesKnown
  <2>4. LastNameKept'
    BY <2>1 DEF IInv, RemoveDevice, TypeOK, LastNameKept
  <2>5. QED
    BY <2>2, <2>3, <2>4 DEF IInv
<1>7. CASE \E L \in SyncRequests : SyncLinks(L)
  BY <1>7, SyncLinksIInv
<1>8. CASE UNCHANGED vars
  BY <1>8 DEF IInv, vars, TypeOK, LinksSymmetric, LastNameKept, CablesKnown
<1>9. QED
  BY <1>1, <1>2, <1>3, <1>4, <1>5, <1>6, <1>7, <1>8 DEF Next

\* Every reachable wiring is well typed, symmetric, and knows the names of
\* its last links and of its cables.
THEOREM WiringInvariant == Spec => []IInv
  BY InitIInv, NextIInv, PTL DEF Spec

\* Every table of VirtualNetwork keeps its type.
THEOREM TypeCorrect == Spec => []TypeOK
  BY WiringInvariant, PTL DEF IInv

\* links stays symmetric under link edits, device removal, sync and closing
\* WebSockets.
THEOREM LinksStaySymmetric == Spec => []LinksSymmetric
  BY WiringInvariant, PTL DEF IInv

\* Where the last name is among the recorded names, ifaces_between is
\* link_ifaces, so a live edge is never "all shut" for the sender.
LEMMA EdgeUpNotAllShut ==
  ASSUME IInv, NEW a \in Device, NEW b \in Device, EdgeUp(a, b)
  PROVE  ~AllShut(a, b)
<1>1. IfacesBetween(a, b) = link_ifaces[a][b]
  BY DEF IInv, LastNameKept, IfacesBetween, Named
<1>2. QED
  BY <1>1 DEF EdgeUp, EndUp, AllShut, UpIfacesBetween

\* active_neighbors and _live_neighbors agree in every reachable state.
THEOREM NeighborsAgree == Spec => []LiveNeighborsAgree
<1>1. IInv => LiveNeighborsAgree
  BY EdgeUpNotAllShut DEF IInv, TypeOK, LiveNeighborsAgree, LiveNeighbors, ActiveNeighbors
<1>2. QED
  BY <1>1, WiringInvariant, PTL

\* A direct link carries routing packets both ways or neither way.
LEMMA DirectBothWays ==
  ASSUME IInv, NEW a \in Device, NEW b \in Device, b \in DirectTargets(a)
  PROVE  a \in DirectTargets(b)
<1>1. a \in links[b]
  BY DEF IInv, LinksSymmetric, DirectTargets
<1>2. EdgeUp(b, a)
  BY DEF DirectTargets, EdgeUp
<1>3. SharesSegment(b, a)
  BY DEF DirectTargets, SharesSegment, VlanTagsCompatible
<1>4. QED
  BY <1>1, <1>2, <1>3, EdgeUpNotAllShut DEF DirectTargets

\* broadcast_to_neighbors delivers over a direct link in both directions or
\* in neither.
THEOREM DirectDelivery == Spec => []DirectDeliverySymmetric
<1>1. IInv => DirectDeliverySymmetric
  BY DirectBothWays DEF DirectDeliverySymmetric
<1>2. QED
  BY <1>1, WiringInvariant, PTL

\* A live cable with named ends keeps its pair up for _edge_up.
THEOREM LiveCableSuffices == Spec => []LiveCableKeepsEdgeUp
<1>1. IInv => LiveCableKeepsEdgeUp
  BY DEF IInv, TypeOK, CablesKnown, LiveCableKeepsEdgeUp, Live, EdgeUp, EndUp
<1>2. QED
  BY <1>1, WiringInvariant, PTL

-----------------------------------------------------------------------------
(* Flooding.  RelaysWithin searches the relays of a sender hop by hop; a    *)
(* relay is found in n hops exactly if a path of at most n + 1 relays leads *)
(* to it, and a path read backwards is a path for the other end.  The       *)
(* arguments over the hops take the least hop at which a claim would fail.  *)

\* The least element that every nonempty set of naturals has.
LEMMA Least ==
  ASSUME NEW T \in SUBSET Nat, T # {}
  PROVE  \E x \in T : \A y \in T : x <= y
<1> DEFINE R == OpToRel(<, Nat)
<1>1. IsWellFoundedOn(R, Nat)
  BY NatLessThanWellFounded
<1>2. \A x, y \in Nat : <<y, x>> \in R <=> y < x
  BY DEF OpToRel
<1> HIDE DEF R
<1>3. PICK x \in T : \A y \in T : ~(<<y, x>> \in R)
  BY <1>1, WFMin
<1>4. ASSUME NEW y \in T
      PROVE  x <= y
  <2>1. x \in Nat /\ y \in Nat /\ ~(<<y, x>> \in R)
    BY <1>3, <1>4
  <2>2. ~(y < x)
    BY <1>2, <2>1
  <2>3. QED
    BY <2>1, <2>2
<1>5. QED
  BY <1>4

Relay == Device \ Runs
Hops == Cardinality(Relay)

\* The relays next to s, and those at most one hop behind the relays "seen".
First(s) == LiveNeighbors(s) \ (Runs \cup {s})
Step(s, seen) ==
    seen \cup {p \in Device \ (Runs \cup {s}) : \E w \in seen : p \in LiveNeighbors(w)}

\* The relays found within n hops, for n \in 0 .. N.
SearchedFor(s, N, g) == g = [n \in 0 .. N |-> IF n = 0 THEN First(s) ELSE Step(s, g[n - 1])]
Search(s) == CHOOSE g : SearchedFor(s, Hops, g)

\* The number of hops is a natural number.
LEMMA HopsType == Hops \in Nat
<1>1. IsFiniteSet(Relay)
  BY DeviceAssumption, FS_Subset DEF Relay
<1>2. QED
  BY <1>1, FS_CardinalityType DEF Hops

\* The search of any number of hops exists: a least number for which it did
\* not would be one hop after a search that does.
LEMMA SearchExists ==
  ASSUME NEW s, NEW N \in Nat
  PROVE  \E g : SearchedFor(s, N, g)
<1> DEFINE Bad == {n \in Nat : ~\E g : SearchedFor(s, n, g)}
<1>1. SUFFICES ASSUME Bad # {} PROVE FALSE
  OBVIOUS
<1>2. PICK m \in Bad : \A y \in Bad : m <= y
  BY <1>1, Least
<1>3. m # 0
  <2> DEFINE g == [n \in 0 .. 0 |-> First(s)]
  <2>1. g = [n \in 0 .. 0 |-> IF n = 0 THEN First(s) ELSE Step(s, g[n - 1])]
    OBVIOUS
  <2>2. SearchedFor(s, 0, g)
    BY <2>1 DEF SearchedFor
  <2>3. QED
    BY <1>2, <2>2
<1>4. m - 1 \in Nat /\ m - 1 \notin Bad
  BY <1>2, <1>3
<1>5. PICK h : SearchedFor(s, m - 1, h)
  BY <1>4
<1> DEFINE g == [n \in 0 .. m |-> IF n = m THEN Step(s, h[m - 1]) ELSE h[n]]
<1>6. h = [n \in 0 .. m - 1 |-> IF n = 0 THEN First(s) ELSE Step(s, h[n - 1])]
  BY <1>5 DEF SearchedFor
<1>7. ASSUME NEW n \in 0 .. m
      PROVE  g[n] = IF n = 0 THEN First(s) ELSE Step(s, g[n - 1])
  <2>1. CASE n = 0
    BY <1>3, <1>4, <1>6, <2>1
  <2>2. CASE n # 0 /\ n # m
    <3>1. n \in 0 .. m - 1 /\ n - 1 \in 0 .. m /\ n - 1 # m
      BY <1>4, <2>2
    <3>2. g[n] = h[n] /\ g[n - 1] = h[n - 1]
      BY <2>2, <3>1
    <3>3. h[n] = Step(s, h[n - 1])
      BY <1>6, <2>2, <3>1
    <3>4. QED
      BY <2>2, <3>2, <3>3
  <2>3. CASE n = m
    <3>1. n - 1 \in 0 .. m /\ n - 1 # m
      BY <1>3, <1>4, <2>3
    <3>2. g[n] = Step(s, h[m - 1]) /\ g[n - 1] = h[m - 1]
      BY <2>3, <3>1
    <3>3. QED
      BY <1>3, <2>3, <3>2
  <2>4. QED
    BY <2>1, <2>2, <2>3
<1>8. g = [n \in 0 .. m |-> IF n = 0 THEN First(s) ELSE Step(s, g[n - 1])]
  BY <1>7
<1>9. SearchedFor(s, m, g)
  BY <1>8 DEF SearchedFor
<1>10. QED
  BY <1>2, <1>9

\* What the search finds, hop by hop, and that RelaysWithin is its result.
LEMMA SearchFacts ==
  ASSUME NEW s
  PROVE  /\ RelaysWithin(s) = Search(s)[Hops]
         /\ Search(s)[0] = First(s)
         /\ \A n \in 1 .. Hops : Search(s)[n] = Step(s, Search(s)[n - 1])
<1>1. SearchedFor(s, Hops, Search(s))
  BY HopsType, SearchExists DEF Search
<1>2. Search(s) = [n \in 0 .. Hops |->
                     IF n = 0 THEN First(s) ELSE Step(s, Search(s)[n - 1])]
  BY <1>1 DEF SearchedFor
<1>3. \A f : f = (CHOOSE g : SearchedFor(s, Hops, g)) => RelaysWithin(s) = f[Hops]
  BY DEF RelaysWithin, SearchedFor, Hops, Relay, Step, First
<1>4. RelaysWithin(s) = Search(s)[Hops]
  BY <1>3 DEF Search
<1>5. ASSUME NEW n \in 0 .. Hops
      PROVE  Search(s)[n] = IF n = 0 THEN First(s) ELSE Step(s, Search(s)[n - 1])
  <2> DEFINE F(m) == IF m = 0 THEN First(s) ELSE Step(s, Search(s)[m - 1])
  <2>1. Search(s) = [m \in 0 .. Hops |-> F(m)]
    BY <1>2
  <2> HIDE DEF F
  <2>2. Search(s)[n] = F(n)
    BY <2>1
  <2>3. QED
    BY <2>2 DEF F
<1>6. \A n \in 1 .. Hops : n \in 0 .. Hops /\ n # 0
  BY HopsType
<1>7. 0 \in 0 .. Hops
  BY HopsType
<1>8. QED
  BY <1>4, <1>5, <1>6, <1>7

\* A path p of k + 1 relays behind s.
IsPath(s, k, p) ==
    /\ p \in [0 .. k -> Relay]
    /\ p[0] \in LiveNeighbors(s)
    /\ \A i \in 1 .. k : p[i] \in LiveNeighbors(p[i - 1])

\* Every relay found in n hops is the end of a path of at most n + 1 relays.
LEMMA FoundHasPath ==
  ASSUME IInv, NEW s \in Runs, NEW n \in 0 .. Hops, NEW w \in Search(s)[n]
  PROVE  \E k \in 0 .. n : \E p : IsPath(s, k, p) /\ p[k] = w
<1> DEFINE Pathed(m, v) == \E k \in 0 .. m : \E p : IsPath(s, k, p) /\ p[k] = v
           Bad == {m \in 0 .. Hops : \E v \in Search(s)[m] : ~Pathed(m, v)}
<1>1. SUFFICES ASSUME Bad # {} PROVE FALSE
  OBVIOUS
<1>2. Bad \in SUBSET Nat
  BY HopsType
<1>3. PICK m \in Bad : \A y \in Bad : m <= y
  BY <1>1, <1>2, Least
<1>4. PICK v \in Search(s)[m] : ~Pathed(m, v)
  BY <1>3
<1>5. m \in Nat /\ m \in 0 .. Hops /\ Hops \in Nat
  BY <1>2, <1>3, HopsType
<1>6. CASE m = 0
  <2>1. v \in First(s)
    BY <1>4, <1>6, SearchFacts
  <2>2. v \in Relay /\ v \in LiveNeighbors(s)
    BY <2>1, DeviceAssumption DEF First, Relay, LiveNeighbors, IInv, TypeOK
  <2> DEFINE p == [i \in 0 .. 0 |-> v]
  <2>3. IsPath(s, 0, p) /\ p[0] = v
    BY <2>2 DEF IsPath
  <2> HIDE DEF p
  <2>4. QED
    BY <1>4, <1>6, <2>3
<1>7. CASE m # 0
  <2>1. m \in 1 .. Hops /\ m - 1 \in 0 .. Hops /\ m - 1 < m
    BY <1>5, <1>7
  <2>2. m - 1 \notin Bad
    BY <1>3, <1>5, <2>1
  <2>3. \A u \in Search(s)[m - 1] : Pathed(m - 1, u)
    BY <2>1, <2>2
  <2>4. v \in Step(s, Search(s)[m - 1])
    BY <1>4, <2>1, SearchFacts
  <2>5. ASSUME NEW u, Pathed(m - 1, u)
        PROVE  \E k \in 0 .. m - 1 : k \in Nat /\ k + 1 \in 0 .. m /\ k \in 0 .. m
                  /\ \E p : IsPath(s, k, p) /\ p[k] = u
    BY <1>5, <2>1, <2>5
  <2>6. v \notin Search(s)[m - 1]
    <3>1. SUFFICES ASSUME Pathed(m - 1, v) PROVE Pathed(m, v)
      BY <1>4, <2>3
    <3>2. QED
      BY <2>5, <3>1
  <2>7. PICK u \in Search(s)[m - 1] : v \in LiveNeighbors(u) /\ v \in Relay
    BY <2>4, <2>6 DEF Step, Relay
  <2>8. PICK k \in 0 .. m - 1 : /\ k \in Nat /\ k + 1 \in 0 .. m
                               /\ \E q : IsPath(s, k, q) /\ q[k] = u
    BY <2>3, <2>5
  <2>9. PICK q : IsPath(s, k, q) /\ q[k] = u
    BY <2>8
  <2> DEFINE p == [i \in 0 .. k + 1 |-> IF i = k + 1 THEN v ELSE q[i]]
  <2>10. p \in [0 .. k + 1 -> Relay] /\ p[k + 1] = v
    BY <2>7, <2>8, <2>9 DEF IsPath
  <2>11. \A i \in 0 .. k : p[i] = q[i] /\ i \in 0 .. k + 1
    BY <2>8
  <2>12. 0 \in 0 .. k /\ k \in 0 .. k
    BY <2>8
  <2> HIDE DEF p
  <2>13. p[0] \in LiveNeighbors(s)
    BY <2>8, <2>11, <2>12, <2>9 DEF IsPath
  <2>14. ASSUME NEW i \in 1 .. k + 1
         PROVE  p[i] \in LiveNeighbors(p[i - 1])
    <3>1. CASE i = k + 1
      <4>1. i - 1 = k
        BY <2>8, <3>1
      <4>2. QED
        BY <2>7, <2>8, <2>10, <2>11, <2>12, <2>9, <3>1, <4>1
    <3>2. CASE i # k + 1
      <4>1. i \in 1 .. k /\ i \in 0 .. k /\ i - 1 \in 0 .. k
        BY <2>8, <3>2
      <4>2. QED
        BY <2>8, <2>11, <2>9, <4>1 DEF IsPath
    <3>3. QED
      BY <3>1, <3>2
  <2>15. IsPath(s, k + 1, p)
    BY <2>10, <2>13, <2>14 DEF IsPath
  <2>16. Pathed(m, v)
    BY <2>8, <2>10, <2>15
  <2>17. QED
    BY <1>4, <2>16
<1>8. QED
  BY <1>6, <1>7

\* The search finds every relay of a path no longer than its hops.
LEMMA PathIsFound ==
  ASSUME IInv, NEW s \in Runs, NEW k \in 0 .. Hops, NEW p, IsPath(s, k, p)
  PROVE  p[k] \in Search(s)[Hops]
<1> DEFINE Bad == {m \in 0 .. Hops : \E i \in 0 .. k : i <= m /\ p[i] \notin Search(s)[m]}
<1>1. Hops \in Nat /\ k \in Nat /\ k <= Hops /\ Hops \in 0 .. Hops /\ k \in 0 .. k
  BY HopsType
<1>2. SUFFICES ASSUME Bad # {} PROVE FALSE
  BY <1>1
<1>3. Bad \in SUBSET Nat
  BY <1>1
<1>4. PICK m \in Bad : \A y \in Bad : m <= y
  BY <1>2, <1>3, Least
<1>5. PICK i \in 0 .. k : i <= m /\ p[i] \notin Search(s)[m]
  BY <1>4
<1>6. m \in Nat /\ i \in Nat /\ m \in 0 .. Hops
  BY <1>3, <1>4, <1>5
<1>7. p[i] \in Device \ (Runs \cup {s})
  BY <1>5 DEF IsPath, Relay
<1>8. CASE m = 0
  <2>1. i = 0
    BY <1>5, <1>6, <1>8
  <2>2. p[0] \in First(s)
    BY <1>7, <2>1 DEF First, IsPath
  <2>3. QED
    BY <1>5, <1>8, <2>1, <2>2, SearchFacts
<1>9. CASE m # 0
  <2>1. m \in 1 .. Hops /\ m - 1 \in 0 .. Hops /\ m - 1 < m
    BY <1>1, <1>6, <1>9
  <2>2. m - 1 \notin Bad
    BY <1>4, <1>6, <2>1
  <2>3. \A j \in 0 .. k : j <= m - 1 => p[j] \in Search(s)[m - 1]
    BY <2>1, <2>2
  <2>4. Search(s)[m] = Step(s, Search(s)[m - 1])
    BY <2>1, SearchFacts
  <2>5. CASE i <= m - 1
    BY <1>5, <2>3, <2>4, <2>5 DEF Step
  <2>6. CASE ~(i <= m - 1)
    <3>1. i = m /\ i \in 1 .. k /\ i - 1 \in 0 .. k /\ i - 1 <= m - 1
      BY <1>1, <1>5, <1>6, <1>9, <2>6
    <3>2. p[i - 1] \in Search(s)[m - 1]
      BY <2>3, <3>1
    <3>3. p[i] \in LiveNeighbors(p[i - 1])
      BY <3>1 DEF IsPath
    <3>4. p[i] \in Step(s, Search(s)[m - 1])
      BY <1>7, <3>2, <3>3 DEF Step
    <3>5. QED
      BY <1>5, <2>4, <3>4
  <2>7. QED
    BY <2>5, <2>6
<1>10. QED
  BY <1>8, <1>9

\* A live neighbour sees its neighbour as live.
LEMMA LiveBothWays ==
  ASSUME IInv, NEW a \in Device, NEW b \in LiveNeighbors(a)
  PROVE  b \in Device /\ a \in LiveNeighbors(b)
<1>1. b \in Device /\ b \in links[a] /\ EdgeUp(a, b)
  BY DEF IInv, TypeOK, LiveNeighbors
<1>2. a \in links[b]
  BY <1>1 DEF IInv, LinksSymmetric
<1>3. EdgeUp(b, a)
  BY <1>1 DEF EdgeUp
<1>4. QED
  BY <1>1, <1>2, <1>3, EdgeUpNotAllShut DEF LiveNeighbors

\* What a's flood reaches, b's flood reaches back: the path read backwards.
LEMMA FloodBothWays ==
  ASSUME IInv, NEW a \in Runs, NEW b \in FloodTargets(a)
  PROVE  a \in FloodTargets(b)
<1>1. /\ a \in Device /\ b \in Runs /\ b \in Device
      /\ b \notin LiveNeighbors(a) /\ b # a /\ SharesSegment(a, b)
  BY DeviceAssumption DEF FloodTargets
<1>2. PICK w \in RelaysWithin(a) : b \in LiveNeighbors(w)
  BY DEF FloodTargets
<1>3. Hops \in Nat /\ Hops \in 0 .. Hops
  BY HopsType
<1>4. PICK k \in 0 .. Hops : \E p : IsPath(a, k, p) /\ p[k] = w
  BY <1>2, <1>3, SearchFacts, FoundHasPath
<1>5. PICK p : IsPath(a, k, p) /\ p[k] = w
  BY <1>4
<1>6. k \in Nat /\ 0 \in 0 .. k /\ k \in 0 .. k
  BY <1>3
<1>7. p \in [0 .. k -> Relay] /\ \A i \in 0 .. k : p[i] \in Device
  BY <1>5 DEF IsPath, Relay
<1> DEFINE q == [i \in 0 .. k |-> p[k - i]]
<1>8. \A i \in 0 .. k : k - i \in 0 .. k /\ q[i] = p[k - i]
  BY <1>6
<1>9. q \in [0 .. k -> Relay]
  BY <1>7, <1>8
<1>10. q[0] = p[k] /\ q[k] = p[0]
  BY <1>6, <1>8
<1> HIDE DEF q
<1>11. q[0] \in LiveNeighbors(b)
  BY <1>2, <1>6, <1>7, <1>10, <1>5, LiveBothWays
<1>12. ASSUME NEW i \in 1 .. k
       PROVE  q[i] \in LiveNeighbors(q[i - 1])
  <2>1. /\ i \in 0 .. k /\ i - 1 \in 0 .. k
        /\ k - i \in 0 .. k /\ k - (i - 1) \in 1 .. k /\ k - (i - 1) - 1 = k - i
    BY <1>6
  <2>2. p[k - (i - 1)] \in LiveNeighbors(p[k - i])
    BY <1>5, <2>1 DEF IsPath
  <2>3. p[k - i] \in LiveNeighbors(p[k - (i - 1)])
    BY <1>7, <2>1, <2>2, LiveBothWays
  <2>4. QED
    BY <1>8, <2>1, <2>3
<1>13. IsPath(b, k, q)
  BY <1>9, <1>11, <1>12 DEF IsPath
<1>14. p[0] \in RelaysWithin(b)
  BY <1>1, <1>10, <1>13, PathIsFound, SearchFacts
<1>15. a \in LiveNeighbors(p[0])
  BY <1>1, <1>5, LiveBothWays DEF IsPath
<1>16. a \notin LiveNeighbors(b)
  BY <1>1, LiveBothWays
<1>17. SharesSegment(b, a)
  BY <1>1 DEF SharesSegment, VlanTagsCompatible
<1>18. QED
  BY <1>1, <1>14, <1>15, <1>16, <1>17 DEF FloodTargets

\* broadcast_to_neighbors delivers in both directions or in neither, over a
\* direct link and through any number of relaying switches.
THEOREM Delivery == Spec => []DeliverySymmetric
<1>1. ASSUME IInv, NEW a \in Runs, NEW b \in BroadcastTargets(a), b \in Runs
      PROVE  a \in BroadcastTargets(b)
  <2>1. CASE b \in FloodTargets(a)
    <3>1. a \in FloodTargets(b)
      BY <1>1, <2>1, FloodBothWays
    <3>2. QED
      BY <3>1 DEF BroadcastTargets
  <2>2. CASE b \in DirectTargets(a)
    <3>1. a \in DirectTargets(b)
      BY <1>1, <2>2, DirectBothWays, DeviceAssumption
    <3>2. QED
      BY <3>1 DEF BroadcastTargets
  <2>3. QED
    BY <1>1, <2>1, <2>2 DEF BroadcastTargets
<1>2. IInv => DeliverySymmetric
  BY <1>1 DEF DeliverySymmetric
<1>3. QED
  BY <1>2, WiringInvariant, PTL
=============================================================================
