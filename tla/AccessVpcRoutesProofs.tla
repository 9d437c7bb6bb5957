---------------------------- MODULE AccessVpcRoutesProofs ----------------------------
(***************************************************************************)
(* Proofs about three components that have nothing to do with each other.  *)
(*                                                                         *)
(* Access, for any routers, sessions, servers and pools: the inductive     *)
(* invariant is AccTypeOK /\ TablesAgree /\ AddressesExclusive, under it   *)
(* every step of the access network is a step of LeaseBook, and with       *)
(* AccTypeOK alone OnlyReloadParts is inductive, too.                      *)
(*                                                                         *)
(* Vpc: VpcTyped for any number of switches, and for switches that are     *)
(* each other's peers VpcInv, which adds the peer link.                    *)
(*                                                                         *)
(* BgpRoutes, for any routers, peerings and AS plans: the inductive        *)
(* invariant is RoutesTyped, the type invariant with tables in CleanRibs.  *)
(* What a step makes of the tables is a recursion (a fold over the routers *)
(* inside one over the rounds), so lemmas that say that a recursion on     *)
(* numbers has a solution and keeps what its step keeps come first.        *)
(***************************************************************************)
EXTENDS Access, Vpc, BgpRoutes, TLAPS, FiniteSetTheorems, WellFoundedInduction

\* What every reachable state of the access network satisfies.
AccInv == AccTypeOK /\ TablesAgree /\ AddressesExclusive

\* The empty access network satisfies the invariant.
LEMMA AccInitInv == AccInit => AccInv
<1>. SUFFICES ASSUME AccInit PROVE AccInv
  OBVIOUS
<1>1. NoWan \in Wan /\ Net \in [Bas -> SUBSET Addr] /\ NoSlot \in SlotOrNone
  BY AddressesOk DEF Addr, Wan, NoWan, SlotOrNone
<1>2. saved \in File
  BY <1>1 DEF AccInit, File
<1>3. AccTypeOK
  BY <1>1, <1>2 DEF AccInit, AccTypeOK
<1>4. TablesAgree /\ AddressesExclusive
  BY DEF AccInit, TablesAgree, AddressesExclusive
<1>. QED
  BY <1>3, <1>4 DEF AccInv

\* A server has a natural number of rules.
LEMMA RuleCountType == ASSUME NEW b \in Bas PROVE RuleCount(b) \in Nat
<1>1. IsFiniteSet({r \in Rtx : rules[b][r] # NoSlot})
  BY AddressesOk, FS_Subset
<1>. QED
  BY <1>1, FS_CardinalityType DEF RuleCount

\* Types survive every step.
LEMMA AccTypeStep == AccTypeOK /\ [AccNext]_accVars => AccTypeOK'
<1>. SUFFICES ASSUME AccTypeOK, [AccNext]_accVars PROVE AccTypeOK'
  OBVIOUS
<1>. USE AddressesOk
<1>1. ASSUME NEW s \in Session, PpConnect(s) PROVE AccTypeOK'
  <2>1. PICK b \in Bas, a \in Addr :
           /\ leased' = [leased EXCEPT ![b] = @ \cup {a}]
           /\ basSess' = [basSess EXCEPT ![b][s] = a]
           /\ ppSess' = [ppSess EXCEPT ![s] = [bas |-> b, ip |-> a]]
           /\ wan' = [wan EXCEPT ![s] = [conn |-> TRUE, ip |-> a]]
    BY <1>1 DEF PpConnect, Offers
  <2>2. leased' \in [Bas -> SUBSET Addr] /\ wan' \in [Session -> Wan]
    BY <2>1 DEF AccTypeOK, Wan
  <2>3. basSess' \in [Bas -> [Session -> Addr \cup {NoAddr}]]
    BY <2>1 DEF AccTypeOK
  <2>4. ppSess' \in [Session -> [bas : Bas, ip : Addr] \cup {NoSession}]
    BY <2>1 DEF AccTypeOK
  <2>. QED
    BY <1>1, <2>2, <2>3, <2>4 DEF PpConnect, AccTypeOK
<1>2. ASSUME NEW s \in Session, PpDisable(s) PROVE AccTypeOK'
  <2>1. ppSess[s] # NoSession => ppSess[s] \in [bas : Bas, ip : Addr]
    BY DEF AccTypeOK
  <2>2. leased' \in [Bas -> SUBSET Addr]
    BY <1>2, <2>1 DEF PpDisable, Released, AccTypeOK
  <2>3. basSess' \in [Bas -> [Session -> Addr \cup {NoAddr}]]
    BY <1>2, <2>1 DEF PpDisable, AccTypeOK
  <2>4. wan' \in [Session -> Wan]
    BY <1>2 DEF PpDisable, Hung, AccTypeOK, Wan, NoWan
  <2>5. ppSess' \in [Session -> [bas : Bas, ip : Addr] \cup {NoSession}]
    BY <1>2 DEF PpDisable, AccTypeOK
  <2>. QED
    BY <1>2, <2>2, <2>3, <2>4, <2>5 DEF PpDisable, AccTypeOK
<1>3. ASSUME NEW r \in Rtx, MapUse(r) PROVE AccTypeOK'
  <2>1. PICK b \in Bas : /\ HasSlot(b)
                         /\ rules' = [rules EXCEPT ![b][r] = RuleCount(b)]
                         /\ mapRule' = [mapRule EXCEPT ![r] = RuleCount(b)]
    BY <1>3 DEF MapUse, RuleServers
  <2>2. RuleCount(b) \in SlotOrNone
    BY <2>1, RuleCountType DEF HasSlot, SlotOrNone
  <2>3. rules' \in [Bas -> [Rtx -> SlotOrNone]] /\ mapRule' \in [Rtx -> SlotOrNone]
    BY <2>1, <2>2 DEF AccTypeOK
  <2>. QED
    BY <1>3, <2>3 DEF MapUse, AccTypeOK
<1>4. ASSUME NEW r \in Rtx, MapRelease(r) PROVE AccTypeOK'
  <2>1. rules' \in [Bas -> [Rtx -> SlotOrNone]] /\ mapRule' \in [Rtx -> SlotOrNone]
    BY <1>4 DEF MapRelease, AccTypeOK, SlotOrNone
  <2>. QED
    BY <1>4, <2>1 DEF MapRelease, AccTypeOK
<1>5. ASSUME NEW r \in Rtx, RemoveRouter(r) PROVE AccTypeOK'
  <2>1. wan' \in [Session -> Wan] /\ mapRule' \in [Rtx -> SlotOrNone]
    BY <1>5 DEF RemoveRouter, AccTypeOK, Wan, NoWan, SlotOrNone
  <2>2. facing' \in [Rtx -> [Bas -> {"lan", "pp", "none"}]]
    BY <1>5 DEF RemoveRouter, AccTypeOK
  <2>. QED
    BY <1>5, <2>1, <2>2 DEF RemoveRouter, AccTypeOK
<1>6. ASSUME NEW r \in Rtx, AddRouter(r) PROVE AccTypeOK'
  BY <1>6 DEF AddRouter, AccTypeOK
<1>7. ASSUME NEW r \in Rtx, NEW b \in Bas, PlugIn(r, b) PROVE AccTypeOK'
  <2>1. linked' \in SUBSET (Rtx \X Bas)
    <3>1. linked' = linked \cup {<<r, b>>} /\ linked \subseteq Rtx \X Bas
      BY <1>7 DEF PlugIn, AccTypeOK
    <3>. QED
      BY <3>1
  <2>3. facing' \in [Rtx -> [Bas -> {"lan", "pp", "none"}]]
    BY <1>7 DEF PlugIn, AccTypeOK
  <2>2. restarted' = FALSE /\ cables' \in Nat
    BY <1>7 DEF PlugIn, AccTypeOK
  <2>. QED
    BY <1>7, <2>1, <2>2, <2>3 DEF PlugIn, AccTypeOK
<1>8. ASSUME NEW r \in Rtx, NEW b \in Bas, PullOut(r, b) PROVE AccTypeOK'
  BY <1>8 DEF PullOut, AccTypeOK
<1>9. ASSUME NEW b \in Bas, SetPool(b) PROVE AccTypeOK'
  <2>1. \A P \in Pools : P \in SUBSET Addr
    BY DEF Addr
  <2>2. pool' \in [Bas -> SUBSET Addr]
    BY <1>9, <2>1 DEF SetPool, AccTypeOK
  <2>. QED
    BY <1>9, <2>2 DEF SetPool, AccTypeOK
<1>10. CASE SaveConfig
  <2>1. ASSUME NEW s \in Session PROVE [wan[s] EXCEPT !.conn = FALSE] \in Wan
    <3>1. wan[s] \in Wan
      BY DEF AccTypeOK
    <3>. QED
      BY <3>1 DEF Wan
  <2>2. saved' \in File
    BY <1>10, <2>1 DEF SaveConfig, AccTypeOK, File
  <2>. QED
    BY <1>10, <2>2 DEF SaveConfig, AccTypeOK
<1>11. ASSUME NEW known \in [Rtx -> [Bas -> {"lan", "pp", "none"}]], Loaded(known)
       PROVE  /\ wan' \in [Session -> Wan] /\ mapRule' \in [Rtx -> SlotOrNone]
              /\ present' \in SUBSET Rtx /\ reloaded' \in SUBSET Session
              /\ facing' \in [Rtx -> [Bas -> {"lan", "pp", "none"}]]
              /\ saved.pool \in [Bas -> SUBSET Addr] /\ saved.linked \in SUBSET (Rtx \X Bas)
  <2>1. ASSUME NEW r \in Rtx, NEW b \in Bas PROVE FoundIface(r, b) \in {"lan", "pp", "none"}
    BY DEF FoundIface
  <2>2. facing' \in [Rtx -> [Bas -> {"lan", "pp", "none"}]]
    BY <1>11, <2>1 DEF Loaded
  <2>. QED
    BY <1>11, <2>2 DEF Loaded, AccTypeOK, File
<1>12. CASE Restart
  <2>1. [r \in Rtx |-> [b \in Bas |-> "none"]] \in [Rtx -> [Bas -> {"lan", "pp", "none"}]]
    OBVIOUS
  <2>2. rules' \in [Bas -> [Rtx -> SlotOrNone]]
    BY <1>12 DEF Restart, SlotOrNone
  <2>. QED
    BY <1>11, <1>12, <2>1, <2>2 DEF Restart, AccTypeOK
<1>13. CASE Reload
  BY <1>11, <1>13 DEF Reload, AccTypeOK
<1>14. CASE UNCHANGED accVars
  BY <1>14 DEF accVars, AccTypeOK
<1>. QED
  BY <1>1, <1>2, <1>3, <1>4, <1>5, <1>6, <1>7, <1>8, <1>9, <1>10, <1>12, <1>13, <1>14 DEF AccNext

\* The steps that touch neither leases nor sessions.
LEMMA BookUntouched ==
  ASSUME [AccNext]_accVars,
         ~\E s \in Session : PpConnect(s) \/ PpDisable(s),
         ~Restart
  PROVE  UNCHANGED <<leased, basSess, ppSess>>
  BY DEF AccNext, accVars, MapUse, MapRelease, RemoveRouter, AddRouter, PlugIn, PullOut, SetPool,
         SaveConfig, Reload

\* What a successful connect does to the tables.
LEMMA ConnectFacts ==
  ASSUME AccTypeOK, NEW s \in Session, PpConnect(s)
  PROVE  \E b \in Bas, a \in Addr :
            /\ a \notin leased[b]
            /\ leased' = [leased EXCEPT ![b] = @ \cup {a}]
            /\ basSess' = [basSess EXCEPT ![b][s] = a]
            /\ ppSess' = [ppSess EXCEPT ![s] = [bas |-> b, ip |-> a]]
  BY DEF PpConnect, Offers, IsNextFree

\* The tables keep agreeing and addresses stay exclusive.
LEMMA AccTablesStep ==
  ASSUME AccInv, [AccNext]_accVars
  PROVE  TablesAgree' /\ AddressesExclusive'
<1>1. ASSUME NEW s \in Session, PpConnect(s) PROVE TablesAgree' /\ AddressesExclusive'
  <2>1. PICK b \in Bas, a \in Addr :
            /\ a \notin leased[b]
            /\ leased' = [leased EXCEPT ![b] = @ \cup {a}]
            /\ basSess' = [basSess EXCEPT ![b][s] = a]
            /\ ppSess' = [ppSess EXCEPT ![s] = [bas |-> b, ip |-> a]]
    BY <1>1, ConnectFacts DEF AccInv
  <2>2. ppSess'[s] = [bas |-> b, ip |-> a] /\ \A t \in Session \ {s} : ppSess'[t] = ppSess[t]
    BY <2>1 DEF AccInv, AccTypeOK
  <2>3. a \in leased'[b] /\ \A x \in Bas : leased[x] \subseteq leased'[x]
    BY <2>1 DEF AccInv, AccTypeOK
  <2>4. basSess'[b][s] = a /\ \A x \in Bas, t \in Session \ {s} : basSess'[x][t] = basSess[x][t]
    BY <2>1 DEF AccInv, AccTypeOK
  <2>5. ASSUME NEW t \in Session, ppSess[t] # NoSession
        PROVE  ppSess[t].bas \in Bas /\ ppSess[t].ip \in leased[ppSess[t].bas]
    BY <2>5 DEF AccInv, AccTypeOK, TablesAgree
  <2>6. TablesAgree'
    BY <2>2, <2>3, <2>4, <2>5 DEF AccInv, TablesAgree
  <2>7. \A t \in Session \ {s} : ppSess[t] # NoSession => ppSess[t] # [bas |-> b, ip |-> a]
    BY <2>1, <2>5
  <2>8. AddressesExclusive'
    BY <2>2, <2>7 DEF AccInv, AddressesExclusive
  <2>. QED
    BY <2>6, <2>8
<1>2. ASSUME NEW s \in Session, PpDisable(s) PROVE TablesAgree' /\ AddressesExclusive'
  <2>1. ppSess'[s] = NoSession /\ \A t \in Session \ {s} : ppSess'[t] = ppSess[t]
    BY <1>2 DEF PpDisable, AccInv, AccTypeOK
  <2>2. AddressesExclusive'
    BY <2>1 DEF AccInv, AddressesExclusive
  <2>3. ASSUME NEW t \in Session \ {s}, ppSess[t] # NoSession
        PROVE  /\ ppSess[t].ip \in leased'[ppSess[t].bas]
               /\ basSess'[ppSess[t].bas][t] = basSess[ppSess[t].bas][t]
    <3>1. /\ ppSess[t] \in [bas : Bas, ip : Addr]
          /\ ppSess[t].ip \in leased[ppSess[t].bas]
      BY <2>3 DEF AccInv, AccTypeOK, TablesAgree
    <3>2. CASE ppSess[s] = NoSession
      BY <1>2, <3>1, <3>2 DEF PpDisable, Released
    <3>3. CASE ppSess[s] # NoSession
      <4>1. ppSess[s] \in [bas : Bas, ip : Addr] /\ ppSess[s] # ppSess[t]
        BY <3>3 DEF AccInv, AccTypeOK, AddressesExclusive
      <4>2. ppSess[s].bas # ppSess[t].bas \/ ppSess[s].ip # ppSess[t].ip
        BY <3>1, <4>1
      <4>3. leased' = [leased EXCEPT ![ppSess[s].bas] = @ \ {ppSess[s].ip}]
        BY <1>2, <3>3 DEF PpDisable, Released
      <4>4. ppSess[t].ip \in leased'[ppSess[t].bas]
        BY <3>1, <4>1, <4>2, <4>3 DEF AccInv, AccTypeOK
      <4>5. basSess' = [basSess EXCEPT ![ppSess[s].bas][s] = NoAddr]
        BY <1>2, <3>3 DEF PpDisable
      <4>6. basSess'[ppSess[t].bas][t] = basSess[ppSess[t].bas][t]
        BY <3>1, <4>1, <4>5 DEF AccInv, AccTypeOK
      <4>. QED
        BY <4>4, <4>6
    <3>. QED
      BY <3>2, <3>3
  <2>4. TablesAgree'
    BY <2>1, <2>3 DEF AccInv, TablesAgree
  <2>. QED
    BY <2>2, <2>4
<1>3. CASE Restart
  BY <1>3 DEF Restart, TablesAgree, AddressesExclusive
<1>4. CASE UNCHANGED <<leased, basSess, ppSess>>
  BY <1>4 DEF AccInv, TablesAgree, AddressesExclusive
<1>. QED
  BY <1>1, <1>2, <1>3, <1>4, BookUntouched

\* The invariant holds in every reachable state.
THEOREM AccInvariant == AccSpec => []AccInv
<1>1. AccInv /\ [AccNext]_accVars => AccInv'
  BY AccTypeStep, AccTablesStep DEF AccInv
<1>. QED
  BY <1>1, AccInitInv, PTL DEF AccSpec

\* The access tables hold values of their types, whatever routers, servers,
\* pools, restarts and reloads there are.
THEOREM AccTypeCorrect == AccSpec => []AccTypeOK
  BY AccInvariant, PTL DEF AccInv

\* A session's address is leased by the BAS it was given by and listed there.
THEOREM AccTablesAgree == AccSpec => []TablesAgree
  BY AccInvariant, PTL DEF AccInv

\* No address of a BAS is used by two sessions.
THEOREM AccExclusive == AccSpec => []AddressesExclusive
  BY AccInvariant, PTL DEF AccInv

\* Only a restart or a reload, which fill "reloaded", part a router from its BAS.
LEMMA PartsStep ==
  ASSUME AccTypeOK, OnlyReloadParts, [AccNext]_accVars
  PROVE  OnlyReloadParts'
<1>. SUFFICES ASSUME NEW t \in Session, wan'[t].conn, t \notin reloaded'
              PROVE  ppSess'[t] # NoSession /\ ppSess'[t].ip = wan'[t].ip
  BY DEF OnlyReloadParts
<1>. DEFINE Agrees == wan'[t] = wan[t] /\ ppSess'[t] = ppSess[t] /\ t \notin reloaded
<1>1. CASE Agrees
  BY <1>1 DEF OnlyReloadParts
<1>2. CASE wan'[t] = NoWan
  BY <1>2 DEF NoWan
<1>3. ASSUME NEW s \in Session, PpConnect(s)
      PROVE  Agrees \/ (ppSess'[t] # NoSession /\ ppSess'[t].ip = wan'[t].ip)
  <2>1. PICK b \in Bas, a \in Addr :
           /\ ppSess' = [ppSess EXCEPT ![s] = [bas |-> b, ip |-> a]]
           /\ wan' = [wan EXCEPT ![s] = [conn |-> TRUE, ip |-> a]]
    BY <1>3 DEF PpConnect, Offers
  <2>2. reloaded' = reloaded \ {s}
    BY <1>3 DEF PpConnect
  <2>3. CASE t = s
    <3>1. ppSess'[t] = [bas |-> b, ip |-> a] /\ wan'[t] = [conn |-> TRUE, ip |-> a]
      BY <2>1, <2>3 DEF AccTypeOK
    <3>2. a \in Nat
      BY AddressesOk DEF Addr
    <3>3. [bas |-> b, ip |-> a] # NoSession
      BY <3>2, AddressesOk
    <3>. QED
      BY <3>1, <3>3
  <2>4. CASE t # s
    BY <2>1, <2>2, <2>4 DEF AccTypeOK
  <2>. QED
    BY <2>3, <2>4
<1>4. ASSUME NEW s \in Session, PpDisable(s)
      PROVE  Agrees \/ wan'[t] = NoWan
  <2>1. /\ wan' = [wan EXCEPT ![s] = NoWan]
        /\ ppSess' = [ppSess EXCEPT ![s] = NoSession]
        /\ reloaded' = reloaded \ {s}
    BY <1>4 DEF PpDisable, Hung
  <2>. QED
    BY <2>1 DEF AccTypeOK
<1>5. ASSUME NEW r \in Rtx, RemoveRouter(r)
      PROVE  Agrees \/ wan'[t] = NoWan
  BY <1>5 DEF RemoveRouter, OwnSessions
<1>6. CASE Restart \/ Reload
  <2>1. wan' = saved.wan /\ reloaded' = {s \in Session : saved.wan[s] # NoWan}
    BY <1>6 DEF Restart, Reload, Loaded
  <2>. QED
    BY <2>1, <1>2
<1>7. CASE UNCHANGED <<wan, ppSess, reloaded>>
  BY <1>1, <1>7
<1>8. \/ \E s \in Session : PpConnect(s) \/ PpDisable(s)
      \/ \E r \in Rtx : RemoveRouter(r)
      \/ Restart \/ Reload
      \/ UNCHANGED <<wan, ppSess, reloaded>>
  BY DEF AccNext, accVars, MapUse, MapRelease, AddRouter, PlugIn, PullOut, SetPool, SaveConfig
<1>. QED
  BY <1>1, <1>2, <1>3, <1>4, <1>5, <1>6, <1>7, <1>8

\* A router that believes it is connected holds the session its BAS knows, and
\* with the same address, except after that belief was read from the file.
THEOREM AccOnlyReloadParts == AccSpec => []OnlyReloadParts
<1>1. AccInit => OnlyReloadParts
  BY DEF AccInit, OnlyReloadParts, NoWan
<1>2. AccInv /\ OnlyReloadParts /\ [AccNext]_accVars => OnlyReloadParts'
  BY PartsStep DEF AccInv
<1>. QED
  BY <1>1, <1>2, AccInvariant, PTL DEF AccSpec

-----------------------------------------------------------------------------
(* The abstract book.                                                      *)

\* What the book says of an address: free, the one session that has it, lost.
BookRightAt(b, a) ==
    /\ a \notin leased[b] => Book[b][a] = Free
    /\ \A s \in Session : Book[b][a] = s <=> ppSess[s] = [bas |-> b, ip |-> a]
    /\ a \in leased[b] /\ (\A s \in Session : ppSess[s] # [bas |-> b, ip |-> a])
          => Book[b][a] = Lost
BookRight == \A b \in Bas, a \in Addr : BookRightAt(b, a)

\* Addresses are numbers.
LEMMA AddrNat == Addr \subseteq Nat
  BY AddressesOk DEF Addr

\* Under the invariant the book is right.
LEMMA BookFacts == AccInv => BookRight
<1>. SUFFICES ASSUME AccInv, NEW b \in Bas, NEW a \in Addr PROVE BookRightAt(b, a)
  BY DEF BookRight
<1>0. [bas |-> b, ip |-> a] # NoSession
  BY AddrNat, AddressesOk
<1>. DEFINE Has(s) == ppSess[s] = [bas |-> b, ip |-> a]
<1>1. Book[b][a] = IF a \notin leased[b] THEN Free
                   ELSE IF \E s \in Session : Has(s) THEN CHOOSE s \in Session : Has(s) ELSE Lost
  <2>1. Book[b][a] = Holder(b, a)
    BY DEF Book
  <2>. QED
    BY <2>1, Zenon DEF Holder
<1>2. ASSUME NEW s \in Session, Has(s) PROVE a \in leased[b]
  BY <1>0, <1>2 DEF AccInv, TablesAgree
<1>3. ASSUME NEW s \in Session, NEW t \in Session, Has(s), Has(t) PROVE s = t
  BY <1>0, <1>3 DEF AccInv, AddressesExclusive
<1>. HIDE DEF Has
<1>4. ASSUME NEW s \in Session PROVE Book[b][a] = s <=> Has(s)
  <2>1. CASE a \notin leased[b]
    BY <1>1, <1>2, <2>1, AddressesOk
  <2>2. CASE a \in leased[b] /\ \E t \in Session : Has(t)
    BY <1>1, <1>3, <2>2
  <2>3. CASE a \in leased[b] /\ ~\E t \in Session : Has(t)
    BY <1>1, <2>3, AddressesOk
  <2>. QED
    BY <2>1, <2>2, <2>3
<1>. QED
  BY <1>1, <1>4 DEF Has, BookRightAt

\* The same of the book after a step.
LEMMA BookFactsNext == AccInv' => BookRight'
  BY BookFacts, PTL

\* A book is known by its entries.
LEMMA BookShape == Book' = [b \in Bas |-> [a \in Addr |-> Book'[b][a]]]
  BY DEF Book

\* The empty network has an empty book.
LEMMA BookInitially == AccInit => Leases!BookInit
  BY DEF AccInit, Leases!BookInit, Book, Holder

\* Every step of the access network is a step of the book, or leaves it alone.
LEMMA BookStep ==
  ASSUME AccInv, AccInv', [AccNext]_accVars
  PROVE  Leases!BookNext \/ UNCHANGED Book
<1>. USE AddressesOk
<1>a. \A b \in Bas, a \in Addr : BookRightAt(b, a) /\ BookRightAt(b, a)'
  BY BookFacts, BookFactsNext DEF BookRight
<1>1. ASSUME NEW s \in Session, PpConnect(s) PROVE Leases!BookNext
  <2>1. PICK b \in Bas, a \in Addr :
            /\ a \notin leased[b]
            /\ leased' = [leased EXCEPT ![b] = @ \cup {a}]
            /\ basSess' = [basSess EXCEPT ![b][s] = a]
            /\ ppSess' = [ppSess EXCEPT ![s] = [bas |-> b, ip |-> a]]
    BY <1>1, ConnectFacts DEF AccInv
  <2>2. Book[b][a] = Free
    BY <2>1, <1>a DEF BookRightAt
  <2>3. ASSUME NEW x \in Bas, NEW y \in Addr
        PROVE  Book'[x][y] = IF x = b /\ y = a THEN s ELSE IF Book[x][y] = s THEN Lost ELSE Book[x][y]
    <3>a. BookRightAt(x, y) /\ BookRightAt(x, y)'
      BY <1>a
    <3>1. y \in leased'[x] <=> y \in leased[x] \/ (x = b /\ y = a)
      BY <2>1 DEF AccInv, AccTypeOK
    <3>2. ppSess'[s] = [bas |-> b, ip |-> a] /\ \A t \in Session \ {s} : ppSess'[t] = ppSess[t]
      BY <2>1 DEF AccInv, AccTypeOK
    <3>3. CASE x = b /\ y = a
      BY <3>2, <3>3, <3>a DEF BookRightAt
    <3>4. CASE ~(x = b /\ y = a)
      <4>1. [bas |-> x, ip |-> y] # [bas |-> b, ip |-> a]
        BY <3>4
      <4>2. CASE y \notin leased[x]
        BY <3>1, <3>4, <4>2, <3>a DEF BookRightAt
      <4>3. CASE y \in leased[x] /\ Book[x][y] = s
        <5>1. \A t \in Session : ppSess'[t] # [bas |-> x, ip |-> y]
          BY <3>2, <4>1, <4>3, <3>a DEF BookRightAt
        <5>. QED
          BY <3>1, <3>4, <4>3, <5>1, <3>a DEF BookRightAt
      <4>4. CASE y \in leased[x] /\ \E t \in Session \ {s} : Book[x][y] = t
        <5>1. PICK t \in Session \ {s} : Book[x][y] = t
          BY <4>4
        <5>2. Book'[x][y] = t
          BY <3>2, <5>1, <3>a DEF BookRightAt
        <5>. QED
          BY <3>4, <5>1, <5>2
      <4>5. CASE y \in leased[x] /\ \A t \in Session : Book[x][y] # t
        <5>1. \A t \in Session : ppSess'[t] # [bas |-> x, ip |-> y]
          BY <3>2, <4>1, <4>5, <3>a DEF BookRightAt
        <5>2. \A t \in Session : ppSess[t] # [bas |-> x, ip |-> y]
          BY <4>5, <3>a DEF BookRightAt
        <5>3. Book[x][y] = Lost /\ Book'[x][y] = Lost
          BY <3>1, <4>5, <5>1, <5>2, <3>a DEF BookRightAt
        <5>. QED
          BY <3>4, <4>5, <5>3
      <4>. QED
        BY <4>2, <4>3, <4>4, <4>5
    <3>. QED
      BY <3>3, <3>4
  <2>4. Leases!Grant(s, b, a)
    BY <2>2, <2>3, BookShape DEF Leases!Grant
  <2>. QED
    BY <2>4 DEF Leases!BookNext
<1>2. ASSUME NEW s \in Session, PpDisable(s) PROVE Leases!BookNext
  <2>1. ppSess'[s] = NoSession /\ \A t \in Session \ {s} : ppSess'[t] = ppSess[t]
    BY <1>2 DEF PpDisable, AccInv, AccTypeOK
  <2>2. ASSUME NEW x \in Bas, NEW y \in Addr
        PROVE  y \in leased'[x] <=> y \in leased[x] /\ ppSess[s] # [bas |-> x, ip |-> y]
    <3>1. CASE ppSess[s] = NoSession
      BY <1>2, <3>1 DEF PpDisable, Released, Addr
    <3>2. CASE ppSess[s] # NoSession
      <4>1. ppSess[s] \in [bas : Bas, ip : Addr]
        BY <3>2 DEF AccInv, AccTypeOK
      <4>. QED
        BY <1>2, <3>2, <4>1 DEF PpDisable, Released, AccInv, AccTypeOK
    <3>. QED
      BY <3>1, <3>2
  <2>3. ASSUME NEW x \in Bas, NEW y \in Addr
        PROVE  Book'[x][y] = IF Book[x][y] = s THEN Free ELSE Book[x][y]
    <3>a. BookRightAt(x, y) /\ BookRightAt(x, y)'
      BY <1>a
    <3>1. CASE Book[x][y] = s
      <4>1. y \notin leased'[x]
        BY <2>2, <3>1, <3>a DEF BookRightAt
      <4>. QED
        BY <3>1, <4>1, <3>a DEF BookRightAt
    <3>2. CASE y \notin leased[x]
      BY <2>2, <3>2, <3>a DEF BookRightAt
    <3>3. CASE y \in leased[x] /\ \E t \in Session \ {s} : Book[x][y] = t
      <4>1. PICK t \in Session \ {s} : Book[x][y] = t
        BY <3>3
      <4>2. Book'[x][y] = t
        BY <2>1, <4>1, <3>a DEF BookRightAt
      <4>. QED
        BY <4>1, <4>2
    <3>4. CASE y \in leased[x] /\ \A t \in Session : Book[x][y] # t
      <4>1. \A t \in Session : ppSess[t] # [bas |-> x, ip |-> y]
        BY <3>4, <3>a DEF BookRightAt
      <4>2. y \in leased'[x]
        BY <2>2, <3>4, <4>1
      <4>4. [bas |-> x, ip |-> y] # NoSession
        BY AddrNat
      <4>5. \A t \in Session : ppSess'[t] # [bas |-> x, ip |-> y]
        BY <2>1, <4>1, <4>4
      <4>3. Book[x][y] = Lost /\ Book'[x][y] = Lost
        BY <3>4, <4>1, <4>2, <4>5, <3>a DEF BookRightAt
      <4>. QED
        BY <3>4, <4>3
    <3>. QED
      BY <3>1, <3>2, <3>3, <3>4
  <2>4. Leases!Return(s)
    BY <2>3, BookShape DEF Leases!Return
  <2>. QED
    BY <2>4 DEF Leases!BookNext
<1>3. CASE Restart
  <2>1. ASSUME NEW x \in Bas, NEW y \in Addr PROVE Book'[x][y] = Free
    BY <1>3, <1>a DEF Restart, BookRightAt
  <2>. QED
    BY <2>1, BookShape DEF Leases!BookNext, Leases!Forget
<1>4. CASE UNCHANGED <<leased, basSess, ppSess>>
  BY <1>4 DEF Book, Holder
<1>. QED
  BY <1>1, <1>2, <1>3, <1>4, BookUntouched

\* PppoeEngine implements the book: an address is granted only while free, and
\* leaves a router only when that router asks again or disconnects, or when
\* the program restarts.
THEOREM AccKeepsTheBook == AccSpec => KeepsTheBook
<1>1. AccInv /\ AccInv' /\ [AccNext]_accVars => [Leases!BookNext]_Book
  BY BookStep
<1>. QED
  BY <1>1, BookInitially, AccInvariant, PTL DEF AccSpec, KeepsTheBook, Leases!BookSpec

-----------------------------------------------------------------------------
(* The shape of the state of Vpc.                                          *)

Switches == [Device -> Switch]

\* What the two ends show of the peer link and of their member ports.
SameLink(s, t) == \A d \in Device : t[d].up = s[d].up /\ t[d].port = s[d].port

\* A change of one field of a switch.
LEMMA SwitchWith ==
  ASSUME NEW s \in Switch
  PROVE  /\ \A x \in {"pending", "alive", "dead"} :
               /\ [s EXCEPT !.alive = x] \in Switch
               /\ [s EXCEPT !.alive = x].up = s.up /\ [s EXCEPT !.alive = x].port = s.port
         /\ \A x \in 0 .. Timeout + 1 :
               /\ [s EXCEPT !.age = x] \in Switch
               /\ [s EXCEPT !.age = x].up = s.up /\ [s EXCEPT !.age = x].port = s.port
         /\ \A x \in Role :
               /\ [s EXCEPT !.role = x] \in Switch
               /\ [s EXCEPT !.role = x].up = s.up /\ [s EXCEPT !.role = x].port = s.port
<1>1. ASSUME NEW x \in {"pending", "alive", "dead"}
      PROVE  /\ [s EXCEPT !.alive = x] \in Switch
             /\ [s EXCEPT !.alive = x].up = s.up /\ [s EXCEPT !.alive = x].port = s.port
  BY DEF Switch
<1>2. ASSUME NEW x \in 0 .. Timeout + 1
      PROVE  /\ [s EXCEPT !.age = x] \in Switch
             /\ [s EXCEPT !.age = x].up = s.up /\ [s EXCEPT !.age = x].port = s.port
  BY DEF Switch
<1>3. ASSUME NEW x \in Role
      PROVE  /\ [s EXCEPT !.role = x] \in Switch
             /\ [s EXCEPT !.role = x].up = s.up /\ [s EXCEPT !.role = x].port = s.port
  BY DEF Switch
<1>4. QED
  BY <1>1, <1>2, <1>3

\* A switch may change without its peer link.
LEMMA CheckedKeeps ==
  ASSUME NEW s \in Switches, NEW d \in Device
  PROVE  Checked(s, d) \in Switches /\ SameLink(s, Checked(s, d))
<1>1. s[d] \in Switch
  BY DEF Switches
<1>2. CASE s[d].alive = "alive" /\ s[d].age > Timeout
  <2> DEFINE x == [s[d] EXCEPT !.alive = "dead"]
  <2>1. x \in Switch /\ x.up = s[d].up /\ x.port = s[d].port
    BY <1>1, SwitchWith
  <2>2. Checked(s, d) = [s EXCEPT ![d] = x]
    BY <1>2 DEF Checked
  <2> HIDE DEF x
  <2>3. QED
    BY <2>1, <2>2 DEF Switches, SameLink
<1>3. CASE ~(s[d].alive = "alive" /\ s[d].age > Timeout)
  BY <1>3 DEF Checked, SameLink
<1>4. QED
  BY <1>2, <1>3

LEMMA HeardKeeps ==
  ASSUME sw \in Switches, NEW d \in Device, NEW p \in Device
  PROVE  Heard(d, p) \in Switches /\ SameLink(sw, Heard(d, p))
<1> DEFINE x == [sw[p] EXCEPT !.alive = "alive"]
           y == [x EXCEPT !.age = 0]
<1>1. sw[p] \in Switch
  BY DEF Switches
<1>2. x \in Switch /\ x.up = sw[p].up /\ x.port = sw[p].port
  BY <1>1, SwitchWith
<1>3. 0 \in 0 .. Timeout + 1
  BY VpcAssumption
<1> HIDE DEF x
<1>4. y \in Switch /\ y.up = x.up /\ y.port = x.port
  BY <1>2, <1>3, SwitchWith
<1>5. Heard(d, p) = [sw EXCEPT ![p] = y]
  BY DEF Heard, Switches, x
<1> HIDE DEF y
<1>6. QED
  BY <1>2, <1>4, <1>5 DEF Switches, SameLink

LEMMA ElectedKeeps ==
  ASSUME sw \in Switches, NEW a \in Device, NEW b \in Device, a # b
  PROVE  Elected(a, b) \in Switches /\ SameLink(sw, Elected(a, b))
<1> DEFINE first == Outranks(sw[a], sw[b])
           ra == IF first THEN "primary" ELSE "secondary"
           rb == IF first THEN "secondary" ELSE "primary"
           x == [sw[a] EXCEPT !.role = ra]
           y == [sw[b] EXCEPT !.role = rb]
<1>1. sw[a] \in Switch /\ sw[b] \in Switch
  BY DEF Switches
<1>2. ra \in Role /\ rb \in Role
  BY DEF Role
<1>3. Elected(a, b) = [[sw EXCEPT ![a] = x] EXCEPT ![b] = y]
  BY DEF Elected, Switches
<1> HIDE DEF first, ra, rb
<1>4. x \in Switch /\ x.up = sw[a].up /\ x.port = sw[a].port
  BY <1>1, <1>2, SwitchWith
<1>5. y \in Switch /\ y.up = sw[b].up /\ y.port = sw[b].port
  BY <1>1, <1>2, SwitchWith
<1> HIDE DEF x, y
<1>6. QED
  BY <1>3, <1>4, <1>5 DEF Switches, SameLink

\* Raising the peer link raises both ends or neither.
LEMMA RisenShows ==
  ASSUME NEW s \in Switches, NEW a \in Device, NEW b \in Device
  PROVE  /\ Risen(s, a, b) \in Switches
         /\ \A d \in Device \ {a, b} : /\ Risen(s, a, b)[d].up = s[d].up
                                       /\ Risen(s, a, b)[d].port = s[d].port
         /\ \/ Risen(s, a, b) = s
            \/ \A d \in {a, b} :
                  /\ Risen(s, a, b)[d].up
                  /\ \A v \in VpcId : Risen(s, a, b)[d].port[v] \in {"none", "up"}
<1>1. CASE ~(s[a].peerlink /\ s[b].peerlink)
  BY <1>1 DEF Risen
<1>2. CASE s[a].peerlink /\ s[b].peerlink
  <2> DEFINE ports(d) == [v \in VpcId |-> IF s[d].port[v] = "none" THEN "none" ELSE "up"]
             x(d) == [s[d] EXCEPT !.up = TRUE, !.port = ports(d)]
             r == Risen(s, a, b)
  <2>1. ASSUME NEW d \in Device
        PROVE  x(d) \in Switch /\ x(d).up /\ \A v \in VpcId : x(d).port[v] \in {"none", "up"}
    <3>1. s[d] \in Switch
      BY DEF Switches
    <3>2. ports(d) \in [VpcId -> {"none", "up", "down", "suspended"}]
      OBVIOUS
    <3>3. \A v \in VpcId : ports(d)[v] \in {"none", "up"}
      OBVIOUS
    <3> HIDE DEF ports
    <3>4. QED
      BY <3>1, <3>2, <3>3 DEF Switch
  <2>2. r = [d \in Device |-> IF d \in {a, b} THEN x(d) ELSE s[d]]
    BY <1>2 DEF Risen
  <2> HIDE DEF x, r
  <2>3. r \in Switches
    BY <2>1, <2>2 DEF Switches
  <2>4. \A d \in Device \ {a, b} : r[d] = s[d]
    BY <2>2
  <2>5. \A d \in {a, b} : r[d] = x(d)
    BY <2>2
  <2>6. QED
    BY <2>1, <2>3, <2>4, <2>5 DEF r
<1>3. QED
  BY <1>1, <1>2

-----------------------------------------------------------------------------

\* A peer that the keepalive loop finds.
LEMMA FoundFacts ==
  ASSUME TypeOK, NEW d \in Device, NEW p \in Found(d)
  PROVE  /\ p \in Device \cup {Nobody} /\ p # d
         /\ peers[d] # Nobody => p = peers[d]
<1>1. CASE peers[d] # Nobody
  BY <1>1 DEF Found, TypeOK
<1>2. CASE peers[d] = Nobody
  BY <1>2, VpcAssumption DEF Found, Fits
<1>3. QED
  BY <1>1, <1>2

\* Nobody is forgotten.
Grows(old, new) == \A d \in Device : old[d] # Nobody => new[d] = old[d]

\* The peers that d remembers once it has found p.
LEMMA RememberFacts ==
  ASSUME TypeOK, NEW d \in Device, NEW p \in Found(d)
  PROVE  /\ Remember(d, p) \in [Device -> Device \cup {Nobody}]
         /\ \A x \in Device : Remember(d, p)[x] # x
         /\ Remember(d, p)[d] = p
<1>1. /\ p \in Device \cup {Nobody} /\ p # d
      /\ peers[d] # Nobody => p = peers[d]
      /\ peers \in [Device -> Device \cup {Nobody}] /\ \A x \in Device : peers[x] # x
  BY FoundFacts DEF TypeOK
<1>2. CASE peers[d] # Nobody \/ p = Nobody
  BY <1>1, <1>2 DEF Remember
<1>3. CASE peers[d] = Nobody /\ p # Nobody
  <2>1. Remember(d, p) = [peers EXCEPT ![d] = p, ![p] = d] /\ p \in Device
    BY <1>1, <1>3 DEF Remember
  <2>2. QED
    BY <1>1, <2>1
<1>4. QED
  BY <1>2, <1>3

\* A turn of d: whom it remembers then, what it does to the switches, and
\* where its loop goes on.
LEMMA TurnFacts ==
  ASSUME TypeOK, NEW d \in Device, Turn(d)
  PROVE  /\ sw' \in Switches /\ SameLink(sw, sw')
         /\ peers' \in [Device -> Device \cup {Nobody}] /\ \A x \in Device : peers'[x] # x
         /\ \/ UNCHANGED loop
            \/ peers'[d] \in Device /\ loop' = [loop EXCEPT ![d] = At("received", peers'[d])]
         /\ d \in due /\ due' = due \ {d} /\ UNCHANGED <<rising, configs>>
<1>1. PICK p \in Found(d) :
          LET known == Remember(d, p)
              reaches == IF p = Nobody THEN FALSE ELSE Admits(p, d)
          IN  /\ peers' = IF reaches /\ known[p] = Nobody THEN [known EXCEPT ![p] = d] ELSE known
              /\ IF reaches /\ sw[p].alive # "alive"
                 THEN sw' = Heard(d, p) /\ loop' = [loop EXCEPT ![d] = At("received", p)]
                 ELSE /\ sw' = Checked(IF reaches THEN Heard(d, p) ELSE sw, d)
                      /\ UNCHANGED loop
  BY DEF Turn
<1> DEFINE known == Remember(d, p)
           reaches == IF p = Nobody THEN FALSE ELSE Admits(p, d)
<1>2. /\ peers' = IF reaches /\ known[p] = Nobody THEN [known EXCEPT ![p] = d] ELSE known
      /\ IF reaches /\ sw[p].alive # "alive"
         THEN sw' = Heard(d, p) /\ loop' = [loop EXCEPT ![d] = At("received", p)]
         ELSE /\ sw' = Checked(IF reaches THEN Heard(d, p) ELSE sw, d)
              /\ UNCHANGED loop
  BY <1>1
<1>3. p \in Device \cup {Nobody} /\ p # d /\ (reaches => p \in Device)
  BY FoundFacts
<1>4. known \in [Device -> Device \cup {Nobody}] /\ (\A x \in Device : known[x] # x) /\ known[d] = p
  BY RememberFacts
<1>5. sw \in Switches /\ SameLink(sw, sw)
  BY DEF TypeOK, Switches, SameLink
<1>6. reaches => Heard(d, p) \in Switches /\ SameLink(sw, Heard(d, p))
  BY <1>3, <1>5, HeardKeeps
<1>7. d \in due /\ due' = due \ {d} /\ UNCHANGED <<rising, configs>>
  BY DEF Turn
<1> HIDE DEF known, reaches
<1>8. /\ peers' \in [Device -> Device \cup {Nobody}] /\ \A x \in Device : peers'[x] # x
      /\ peers'[d] = p
  BY <1>2, <1>3, <1>4
<1>9. CASE reaches /\ sw[p].alive # "alive"
  BY <1>2, <1>3, <1>6, <1>7, <1>8, <1>9
<1>10. CASE ~(reaches /\ sw[p].alive # "alive")
  <2> DEFINE heard == IF reaches THEN Heard(d, p) ELSE sw
  <2>1. heard \in Switches /\ SameLink(sw, heard)
    BY <1>5, <1>6
  <2>2. sw' = Checked(heard, d) /\ UNCHANGED loop
    BY <1>2, <1>10
  <2> HIDE DEF heard
  <2>3. Checked(heard, d) \in Switches /\ SameLink(heard, Checked(heard, d))
    BY <2>1, CheckedKeeps
  <2>4. sw' \in Switches /\ SameLink(sw, sw')
    BY <2>1, <2>2, <2>3 DEF SameLink
  <2>5. QED
    BY <1>7, <1>8, <2>2, <2>4
<1>11. QED
  BY <1>9, <1>10

\* A command of the operator changes a switch and leaves its ends of the peer
\* link as they are, or takes a member port or the link up or down.
LEMMA SwitchConfigured ==
  ASSUME NEW s \in Switch
  PROVE  /\ \A x \in Domain : /\ [s EXCEPT !.dom = x] \in Switch
                              /\ [s EXCEPT !.dom = x].up = s.up /\ [s EXCEPT !.dom = x].port = s.port
         /\ \A x \in Rank : /\ [s EXCEPT !.priority = x] \in Switch
                            /\ [s EXCEPT !.priority = x].up = s.up
                            /\ [s EXCEPT !.priority = x].port = s.port
                            /\ [s EXCEPT !.mac = x] \in Switch
                            /\ [s EXCEPT !.mac = x].up = s.up /\ [s EXCEPT !.mac = x].port = s.port
         /\ /\ [s EXCEPT !.peerlink = TRUE] \in Switch
            /\ [s EXCEPT !.peerlink = TRUE].up = s.up /\ [s EXCEPT !.peerlink = TRUE].port = s.port
         /\ [s EXCEPT !.up = FALSE] \in Switch /\ ~[s EXCEPT !.up = FALSE].up
         /\ \A x \in [VpcId -> {"none", "up", "down", "suspended"}] :
               /\ [s EXCEPT !.port = x] \in Switch
               /\ [s EXCEPT !.port = x].up = s.up /\ [s EXCEPT !.port = x].port = x
<1>1. ASSUME NEW x \in Domain
      PROVE  /\ [s EXCEPT !.dom = x] \in Switch
             /\ [s EXCEPT !.dom = x].up = s.up /\ [s EXCEPT !.dom = x].port = s.port
  BY DEF Switch
<1>2. ASSUME NEW x \in Rank
      PROVE  /\ [s EXCEPT !.priority = x] \in Switch
             /\ [s EXCEPT !.priority = x].up = s.up
             /\ [s EXCEPT !.priority = x].port = s.port
             /\ [s EXCEPT !.mac = x] \in Switch
             /\ [s EXCEPT !.mac = x].up = s.up /\ [s EXCEPT !.mac = x].port = s.port
  BY DEF Switch
<1>3. /\ [s EXCEPT !.peerlink = TRUE] \in Switch
      /\ [s EXCEPT !.peerlink = TRUE].up = s.up /\ [s EXCEPT !.peerlink = TRUE].port = s.port
  BY DEF Switch
<1>5. [s EXCEPT !.up = FALSE] \in Switch /\ ~[s EXCEPT !.up = FALSE].up
  BY DEF Switch
<1>6. ASSUME NEW x \in [VpcId -> {"none", "up", "down", "suspended"}]
      PROVE  /\ [s EXCEPT !.port = x] \in Switch
             /\ [s EXCEPT !.port = x].up = s.up /\ [s EXCEPT !.port = x].port = x
  BY DEF Switch
<1>7. QED
  BY <1>1, <1>2, <1>3, <1>5, <1>6

\* One switch of them all changes.
LEMMA OneSwitch ==
  ASSUME NEW s \in Switches, NEW d \in Device, NEW x \in Switch
  PROVE  /\ [s EXCEPT ![d] = x] \in Switches
         /\ x.up = s[d].up /\ x.port = s[d].port => SameLink(s, [s EXCEPT ![d] = x])
  BY DEF Switches, SameLink

\* The commands that configure a switch.
LEMMA ConfiguredKeeps ==
  ASSUME TypeOK, NEW d \in Device,
         \/ \E dom \in Domain : CreateDomain(d, dom)
         \/ \E src \in Address \cup {None}, dest \in Address, vrf \in Vrf :
               SetKeepalive(d, src, dest, vrf)
         \/ \E r \in Rank : SetRank(d, r)
         \/ SetPeerLink(d)
  PROVE  sw' \in Switches /\ SameLink(sw, sw')
<1>1. sw \in Switches /\ sw[d] \in Switch
  BY DEF TypeOK, Switches
\* Every one of them puts a switch with the same two ends in the place of d.
<1>2. ASSUME NEW x \in Switch, x.up = sw[d].up, x.port = sw[d].port, sw' = [sw EXCEPT ![d] = x]
      PROVE  sw' \in Switches /\ SameLink(sw, sw')
  BY <1>1, <1>2, OneSwitch
<1>3. ASSUME NEW dom \in Domain, CreateDomain(d, dom) PROVE sw' \in Switches /\ SameLink(sw, sw')
  <2>1. sw' = [sw EXCEPT ![d] = [sw[d] EXCEPT !.dom = dom]]
    BY <1>1, <1>3 DEF CreateDomain, Switches
  <2>2. QED
    BY <1>1, <1>2, <2>1, SwitchConfigured
<1>4. ASSUME NEW src \in Address \cup {None}, NEW dest \in Address, NEW vrf \in Vrf,
             SetKeepalive(d, src, dest, vrf)
      PROVE  sw' \in Switches /\ SameLink(sw, sw')
  <2>1. sw' = [sw EXCEPT ![d] = [sw[d] EXCEPT !.src = src, !.dest = dest, !.vrf = vrf]]
    BY <1>1, <1>4 DEF SetKeepalive, Switches
  <2> DEFINE x == [sw[d] EXCEPT !.src = src, !.dest = dest, !.vrf = vrf]
  <2>2. x \in Switch /\ x.up = sw[d].up /\ x.port = sw[d].port
    BY <1>1 DEF Switch
  <2> HIDE DEF x
  <2>3. sw' = [sw EXCEPT ![d] = x]
    BY <2>1 DEF x
  <2>4. QED
    BY <1>2, <2>2, <2>3
<1>5. ASSUME NEW r \in Rank, SetRank(d, r) PROVE sw' \in Switches /\ SameLink(sw, sw')
  <2>1. \/ sw' = [sw EXCEPT ![d] = [sw[d] EXCEPT !.priority = r]]
        \/ sw' = [sw EXCEPT ![d] = [sw[d] EXCEPT !.mac = r]]
    BY <1>1, <1>5 DEF SetRank, Switches
  <2>2. QED
    BY <1>1, <1>2, <2>1, SwitchConfigured
<1>6. ASSUME SetPeerLink(d) PROVE sw' \in Switches /\ SameLink(sw, sw')
  <2>1. sw' = [sw EXCEPT ![d] = [sw[d] EXCEPT !.peerlink = TRUE]]
    BY <1>1, <1>6 DEF SetPeerLink, Switches
  <2>2. QED
    BY <1>1, <1>2, <2>1, SwitchConfigured
<1>7. QED
  BY <1>3, <1>4, <1>5, <1>6

\* A port that joins a vPC joins it as the peer link is.
LEMMA AddMemberShows ==
  ASSUME TypeOK, NEW d \in Device, NEW v \in VpcId, AddMember(d, v)
  PROVE  /\ sw' \in Switches /\ sw'[d].up = sw[d].up
         /\ \A x \in Device \ {d} : sw'[x] = sw[x]
         /\ \A w \in VpcId : sw'[d].port[w] = sw[d].port[w] \/ (sw[d].up /\ sw'[d].port[w] = "up")
                             \/ (~sw[d].up /\ sw'[d].port[w] = "down")
<1> DEFINE x == [sw[d].port EXCEPT ![v] = IF sw[d].up THEN "up" ELSE "down"]
           t == [sw[d] EXCEPT !.port = x]
<1>1. sw \in Switches /\ sw[d] \in Switch
  BY DEF TypeOK, Switches
<1>2. sw[d].port \in [VpcId -> {"none", "up", "down", "suspended"}] /\ sw[d].up \in BOOLEAN
  BY <1>1 DEF Switch
<1>3. x \in [VpcId -> {"none", "up", "down", "suspended"}]
  BY <1>2
<1>4. \A w \in VpcId : x[w] = sw[d].port[w] \/ (sw[d].up /\ x[w] = "up")
                       \/ (~sw[d].up /\ x[w] = "down")
  BY <1>2
<1>5. sw' = [sw EXCEPT ![d] = t]
  BY <1>1 DEF AddMember, Switches
<1> HIDE DEF x
<1>6. t \in Switch /\ t.up = sw[d].up /\ t.port = x
  BY <1>1, <1>3, SwitchConfigured
<1> HIDE DEF t
<1>7. sw' \in Switches /\ sw'[d] = t /\ \A y \in Device \ {d} : sw'[y] = sw[y]
  BY <1>1, <1>5, <1>6 DEF Switches
<1>8. QED
  BY <1>4, <1>6, <1>7

\* A failed switch and its peer keep what they show of the peer link.
LEMMA PeerFailsKeeps ==
  ASSUME TypeOK, NEW d \in Device, PeerFails(d)
  PROVE  sw' \in Switches /\ SameLink(sw, sw')
<1> DEFINE p == peers[d]
           x == [sw[d] EXCEPT !.alive = "dead"]
           down == [sw EXCEPT ![d] = x]
           y == [sw[p] EXCEPT !.alive = "dead"]
           z == [y EXCEPT !.role = IF y.role = "secondary" THEN "primary (oper)" ELSE y.role]
<1>1. sw \in Switches /\ sw[d] \in Switch /\ p \in Device \cup {Nobody} /\ p # d
  BY DEF TypeOK, Switches
<1>2. x \in Switch /\ x.up = sw[d].up /\ x.port = sw[d].port
  BY <1>1, SwitchWith
<1>3. p # Nobody => y \in Switch /\ y.up = sw[p].up /\ y.port = sw[p].port
  BY <1>1, SwitchWith DEF Switches
<1>4. down = [sw EXCEPT ![d].alive = "dead"]
  BY <1>1 DEF Switches
<1>5. p # Nobody => sw' = [down EXCEPT ![p] = z]
  <2> SUFFICES ASSUME p # Nobody PROVE sw' = [down EXCEPT ![p] = z]
    OBVIOUS
  <2>1. sw' = [down EXCEPT ![p].alive = "dead",
                           ![p].role = IF @ = "secondary" THEN "primary (oper)" ELSE @]
    BY <1>4 DEF PeerFails
  <2>2. p \in Device /\ down[p] = sw[p] /\ down \in [Device -> Switch]
    BY <1>1, <1>2 DEF Switches
  <2>3. QED
    BY <2>1, <2>2
<1>6. p = Nobody => sw' = down
  BY <1>4 DEF PeerFails
<1>7. down \in Switches /\ SameLink(sw, down)
  BY <1>1, <1>2, OneSwitch
<1> HIDE DEF x
<1>8. p # Nobody => z \in Switch /\ z.up = y.up /\ z.port = y.port
  <2> SUFFICES ASSUME p # Nobody PROVE z \in Switch /\ z.up = y.up /\ z.port = y.port
    OBVIOUS
  <2> DEFINE r == IF y.role = "secondary" THEN "primary (oper)" ELSE y.role
  <2>1. y \in Switch
    BY <1>3
  <2>2. r \in Role
    BY <2>1 DEF Switch, Role
  <2> HIDE DEF y, r
  <2>3. [y EXCEPT !.role = r] \in Switch /\ [y EXCEPT !.role = r].up = y.up
        /\ [y EXCEPT !.role = r].port = y.port
    BY <2>1, <2>2, SwitchWith
  <2>4. QED
    BY <2>3 DEF r
<1>9. p # Nobody => down[p] = sw[p]
  BY <1>1 DEF Switches
<1> HIDE DEF y, z, down
<1>10. CASE p # Nobody
  <2>1. z \in Switch /\ z.up = down[p].up /\ z.port = down[p].port /\ p \in Device
    BY <1>1, <1>3, <1>8, <1>9, <1>10
  <2>2. sw' \in Switches /\ SameLink(down, sw')
    BY <1>5, <1>7, <1>10, <2>1, OneSwitch
  <2>3. QED
    BY <1>7, <2>2 DEF SameLink
<1>11. QED
  BY <1>6, <1>7, <1>10

\* A peer link that fails is down at both ends.
LEMMA LinkFailsShows ==
  ASSUME TypeOK, NEW d \in Device, LinkFails(d)
  PROVE  /\ sw' \in Switches
         /\ \A x \in Device : sw'[x].up <=> sw[x].up /\ x \notin {d, peers[d]}
         /\ \A x \in Device \ {d, peers[d]} : sw'[x].port = sw[x].port
<1> DEFINE p == peers[d]
           x == [sw[d] EXCEPT !.up = FALSE]
           down == [sw EXCEPT ![d] = x]
           y == [sw[p] EXCEPT !.up = FALSE]
           suspended == [v \in VpcId |-> IF sw[p].port[v] = "none" THEN "none" ELSE "suspended"]
           ports == IF sw[p].role \in {"secondary", "none"} THEN suspended ELSE y.port
           z == [y EXCEPT !.port = ports]
<1>1. sw \in Switches /\ sw[d] \in Switch /\ p \in Device \cup {Nobody} /\ p # d
  BY DEF TypeOK, Switches
<1>2. x \in Switch /\ ~x.up
  BY <1>1, SwitchConfigured
<1>3. p # Nobody => y \in Switch /\ ~y.up
  BY <1>1, SwitchConfigured DEF Switches
<1>4. down = [sw EXCEPT ![d].up = FALSE]
  BY <1>1 DEF Switches
<1>5. p # Nobody => sw' = [down EXCEPT ![p] = z]
  <2> SUFFICES ASSUME p # Nobody PROVE sw' = [down EXCEPT ![p] = z]
    OBVIOUS
  <2>1. sw' = [down EXCEPT ![p].up = FALSE,
                           ![p].port = IF sw[p].role \in {"secondary", "none"}
                                       THEN suspended ELSE @]
    BY <1>4 DEF LinkFails
  <2>2. p \in Device /\ down[p] = sw[p] /\ down \in [Device -> Switch]
    BY <1>1, <1>2 DEF Switches
  <2>3. QED
    BY <2>1, <2>2
<1>6. p = Nobody => sw' = down
  BY <1>4 DEF LinkFails
<1>7. down \in Switches
  BY <1>1, <1>2, OneSwitch
<1>8. p # Nobody => z \in Switch /\ z.up = y.up
  <2> SUFFICES ASSUME p # Nobody PROVE z \in Switch /\ z.up = y.up
    OBVIOUS
  <2>1. y \in Switch
    BY <1>3
  <2>2. ports \in [VpcId -> {"none", "up", "down", "suspended"}]
    BY <2>1 DEF Switch
  <2> HIDE DEF y, ports
  <2>3. QED
    BY <2>1, <2>2, SwitchConfigured
<1>9. \A r \in Device \ {d} : down[r] = sw[r]
  BY <1>1 DEF Switches
<1>10. down[d] = x
  BY <1>1 DEF Switches
<1> HIDE DEF x, y, z, down
<1>11. \A r \in Device : sw[r].up \in BOOLEAN /\ down[r].up \in BOOLEAN
  BY <1>1, <1>7 DEF Switches, Switch
<1>12. CASE p = Nobody
  BY <1>1, <1>2, <1>6, <1>7, <1>9, <1>10, <1>11, <1>12, VpcAssumption
<1>13. CASE p # Nobody
  <2>1. p \in Device /\ z \in Switch /\ ~z.up
    BY <1>1, <1>3, <1>8, <1>13
  <2>2. sw' \in Switches /\ sw'[p] = z /\ \A r \in Device \ {p} : sw'[r] = down[r]
    BY <1>5, <1>7, <1>13, <2>1 DEF Switches
  <2>3. QED
    BY <1>1, <1>2, <1>9, <1>10, <1>11, <2>1, <2>2
<1>14. QED
  BY <1>12, <1>13

-----------------------------------------------------------------------------

\* A loop that waits for its receiver's logs waits for another switch.
VpcTyped ==
  /\ TypeOK
  /\ \A d \in Device : loop[d].pc \in {"received", "elected"} => loop[d].to \in Device \ {d}

LEMMA VpcTypeInit == Init => VpcTyped
<1> SUFFICES ASSUME Init PROVE VpcTyped
  OBVIOUS
<1> DEFINE lowest == CHOOSE r \in Rank : \A q \in Rank : q <= r
<1>1. lowest \in Rank
  BY VpcAssumption
<1>2. 0 \in 0 .. Timeout + 1 /\ 0 \in 0 .. MaxConfig
  BY VpcAssumption
<1> HIDE DEF lowest
<1>3. sw = [d \in Device |->
              [dom |-> Setup[d].dom, src |-> Setup[d].src, dest |-> Setup[d].dest,
               vrf |-> Setup[d].vrf, mac |-> Setup[d].mac, priority |-> lowest,
               role |-> "none", alive |-> "pending", age |-> 0,
               peerlink |-> Setup[d].peerlink, up |-> FALSE,
               port |-> [v \in VpcId |-> IF v \in Setup[d].ports THEN "down" ELSE "none"]]]
  BY DEF Init, lowest
<1>4. \A d \in Device :
          /\ Setup[d].dom \in Domain \cup {None} /\ Setup[d].src \in Address \cup {None}
          /\ Setup[d].dest \in Address \cup {None} /\ Setup[d].vrf \in Vrf
          /\ Setup[d].mac \in Rank /\ Setup[d].peerlink \in BOOLEAN
  BY VpcAssumption
<1>5. sw \in [Device -> Switch]
  BY <1>1, <1>2, <1>3, <1>4 DEF Switch, Role
<1>6. /\ peers = [d \in Device |-> Nobody] /\ due = {} /\ rising = {} /\ configs = 0
      /\ loop = [d \in Device |-> At(IF Setup[d].dest = None THEN "off" ELSE "starting", Nobody)]
  BY DEF Init
<1>7. loop \in [Device -> Loop] /\ \A d \in Device : loop[d].pc \in {"off", "starting"}
  BY <1>6 DEF Loop, At
<1>8. peers \in [Device -> Device \cup {Nobody}] /\ \A d \in Device : peers[d] # d
  BY <1>6, VpcAssumption
<1>9. QED
  BY <1>2, <1>5, <1>6, <1>7, <1>8 DEF VpcTyped, TypeOK

\* What the parts of a step keep makes the shape of the whole state.
LEMMA VpcTypedBy ==
  ASSUME sw' \in Switches,
         peers' \in [Device -> Device \cup {Nobody}], \A d \in Device : peers'[d] # d,
         loop' \in [Device -> Loop],
         \A d \in Device : loop'[d].pc \in {"received", "elected"} => loop'[d].to \in Device \ {d},
         due' \subseteq Device, \A d \in due' : loop'[d].pc = "asleep",
         rising' \subseteq Device \X Device, configs' \in 0 .. MaxConfig
  PROVE  VpcTyped'
  BY DEF VpcTyped, TypeOK, Switches

\* A loop of d that goes on somewhere else, its turn being over.
LEMMA LoopMoves ==
  ASSUME VpcTyped, NEW d \in Device, NEW pc \in {"off", "starting", "asleep", "received", "elected"},
         NEW to \in Device \cup {Nobody}, pc \in {"received", "elected"} => to \in Device \ {d},
         loop' = [loop EXCEPT ![d] = At(pc, to)], due' = due \ {d}
  PROVE  /\ loop' \in [Device -> Loop]
         /\ \A x \in Device : loop'[x].pc \in {"received", "elected"} => loop'[x].to \in Device \ {x}
         /\ due' \subseteq Device /\ \A x \in due' : loop'[x].pc = "asleep"
<1>1. loop \in [Device -> Loop] /\ due \subseteq {x \in Device : loop[x].pc = "asleep"}
  BY DEF VpcTyped, TypeOK
<1>2. At(pc, to) \in Loop /\ At(pc, to).pc = pc /\ At(pc, to).to = to
  BY DEF At, Loop
<1>3. \A x \in Device : loop'[x] = IF x = d THEN At(pc, to) ELSE loop[x]
  BY <1>1
<1>4. loop' \in [Device -> Loop]
  BY <1>1, <1>2
<1>5. \A x \in Device : loop'[x].pc \in {"received", "elected"} => loop'[x].to \in Device \ {x}
  BY <1>2, <1>3 DEF VpcTyped
<1>6. QED
  BY <1>1, <1>3, <1>4, <1>5

LEMMA VpcTypeCommand ==
  ASSUME VpcTyped, Command
  PROVE  VpcTyped'
<1>1. TypeOK /\ sw \in Switches
  BY DEF VpcTyped, TypeOK, Switches
<1>2. configs' \in 0 .. MaxConfig
  <2>1. Configure
    BY DEF Command, CreateDomain, SetKeepalive, SetRank, SetPeerLink, AddMember, PeerFails, LinkFails
  <2>2. QED
    BY <1>1, <2>1, VpcAssumption DEF Configure, TypeOK
<1>3. PICK d \in Device :
        \/ \E dom \in Domain : CreateDomain(d, dom)
        \/ \E src \in Address \cup {None}, dest \in Address, vrf \in Vrf :
              SetKeepalive(d, src, dest, vrf)
        \/ \E r \in Rank : SetRank(d, r)
        \/ SetPeerLink(d)
        \/ \E v \in VpcId : AddMember(d, v)
        \/ PeerFails(d)
        \/ LinkFails(d)
  BY DEF Command
<1>4. UNCHANGED peers
  BY <1>3 DEF CreateDomain, SetKeepalive, SetRank, SetPeerLink, AddMember, PeerFails, LinkFails
<1>5. sw' \in Switches
  BY <1>1, <1>3, ConfiguredKeeps, AddMemberShows, PeerFailsKeeps, LinkFailsShows
<1>6. rising' \subseteq Device \X Device
  <2>1. CASE SetPeerLink(d)
    BY <1>1, <2>1 DEF SetPeerLink, TypeOK
  <2>2. CASE UNCHANGED rising
    BY <1>1, <2>2 DEF TypeOK
  <2>3. QED
    BY <1>3, <2>1, <2>2 DEF CreateDomain, SetKeepalive, SetRank, AddMember, PeerFails, LinkFails
<1>7. CASE UNCHANGED <<loop, due>>
  BY <1>1, <1>2, <1>4, <1>5, <1>6, <1>7, VpcTypedBy DEF VpcTyped, TypeOK
<1>8. CASE \/ \E src \in Address \cup {None}, dest \in Address, vrf \in Vrf :
                 SetKeepalive(d, src, dest, vrf)
           \/ PeerFails(d)
  <2>1. PICK pc \in {"off", "starting"} : loop' = [loop EXCEPT ![d] = At(pc, Nobody)]
    BY <1>8 DEF SetKeepalive, PeerFails
  <2>2. due' = due \ {d}
    BY <1>8 DEF SetKeepalive, PeerFails
  <2>3. /\ loop' \in [Device -> Loop]
        /\ \A x \in Device : loop'[x].pc \in {"received", "elected"} => loop'[x].to \in Device \ {x}
        /\ due' \subseteq Device /\ \A x \in due' : loop'[x].pc = "asleep"
    BY <2>1, <2>2, LoopMoves
  <2>4. QED
    BY <1>1, <1>2, <1>4, <1>5, <1>6, <2>3, VpcTypedBy DEF TypeOK
<1>9. QED
  BY <1>3, <1>7, <1>8 DEF CreateDomain, SetRank, SetPeerLink, AddMember, LinkFails

LEMMA VpcTypeBackground ==
  ASSUME VpcTyped, Background
  PROVE  VpcTyped'
<1>1. /\ TypeOK /\ sw \in Switches /\ loop \in [Device -> Loop]
      /\ peers \in [Device -> Device \cup {Nobody}] /\ \A d \in Device : peers[d] # d
      /\ due \subseteq Device /\ (\A d \in due : loop[d].pc = "asleep")
      /\ rising \subseteq Device \X Device /\ configs \in 0 .. MaxConfig
  BY DEF VpcTyped, TypeOK, Switches
<1>2. ASSUME NEW d \in Device, Begin(d) PROVE VpcTyped'
  <2>1. PICK p \in Found(d) : peers' = Remember(d, p)
    BY <1>2 DEF Begin
  <2>2. peers' \in [Device -> Device \cup {Nobody}] /\ \A x \in Device : peers'[x] # x
    BY <1>1, <2>1, RememberFacts
  <2>3. /\ loop' = [loop EXCEPT ![d] = At("asleep", Nobody)] /\ UNCHANGED <<sw, rising, configs>>
        /\ due' = due \ {d}
    BY <1>1, <1>2 DEF Begin
  <2>4. /\ loop' \in [Device -> Loop]
        /\ \A x \in Device : loop'[x].pc \in {"received", "elected"} => loop'[x].to \in Device \ {x}
        /\ due' \subseteq Device /\ \A x \in due' : loop'[x].pc = "asleep"
    BY <2>3, LoopMoves
  <2>5. QED
    BY <1>1, <2>2, <2>3, <2>4, VpcTypedBy
<1>3. ASSUME NEW d \in Device, Turn(d) PROVE VpcTyped'
  <2>1. /\ sw' \in Switches
        /\ peers' \in [Device -> Device \cup {Nobody}] /\ \A x \in Device : peers'[x] # x
        /\ \/ UNCHANGED loop
           \/ peers'[d] \in Device /\ loop' = [loop EXCEPT ![d] = At("received", peers'[d])]
        /\ due' = due \ {d} /\ UNCHANGED <<rising, configs>>
    BY <1>1, <1>3, TurnFacts
  <2>2. CASE UNCHANGED loop
    BY <1>1, <2>1, <2>2, VpcTypedBy DEF VpcTyped
  <2>3. CASE peers'[d] \in Device /\ loop' = [loop EXCEPT ![d] = At("received", peers'[d])]
    <3>1. peers'[d] \in Device \ {d}
      BY <2>1, <2>3
    <3>2. /\ loop' \in [Device -> Loop]
          /\ \A x \in Device : loop'[x].pc \in {"received", "elected"} => loop'[x].to \in Device \ {x}
          /\ due' \subseteq Device /\ \A x \in due' : loop'[x].pc = "asleep"
      BY <2>1, <2>3, <3>1, LoopMoves
    <3>3. QED
      BY <1>1, <2>1, <3>2, VpcTypedBy
  <2>4. QED
    BY <2>1, <2>2, <2>3
<1>4. ASSUME NEW d \in Device, Elect(d) PROVE VpcTyped'
  <2>1. loop[d].pc = "received" /\ loop[d].to \in Device \ {d}
    BY <1>4 DEF Elect, VpcTyped
  <2>2. sw' \in Switches
    BY <1>1, <1>4, <2>1, ElectedKeeps DEF Elect
  <2>3. loop' = [loop EXCEPT ![d] = At("elected", loop[d].to)]
    <3>1. loop[d] \in Loop /\ loop' = [loop EXCEPT ![d] = [loop[d] EXCEPT !.pc = "elected"]]
      BY <1>1, <1>4 DEF Elect
    <3>2. [loop[d] EXCEPT !.pc = "elected"] = At("elected", loop[d].to)
      BY <3>1 DEF Loop, At
    <3>3. QED
      BY <3>1, <3>2
  <2>4. UNCHANGED <<peers, rising, configs>> /\ due' = due \ {d}
    BY <1>1, <1>4, <2>1 DEF Elect
  <2>5. /\ loop' \in [Device -> Loop]
        /\ \A x \in Device : loop'[x].pc \in {"received", "elected"} => loop'[x].to \in Device \ {x}
        /\ due' \subseteq Device /\ \A x \in due' : loop'[x].pc = "asleep"
    BY <2>1, <2>3, <2>4, LoopMoves
  <2>6. QED
    BY <1>1, <2>2, <2>4, <2>5, VpcTypedBy
<1>5. ASSUME NEW d \in Device, Raise(d) PROVE VpcTyped'
  <2>1. loop[d].pc = "elected" /\ loop[d].to \in Device \ {d}
    BY <1>5 DEF Raise, VpcTyped
  <2>2. Risen(sw, loop[d].to, d) \in Switches
    BY <1>1, <2>1, RisenShows
  <2>3. sw' \in Switches
    BY <1>5, <2>2, CheckedKeeps DEF Raise
  <2>4. /\ loop' = [loop EXCEPT ![d] = At("asleep", Nobody)] /\ UNCHANGED <<peers, rising, configs>>
        /\ due' = due \ {d}
    BY <1>1, <1>5, <2>1 DEF Raise
  <2>5. /\ loop' \in [Device -> Loop]
        /\ \A x \in Device : loop'[x].pc \in {"received", "elected"} => loop'[x].to \in Device \ {x}
        /\ due' \subseteq Device /\ \A x \in due' : loop'[x].pc = "asleep"
    BY <2>4, LoopMoves
  <2>6. QED
    BY <1>1, <2>3, <2>4, <2>5, VpcTypedBy
<1>6. ASSUME NEW x \in rising, Rise(x) PROVE VpcTyped'
  <2>1. x[1] \in Device /\ x[2] \in Device
    BY <1>1
  <2>2. sw' \in Switches
    BY <1>1, <1>6, <2>1, RisenShows DEF Rise
  <2>3. UNCHANGED <<peers, loop, due, configs>> /\ rising' \subseteq Device \X Device
    BY <1>1, <1>6 DEF Rise
  <2>4. QED
    BY <1>1, <2>2, <2>3, VpcTypedBy DEF VpcTyped
<1>7. ASSUME Tick PROVE VpcTyped'
  <2>1. /\ UNCHANGED <<peers, loop, rising, configs>> /\ due' = {d \in Device : loop[d].pc = "asleep"}
        /\ sw' = [d \in Device |-> [sw[d] EXCEPT !.age = IF @ > Timeout THEN @ ELSE @ + 1]]
    BY <1>7 DEF Tick
  <2>2. ASSUME NEW d \in Device
        PROVE  [sw[d] EXCEPT !.age = IF @ > Timeout THEN @ ELSE @ + 1] \in Switch
    <3> DEFINE a == IF sw[d].age > Timeout THEN sw[d].age ELSE sw[d].age + 1
    <3>1. sw[d] \in Switch /\ sw[d].age \in 0 .. Timeout + 1
      BY <1>1 DEF Switches, Switch
    <3>2. a \in 0 .. Timeout + 1
      BY <3>1, VpcAssumption
    <3>3. [sw[d] EXCEPT !.age = IF @ > Timeout THEN @ ELSE @ + 1] = [sw[d] EXCEPT !.age = a]
      OBVIOUS
    <3> HIDE DEF a
    <3>4. QED
      BY <3>1, <3>2, <3>3, SwitchWith
  <2>3. sw' \in Switches
    BY <2>1, <2>2 DEF Switches
  <2>4. QED
    BY <1>1, <2>1, <2>3, VpcTypedBy DEF VpcTyped
<1>8. QED
  BY <1>2, <1>3, <1>4, <1>5, <1>6, <1>7 DEF Background

LEMMA VpcTypeStep == VpcTyped /\ [Next]_vars => VpcTyped'
<1>1. ASSUME VpcTyped, UNCHANGED vars PROVE VpcTyped'
  BY <1>1 DEF vars, VpcTyped, TypeOK
<1>2. QED
  BY <1>1, VpcTypeCommand, VpcTypeBackground DEF Next

\* The state of the switches keeps the shape the engine gives it, for any
\* number of switches.
THEOREM VpcTypeCorrect == Spec => []TypeOK
<1>1. VpcTyped => TypeOK
  BY DEF VpcTyped
<1>2. QED
  BY <1>1, VpcTypeInit, VpcTypeStep, PTL DEF Spec

-----------------------------------------------------------------------------
(* The peer link.  What one end shows is true of the other as long as each  *)
(* is the other's peer: PeersMutual, which two switches always satisfy.     *)

\* PeerLinkAgrees of some switches and their peers.
LinkAgrees(s, known) ==
  \A d \in Device :
      /\ s[d].up => known[d] # Nobody /\ s[known[d]].up
      /\ s[d].up => \A v \in VpcId : s[d].port[v] \in {"none", "up"}

\* A loop that waits for its receiver's logs waits for the peer its switch
\* remembers, and a peer link is raised for a switch and its peer.
WaitsForPeer ==
  /\ \A d \in Device : loop[d].pc \in {"received", "elected"} => peers[d] = loop[d].to
  /\ \A x \in rising : peers[x[1]] = x[2]

\* A step that leaves both ends of every link as they are.
LEMMA AgreesKept ==
  ASSUME NEW s, NEW t, NEW old \in [Device -> Device \cup {Nobody}], NEW new,
         LinkAgrees(s, old), SameLink(s, t), Grows(old, new)
  PROVE  LinkAgrees(t, new)
<1> SUFFICES ASSUME NEW d \in Device, t[d].up
             PROVE  /\ new[d] # Nobody /\ t[new[d]].up
                    /\ \A v \in VpcId : t[d].port[v] \in {"none", "up"}
  BY DEF LinkAgrees
<1>1. s[d].up /\ t[d].port = s[d].port
  BY DEF SameLink
<1>2. old[d] \in Device /\ s[old[d]].up /\ \A v \in VpcId : s[d].port[v] \in {"none", "up"}
  BY <1>1 DEF LinkAgrees
<1>3. new[d] = old[d]
  BY <1>2, VpcAssumption DEF Grows
<1>4. t[old[d]].up
  BY <1>2 DEF SameLink
<1>5. QED
  BY <1>1, <1>2, <1>3, <1>4, VpcAssumption

\* Raising the peer link of two peers.
LEMMA AgreesRisen ==
  ASSUME TypeOK, PeersMutual, PeerLinkAgrees, NEW a \in Device, NEW b \in Device, peers[a] = b
  PROVE  LinkAgrees(Risen(sw, a, b), peers) /\ Risen(sw, a, b) \in Switches
<1> DEFINE r == Risen(sw, a, b)
<1>1. sw \in Switches /\ peers \in [Device -> Device \cup {Nobody}]
  BY DEF TypeOK, Switches
<1>2. /\ r \in Switches
      /\ \A d \in Device \ {a, b} : r[d].up = sw[d].up /\ r[d].port = sw[d].port
      /\ \/ r = sw
         \/ \A d \in {a, b} : r[d].up /\ \A v \in VpcId : r[d].port[v] \in {"none", "up"}
  BY <1>1, RisenShows
<1>3. LinkAgrees(sw, peers)
  BY DEF PeerLinkAgrees, LinkAgrees
<1>4. peers[b] = a
  BY VpcAssumption DEF PeersMutual
<1> HIDE DEF r
<1>5. CASE \A d \in {a, b} : r[d].up /\ \A v \in VpcId : r[d].port[v] \in {"none", "up"}
  <2> SUFFICES ASSUME NEW d \in Device, r[d].up
               PROVE  /\ peers[d] # Nobody /\ r[peers[d]].up
                      /\ \A v \in VpcId : r[d].port[v] \in {"none", "up"}
    BY <1>2 DEF LinkAgrees, r
  <2>1. CASE d \in {a, b}
    BY <1>4, <1>5, <2>1, VpcAssumption
  <2>2. CASE d \notin {a, b}
    <3>1. sw[d].up /\ r[d].port = sw[d].port
      BY <1>2, <2>2
    <3>2. /\ peers[d] \in Device /\ sw[peers[d]].up
          /\ \A v \in VpcId : sw[d].port[v] \in {"none", "up"}
      BY <1>1, <1>3, <3>1 DEF LinkAgrees
    <3>3. r[peers[d]].up
      BY <1>2, <1>5, <3>2
    <3>4. QED
      BY <3>1, <3>2, <3>3, VpcAssumption
  <2>3. QED
    BY <2>1, <2>2
<1>6. QED
  BY <1>2, <1>3, <1>5 DEF r

\* Switches whose peers are each other's remember them for good.
LEMMA PeersGrow ==
  ASSUME TypeOK, PeersMutual, PeersMutual', NEW d \in Device, NEW p \in Found(d),
         \/ peers' = Remember(d, p)
         \/ /\ p \in Device /\ Remember(d, p)[p] = Nobody
            /\ peers' = [Remember(d, p) EXCEPT ![p] = d]
  PROVE  Grows(peers, peers')
<1>1. /\ p \in Device \cup {Nobody} /\ p # d
      /\ peers \in [Device -> Device \cup {Nobody}] /\ \A x \in Device : peers[x] # x
  BY FoundFacts DEF TypeOK
<1>2. CASE peers[d] # Nobody \/ p = Nobody
  <2>1. Remember(d, p) = peers
    BY <1>2 DEF Remember
  <2>2. QED
    BY <1>1, <2>1 DEF Grows
<1>3. CASE peers[d] = Nobody /\ p # Nobody
  <2>1. p \in Device /\ Remember(d, p) = [peers EXCEPT ![d] = p, ![p] = d]
    BY <1>1, <1>3 DEF Remember
  <2>2. Remember(d, p)[p] = d /\ d # Nobody
    BY <1>1, <2>1, VpcAssumption
  <2>3. peers' = [peers EXCEPT ![d] = p, ![p] = d]
    BY <2>1, <2>2
  <2>4. peers[p] = Nobody
    <3> SUFFICES ASSUME peers[p] # Nobody PROVE FALSE
      OBVIOUS
    <3> DEFINE q == peers[p]
    <3>1. q \in Device /\ peers[q] = p
      BY <1>1, <2>1 DEF PeersMutual
    <3>2. q # d /\ q # p
      BY <1>1, <1>3, <2>1, <3>1
    <3> HIDE DEF q
    <3>3. peers'[q] = p /\ peers'[p] = d
      BY <1>1, <2>1, <2>3, <3>1, <3>2
    <3>4. peers'[p] = q
      BY <1>3, <3>1, <3>3 DEF PeersMutual
    <3>5. QED
      BY <3>2, <3>3, <3>4
  <2>5. QED
    BY <1>1, <1>3, <2>1, <2>3, <2>4 DEF Grows
<1>4. QED
  BY <1>2, <1>3

VpcInv == VpcTyped /\ WaitsForPeer /\ PeerLinkAgrees

LEMMA VpcPeerStep ==
  ASSUME VpcInv, VpcTyped', PeersMutual, PeersMutual', [Next]_vars
  PROVE  VpcInv'
<1>1. /\ TypeOK /\ sw \in Switches /\ loop \in [Device -> Loop] /\ rising \subseteq Device \X Device
      /\ peers \in [Device -> Device \cup {Nobody}] /\ LinkAgrees(sw, peers)
      /\ WaitsForPeer
  BY DEF VpcInv, VpcTyped, TypeOK, Switches, PeerLinkAgrees, LinkAgrees
<1>2. ASSUME LinkAgrees(sw', peers'), WaitsForPeer' PROVE VpcInv'
  BY <1>2 DEF VpcInv, PeerLinkAgrees, LinkAgrees
<1>3. Grows(peers, peers) /\ SameLink(sw, sw)
  BY DEF Grows, SameLink
\* Peers are not forgotten and nobody starts to wait.
<1>4. ASSUME Grows(peers, peers'), rising' \subseteq rising,
             \A x \in Device : loop'[x].pc \in {"received", "elected"} =>
                 loop[x].pc \in {"received", "elected"} /\ loop'[x].to = loop[x].to
      PROVE  WaitsForPeer'
  <2>1. ASSUME NEW x \in Device, loop'[x].pc \in {"received", "elected"}
        PROVE  peers'[x] = loop'[x].to
    <3>1. loop[x].to \in Device /\ peers[x] = loop[x].to /\ loop'[x].to = loop[x].to
      BY <1>1, <1>4, <2>1 DEF VpcInv, VpcTyped, WaitsForPeer
    <3>2. QED
      BY <1>4, <3>1, VpcAssumption DEF Grows
  <2>2. ASSUME NEW x \in rising' PROVE peers'[x[1]] = x[2]
    <3>1. x[1] \in Device /\ x[2] \in Device /\ peers[x[1]] = x[2]
      BY <1>1, <1>4, <2>2 DEF WaitsForPeer
    <3>2. QED
      BY <1>4, <3>1, VpcAssumption DEF Grows
  <2>3. QED
    BY <2>1, <2>2 DEF WaitsForPeer
\* The loop of d goes on to a place where it waits for nobody.
<1>5. ASSUME NEW d \in Device, NEW pc \in {"off", "starting", "asleep"},
             loop' = [loop EXCEPT ![d] = At(pc, Nobody)]
      PROVE  \A x \in Device : loop'[x].pc \in {"received", "elected"} =>
                 loop[x].pc \in {"received", "elected"} /\ loop'[x].to = loop[x].to
  BY <1>1, <1>5 DEF At
<1>6. ASSUME NEW d \in Device, Begin(d) PROVE VpcInv'
  <2>1. PICK p \in Found(d) : peers' = Remember(d, p)
    BY <1>6 DEF Begin
  <2>2. Grows(peers, peers')
    BY <1>1, <2>1, PeersGrow
  <2>3. loop' = [loop EXCEPT ![d] = At("asleep", Nobody)] /\ UNCHANGED <<sw, rising>>
    BY <1>6 DEF Begin
  <2>4. LinkAgrees(sw', peers')
    BY <1>1, <1>3, <2>2, <2>3, AgreesKept
  <2>5. WaitsForPeer'
    BY <1>4, <1>5, <2>2, <2>3
  <2>6. QED
    BY <1>2, <2>4, <2>5
<1>7. ASSUME NEW d \in Device, Turn(d) PROVE VpcInv'
  <2>1. PICK p \in Found(d) :
          \/ peers' = Remember(d, p)
          \/ /\ p \in Device /\ Remember(d, p)[p] = Nobody
             /\ peers' = [Remember(d, p) EXCEPT ![p] = d]
    <3>1. PICK p \in Found(d) :
            LET reaches == IF p = Nobody THEN FALSE ELSE Admits(p, d)
            IN  peers' = IF reaches /\ Remember(d, p)[p] = Nobody
                         THEN [Remember(d, p) EXCEPT ![p] = d] ELSE Remember(d, p)
      BY <1>7 DEF Turn
    <3>2. p \in Device \cup {Nobody}
      BY <1>1, FoundFacts
    <3>3. QED
      BY <3>1, <3>2
  <2>2. Grows(peers, peers')
    BY <1>1, <2>1, PeersGrow
  <2>3. /\ SameLink(sw, sw') /\ UNCHANGED rising
        /\ \/ UNCHANGED loop
           \/ loop' = [loop EXCEPT ![d] = At("received", peers'[d])]
    BY <1>1, <1>7, TurnFacts
  <2>4. LinkAgrees(sw', peers')
    BY <1>1, <2>2, <2>3, AgreesKept
  <2>5. CASE UNCHANGED loop
    <3>1. WaitsForPeer'
      BY <1>4, <2>2, <2>3, <2>5
    <3>2. QED
      BY <1>2, <2>4, <3>1
  <2>6. CASE loop' = [loop EXCEPT ![d] = At("received", peers'[d])]
    <3>1. \A x \in Device : loop'[x] = IF x = d THEN At("received", peers'[d]) ELSE loop[x]
      BY <1>1, <2>6
    <3>2. ASSUME NEW x \in Device, loop'[x].pc \in {"received", "elected"}
          PROVE  peers'[x] = loop'[x].to
      <4>1. CASE x = d
        BY <3>1, <4>1 DEF At
      <4>2. CASE x # d
        <5>1. loop'[x] = loop[x]
          BY <3>1, <4>2
        <5>2. loop[x].to \in Device /\ peers[x] = loop[x].to
          BY <1>1, <3>2, <5>1 DEF VpcInv, VpcTyped, WaitsForPeer
        <5>3. QED
          BY <2>2, <5>1, <5>2, VpcAssumption DEF Grows
      <4>3. QED
        BY <4>1, <4>2
    <3>3. ASSUME NEW x \in rising' PROVE peers'[x[1]] = x[2]
      <4>1. x[1] \in Device /\ x[2] \in Device /\ peers[x[1]] = x[2]
        BY <1>1, <2>3, <3>3 DEF WaitsForPeer
      <4>2. QED
        BY <2>2, <4>1, VpcAssumption DEF Grows
    <3>4. WaitsForPeer'
      BY <3>2, <3>3 DEF WaitsForPeer
    <3>5. QED
      BY <1>2, <2>4, <3>4
  <2>7. QED
    BY <2>3, <2>5, <2>6
<1>8. ASSUME NEW d \in Device, Elect(d) PROVE VpcInv'
  <2>1. loop[d].pc = "received" /\ loop[d].to \in Device \ {d}
    BY <1>8 DEF Elect, VpcInv, VpcTyped
  <2>2. SameLink(sw, sw')
    BY <1>1, <1>8, <2>1, ElectedKeeps DEF Elect
  <2>3. UNCHANGED <<peers, rising>> /\ loop' = [loop EXCEPT ![d].pc = "elected"]
    BY <1>8 DEF Elect
  <2>4. LinkAgrees(sw', peers')
    BY <1>1, <1>3, <2>2, <2>3, AgreesKept
  <2>5. \A x \in Device : loop'[x].pc \in {"received", "elected"} =>
            loop[x].pc \in {"received", "elected"} /\ loop'[x].to = loop[x].to
    BY <1>1, <2>1, <2>3 DEF Loop
  <2>6. WaitsForPeer'
    BY <1>3, <1>4, <2>3, <2>5
  <2>7. QED
    BY <1>2, <2>4, <2>6
<1>9. ASSUME NEW d \in Device, Raise(d) PROVE VpcInv'
  <2>1. loop[d].pc = "elected" /\ loop[d].to \in Device /\ peers[d] = loop[d].to
    BY <1>1, <1>9 DEF Raise, VpcInv, VpcTyped, WaitsForPeer
  <2>2. peers[loop[d].to] = d
    BY <2>1, VpcAssumption DEF PeersMutual
  <2> DEFINE r == Risen(sw, loop[d].to, d)
  <2>3. LinkAgrees(r, peers) /\ r \in Switches
    BY <1>1, <2>1, <2>2, AgreesRisen DEF VpcInv
  <2>4. /\ sw' = Checked(r, d) /\ UNCHANGED <<peers, rising>>
        /\ loop' = [loop EXCEPT ![d] = At("asleep", Nobody)]
    BY <1>9 DEF Raise
  <2> HIDE DEF r
  <2>5. SameLink(r, sw')
    BY <2>3, <2>4, CheckedKeeps
  <2>6. LinkAgrees(sw', peers')
    BY <1>1, <1>3, <2>3, <2>4, <2>5, AgreesKept
  <2>7. WaitsForPeer'
    BY <1>3, <1>4, <1>5, <2>4
  <2>8. QED
    BY <1>2, <2>6, <2>7
<1>10. ASSUME NEW x \in rising, Rise(x) PROVE VpcInv'
  <2>1. x[1] \in Device /\ x[2] \in Device /\ peers[x[1]] = x[2]
    BY <1>1 DEF WaitsForPeer
  <2>2. sw' = Risen(sw, x[1], x[2]) /\ UNCHANGED <<peers, loop>> /\ rising' \subseteq rising
    BY <1>10 DEF Rise
  <2>3. LinkAgrees(sw', peers')
    BY <1>1, <2>1, <2>2, AgreesRisen DEF VpcInv
  <2>4. WaitsForPeer'
    BY <1>3, <1>4, <2>2
  <2>5. QED
    BY <1>2, <2>3, <2>4
<1>11. ASSUME Tick PROVE VpcInv'
  <2>1. /\ UNCHANGED <<peers, loop, rising>>
        /\ sw' = [d \in Device |-> [sw[d] EXCEPT !.age = IF @ > Timeout THEN @ ELSE @ + 1]]
    BY <1>11 DEF Tick
  <2>2. SameLink(sw, sw')
    BY <1>1, <2>1 DEF SameLink, Switches, Switch
  <2>3. LinkAgrees(sw', peers')
    BY <1>1, <1>3, <2>1, <2>2, AgreesKept
  <2>4. WaitsForPeer'
    BY <1>3, <1>4, <2>1
  <2>5. QED
    BY <1>2, <2>3, <2>4
<1>12. ASSUME NEW d \in Device,
              \/ \E dom \in Domain : CreateDomain(d, dom)
              \/ \E src \in Address \cup {None}, dest \in Address, vrf \in Vrf :
                    SetKeepalive(d, src, dest, vrf)
              \/ \E r \in Rank : SetRank(d, r)
              \/ PeerFails(d)
       PROVE VpcInv'
  <2>1. SameLink(sw, sw')
    BY <1>1, <1>12, ConfiguredKeeps, PeerFailsKeeps
  <2>2. /\ UNCHANGED <<peers, rising>>
        /\ \/ UNCHANGED loop
           \/ \E pc \in {"off", "starting"} : loop' = [loop EXCEPT ![d] = At(pc, Nobody)]
    BY <1>12 DEF CreateDomain, SetKeepalive, SetRank, PeerFails
  <2>3. LinkAgrees(sw', peers')
    BY <1>1, <1>3, <2>1, <2>2, AgreesKept
  <2>4. \A x \in Device : loop'[x].pc \in {"received", "elected"} =>
            loop[x].pc \in {"received", "elected"} /\ loop'[x].to = loop[x].to
    BY <1>5, <2>2
  <2>5. WaitsForPeer'
    BY <1>3, <1>4, <2>2, <2>4
  <2>6. QED
    BY <1>2, <2>3, <2>5
<1>13. ASSUME NEW d \in Device, SetPeerLink(d) PROVE VpcInv'
  <2>1. SameLink(sw, sw')
    BY <1>1, <1>13, ConfiguredKeeps
  <2>2. UNCHANGED <<peers, loop>> /\ \A x \in rising' : x \in rising \/ x = <<d, peers[d]>>
    BY <1>13 DEF SetPeerLink
  <2>3. LinkAgrees(sw', peers')
    BY <1>1, <1>3, <2>1, <2>2, AgreesKept
  <2>4. WaitsForPeer'
    BY <1>1, <2>2 DEF WaitsForPeer
  <2>5. QED
    BY <1>2, <2>3, <2>4
<1>14. ASSUME NEW d \in Device, NEW v \in VpcId, AddMember(d, v) PROVE VpcInv'
  <2>1. /\ sw' \in Switches /\ sw'[d].up = sw[d].up
        /\ \A x \in Device \ {d} : sw'[x] = sw[x]
        /\ \A w \in VpcId : sw'[d].port[w] = sw[d].port[w] \/ (sw[d].up /\ sw'[d].port[w] = "up")
                            \/ (~sw[d].up /\ sw'[d].port[w] = "down")
    BY <1>1, <1>14, AddMemberShows
  <2>2. UNCHANGED <<peers, loop, rising>>
    BY <1>14 DEF AddMember
  <2>3. ASSUME NEW x \in Device, sw'[x].up
        PROVE  /\ peers[x] # Nobody /\ sw'[peers[x]].up
               /\ \A w \in VpcId : sw'[x].port[w] \in {"none", "up"}
    <3>1. sw[x].up
      BY <2>1, <2>3
    <3>2. /\ peers[x] \in Device /\ peers[x] # Nobody /\ sw[peers[x]].up
          /\ \A w \in VpcId : sw[x].port[w] \in {"none", "up"}
      BY <1>1, <3>1 DEF LinkAgrees
    <3>3. \A w \in VpcId : sw'[x].port[w] \in {"none", "up"}
      BY <2>1, <3>1, <3>2
    <3>4. QED
      BY <2>1, <3>2, <3>3
  <2>4. LinkAgrees(sw', peers')
    BY <2>2, <2>3 DEF LinkAgrees
  <2>5. WaitsForPeer'
    BY <1>3, <1>4, <2>2
  <2>6. QED
    BY <1>2, <2>4, <2>5
<1>15. ASSUME NEW d \in Device, LinkFails(d) PROVE VpcInv'
  <2>1. /\ \A x \in Device : sw'[x].up <=> sw[x].up /\ x \notin {d, peers[d]}
        /\ \A x \in Device \ {d, peers[d]} : sw'[x].port = sw[x].port
    BY <1>1, <1>15, LinkFailsShows
  <2>2. UNCHANGED <<peers, loop, rising>>
    BY <1>15 DEF LinkFails
  <2>3. ASSUME NEW x \in Device, sw'[x].up
        PROVE  /\ peers[x] # Nobody /\ sw'[peers[x]].up
               /\ \A w \in VpcId : sw'[x].port[w] \in {"none", "up"}
    <3>1. sw[x].up /\ x # d /\ x # peers[d] /\ sw'[x].port = sw[x].port
      BY <2>1, <2>3
    <3>2. /\ peers[x] \in Device /\ peers[x] # Nobody /\ sw[peers[x]].up
          /\ \A w \in VpcId : sw[x].port[w] \in {"none", "up"}
      BY <1>1, <3>1 DEF LinkAgrees
    <3>3. peers[peers[x]] = x
      BY <3>2 DEF PeersMutual
    <3>4. peers[x] # d
      BY <3>1, <3>3
    <3>5. peers[x] # peers[d]
      <4> SUFFICES ASSUME peers[x] = peers[d] PROVE FALSE
        OBVIOUS
      <4>1. peers[peers[d]] = d
        BY <3>2 DEF PeersMutual
      <4>2. QED
        BY <3>1, <3>3, <4>1
    <3>6. QED
      BY <2>1, <3>1, <3>2, <3>4, <3>5
  <2>4. LinkAgrees(sw', peers')
    BY <2>2, <2>3 DEF LinkAgrees
  <2>5. WaitsForPeer'
    BY <1>3, <1>4, <2>2
  <2>6. QED
    BY <1>2, <2>4, <2>5
<1>16. CASE UNCHANGED vars
  BY <1>16 DEF vars, VpcInv, VpcTyped, TypeOK, WaitsForPeer, PeerLinkAgrees
<1>17. QED
  BY <1>6, <1>7, <1>8, <1>9, <1>10, <1>11, <1>12, <1>13, <1>14, <1>15, <1>16
     DEF Next, Command, Background

LEMMA VpcInitInv == Init => VpcInv
<1> SUFFICES ASSUME Init PROVE VpcInv
  OBVIOUS
<1>1. \A d \in Device : loop[d].pc \in {"off", "starting"} /\ ~sw[d].up
  BY DEF Init, At
<1>2. rising = {}
  BY DEF Init
<1>3. QED
  BY <1>1, <1>2, VpcTypeInit DEF VpcInv, WaitsForPeer, PeerLinkAgrees

\* Whatever a link's failures and the operator's commands interleave with,
\* both ends show the same of the peer link: in every behaviour, with any
\* number of switches, whose remembered peers stay each other's.
THEOREM VpcPeerLinkAgrees == Spec /\ []PeersMutual => []PeerLinkAgrees
<1>1. VpcInv /\ PeersMutual /\ PeersMutual' /\ [Next]_vars => VpcInv'
  <2>1. VpcInv => VpcTyped
    BY DEF VpcInv
  <2>2. QED
    BY <2>1, VpcTypeStep, VpcPeerStep
<1>2. VpcInv => PeerLinkAgrees
  BY DEF VpcInv
<1>3. QED
  BY <1>1, <1>2, VpcInitInv, PTL DEF Spec

-----------------------------------------------------------------------------

\* Two switches remember each other or nobody.
LEMMA PairMutual ==
  ASSUME NEW a, NEW b, Device = {a, b}, VpcTyped, PeersMutual, [Next]_vars
  PROVE  PeersMutual'
<1>1. TypeOK /\ peers \in [Device -> Device \cup {Nobody}] /\ \A x \in Device : peers[x] # x
  BY DEF VpcTyped, TypeOK
<1>2. CASE UNCHANGED peers
  BY <1>2 DEF PeersMutual
<1>3. ASSUME NEW d \in Device, NEW p \in Found(d),
             \/ peers' = Remember(d, p)
             \/ /\ p \in Device /\ Remember(d, p)[p] = Nobody
                /\ peers' = [Remember(d, p) EXCEPT ![p] = d]
      PROVE  PeersMutual'
  <2>1. /\ p \in Device \cup {Nobody} /\ p # d /\ d # Nobody
        /\ peers[d] # Nobody => p = peers[d]
    BY <1>1, FoundFacts, VpcAssumption
  <2>2. CASE peers[d] # Nobody \/ p = Nobody
    <3>1. Remember(d, p) = peers
      BY <2>2 DEF Remember
    <3>2. p \in Device => peers[p] # Nobody
      BY <2>1, <2>2, VpcAssumption DEF PeersMutual
    <3>3. QED
      BY <1>2, <1>3, <3>1, <3>2
  <2>3. CASE peers[d] = Nobody /\ p # Nobody
    <3>1. p \in Device /\ Remember(d, p) = [peers EXCEPT ![d] = p, ![p] = d]
      BY <2>1, <2>3 DEF Remember
    <3>2. Remember(d, p)[p] = d
      BY <1>1, <2>1, <3>1
    <3>3. peers' = [peers EXCEPT ![d] = p, ![p] = d]
      BY <1>3, <2>1, <3>1, <3>2
    <3>4. \A x \in Device : x = d \/ x = p
      BY <2>1, <3>1
    <3>5. peers'[d] = p /\ peers'[p] = d
      BY <1>1, <2>1, <3>1, <3>3
    <3>6. QED
      BY <3>4, <3>5 DEF PeersMutual
  <2>4. QED
    BY <2>2, <2>3
<1>4. ASSUME NEW d \in Device, Begin(d) PROVE PeersMutual'
  BY <1>3, <1>4 DEF Begin
<1>5. ASSUME NEW d \in Device, Turn(d) PROVE PeersMutual'
  <2>1. PICK p \in Found(d) :
          LET reaches == IF p = Nobody THEN FALSE ELSE Admits(p, d)
          IN  peers' = IF reaches /\ Remember(d, p)[p] = Nobody
                       THEN [Remember(d, p) EXCEPT ![p] = d] ELSE Remember(d, p)
    BY <1>5 DEF Turn
  <2>2. p \in Device \cup {Nobody}
    BY <1>1, FoundFacts
  <2>3. QED
    BY <1>3, <2>1, <2>2
<1>6. QED
  BY <1>2, <1>4, <1>5
     DEF Next, Command, Background, Elect, Raise, Rise, Tick, CreateDomain, SetKeepalive, SetRank,
         SetPeerLink, AddMember, PeerFails, LinkFails, vars

\* Two switches agree on their peer link whatever happens.
THEOREM VpcPairAgrees ==
  ASSUME NEW a, NEW b, Device = {a, b}
  PROVE  Spec => []PeerLinkAgrees
<1>1. Init => PeersMutual
  BY DEF Init, PeersMutual
<1>2. VpcTyped /\ PeersMutual /\ [Next]_vars => PeersMutual'
  BY PairMutual
<1>3. QED
  BY <1>1, <1>2, VpcTypeInit, VpcTypeStep, VpcPeerLinkAgrees, PTL DEF Spec

-----------------------------------------------------------------------------
(* BgpRoutes. Recursion on numbers and folds.                               *)

\* Some natural numbers have a least.
LEMMA LeastNatural ==
    ASSUME NEW T \in SUBSET Nat, T # {}
    PROVE  \E x \in T : \A y \in T : x <= y
<1>. DEFINE R == OpToRel(<, Nat)
<1>1. IsWellFoundedOn(R, Nat)
  BY NatLessThanWellFounded
<1>2. \A x, y \in Nat : <<y, x>> \in R <=> y < x
  BY DEF OpToRel
<1>. HIDE DEF R
<1>3. PICK x \in T : \A y \in T : ~(<<y, x>> \in R)
  BY <1>1, WFMin
<1>4. ASSUME NEW y \in T PROVE x <= y
  <2>1. x \in Nat /\ y \in Nat /\ ~(<<y, x>> \in R)
    BY <1>3, <1>4
  <2>2. ~(y < x)
    BY <1>2, <2>1
  <2>. QED
    BY <2>1, <2>2
<1>. QED
  BY <1>4

\* f starts with the base and takes a step at every number.
StepsTo(f, n, base, step) == f[0] = base /\ \A i \in 1 .. n : f[i] = step[<<i, f[i - 1]>>]

\* A recursion on numbers has a solution.
LEMMA Recursion ==
    ASSUME NEW n \in Nat, NEW V, NEW base \in V, NEW step \in [(1 .. n) \X V -> V]
    PROVE  \E f \in [0 .. n -> V] : StepsTo(f, n, base, step)
<1>. USE DEF StepsTo
<1>. DEFINE Solves(f, m) == f \in [0 .. m -> V] /\ StepsTo(f, m, base, step)
            Bad == {m \in 0 .. n : ~ \E f : Solves(f, m)}
<1>1. SUFFICES ASSUME Bad # {} PROVE FALSE
  <2>1. n \notin Bad
    BY <1>1
  <2>. QED
    BY <2>1
<1>2. PICK m \in Bad : \A y \in Bad : m <= y
  <2>1. Bad \in SUBSET Nat
    OBVIOUS
  <2>. HIDE DEF Bad
  <2>. QED
    BY <1>1, <2>1, LeastNatural
<1>3. m # 0
  <2>1. Solves([i \in 0 .. 0 |-> base], 0)
    OBVIOUS
  <2>. QED
    BY <1>2, <2>1
<1>4. m \in 1 .. n /\ m - 1 \in 0 .. n /\ m - 1 \notin Bad
  BY <1>2, <1>3
<1>5. PICK h : Solves(h, m - 1)
  BY <1>4
<1>. DEFINE f == [i \in 0 .. m |-> IF i = m THEN step[<<m, h[m - 1]>>] ELSE h[i]]
<1>6. h[m - 1] \in V /\ step[<<m, h[m - 1]>>] \in V
  BY <1>4, <1>5
<1>7. f \in [0 .. m -> V] /\ f[0] = base
  BY <1>3, <1>4, <1>5, <1>6
<1>8. ASSUME NEW i \in 1 .. m PROVE f[i] = step[<<i, f[i - 1]>>]
  <2>1. f[i - 1] = h[i - 1]
    BY <1>4
  <2>2. CASE i = m
    <3>1. f[i] = step[<<m, h[m - 1]>>]
      BY <2>2
    <3>. QED
      BY <2>1, <2>2, <3>1
  <2>3. CASE i # m
    <3>1. i \in 1 .. m - 1 /\ f[i] = h[i]
      BY <1>4, <2>3
    <3>. QED
      BY <1>5, <2>1, <3>1
  <2>. QED
    BY <2>2, <2>3
<1>. QED
  BY <1>2, <1>7, <1>8

\* What the base satisfies and every step keeps, every value satisfies.
LEMMA RecursionStays ==
    ASSUME NEW n \in Nat, NEW f, NEW V, f[0] \in V,
           \A i \in 1 .. n : f[i - 1] \in V => f[i] \in V
    PROVE  \A i \in 0 .. n : f[i] \in V
<1>. DEFINE Bad == {i \in 0 .. n : f[i] \notin V}
<1>1. SUFFICES ASSUME Bad # {} PROVE FALSE
  OBVIOUS
<1>2. PICK m \in Bad : \A y \in Bad : m <= y
  <2>1. Bad \in SUBSET Nat
    OBVIOUS
  <2>. HIDE DEF Bad
  <2>. QED
    BY <1>1, <2>1, LeastNatural
<1>3. m \in 1 .. n /\ m - 1 \in 0 .. n /\ m - 1 \notin Bad
  BY <1>2
<1>. QED
  BY <1>2, <1>3

\* The greatest of some indices is one of them.
LEMMA MaxFacts ==
    ASSUME NEW n \in Nat, NEW s \in SUBSET (1 .. n), s # {}
    PROVE  /\ Max(s) \in s
           /\ \A y \in s : y <= Max(s)
<1>. DEFINE T == {t \in Nat : t <= n /\ n - t \in s}
<1>0. \A y \in s : y \in Nat /\ n - y \in T /\ n - (n - y) = y
  OBVIOUS
<1>1. PICK t \in T : \A y \in T : t <= y
  <2>1. T \in SUBSET Nat /\ T # {}
    BY <1>0
  <2>. HIDE DEF T
  <2>. QED
    BY <2>1, LeastNatural
<1>2. PICK x \in s : x = n - t
  BY <1>1
<1>3. \A y \in s : x >= y
  <2>. SUFFICES ASSUME NEW y \in s PROVE x >= y
    OBVIOUS
  <2>1. t \in Nat /\ t <= n - y /\ y \in Nat
    BY <1>0, <1>1
  <2>. QED
    BY <1>2, <2>1
<1>4. Max(s) \in s /\ \A y \in s : Max(s) >= y
  BY <1>3 DEF Max
<1>. QED
  BY <1>4

\* The recursion that a fold over a sequence of length n is: the last element
\* of a set of indices is dealt with after the others.
FoldsTo(f, n, base, step) ==
    \A s \in SUBSET (1 .. n) :
        f[s] = IF s = {} THEN base ELSE step[<<Max(s), f[s \ {Max(s)}]>>]

\* Such a fold exists.
LEMMA FoldExists ==
    ASSUME NEW n \in Nat, NEW V, NEW base \in V, NEW step \in [(1 .. n) \X V -> V]
    PROVE  \E f \in [SUBSET (1 .. n) -> V] : FoldsTo(f, n, base, step)
<1>. DEFINE Bad == {m \in 0 .. n : ~ \E f \in [SUBSET (1 .. m) -> V] : FoldsTo(f, m, base, step)}
<1>1. SUFFICES ASSUME Bad # {} PROVE FALSE
  <2>1. n \notin Bad
    <3>. HIDE DEF Bad
    <3>. QED
      BY <1>1
  <2>2. n \in 0 .. n
    OBVIOUS
  <2>3. \E f \in [SUBSET (1 .. n) -> V] : FoldsTo(f, n, base, step)
    BY <2>1, <2>2
  <2>. QED
    BY <2>3
<1>2. PICK m \in Bad : \A y \in Bad : m <= y
  <2>1. Bad \in SUBSET Nat
    OBVIOUS
  <2>. HIDE DEF Bad
  <2>. QED
    BY <1>1, <2>1, LeastNatural
<1>3. m # 0
  <2>. DEFINE f == [s \in SUBSET (1 .. 0) |-> base]
  <2>1. \A s \in SUBSET (1 .. 0) : s = {}
    OBVIOUS
  <2>2. FoldsTo(f, 0, base, step)
    BY <2>1 DEF FoldsTo
  <2>. QED
    BY <1>2, <2>2
<1>4. m \in 1 .. n /\ m - 1 \in 0 .. n /\ m - 1 \notin Bad
  <2>1. m \in 1 .. n /\ m - 1 \in 0 .. n
    BY <1>2, <1>3
  <2>2. m - 1 \notin Bad
    <3>. HIDE DEF Bad
    <3>1. m \in Nat /\ ~(m <= m - 1)
      BY <2>1
    <3>. QED
      BY <1>2, <3>1
  <2>. QED
    BY <2>1, <2>2
<1>5. PICK h \in [SUBSET (1 .. m - 1) -> V] : FoldsTo(h, m - 1, base, step)
  BY <1>4
<1>. DEFINE f == [s \in SUBSET (1 .. m) |->
                     IF m \in s THEN step[<<m, h[s \ {m}]>>] ELSE h[s]]
<1>6. ASSUME NEW s \in SUBSET (1 .. m)
      PROVE  /\ f[s] \in V
             /\ m \notin s => s \in SUBSET (1 .. m - 1) /\ f[s] = h[s]
             /\ m \in s => s \ {m} \in SUBSET (1 .. m - 1) /\ f[s] = step[<<m, h[s \ {m}]>>]
                           /\ f[s \ {m}] = h[s \ {m}]
  <2>1. s \ {m} \in SUBSET (1 .. m - 1)
    BY <1>4
  <2>2. m \notin s => s = s \ {m}
    OBVIOUS
  <2>3. h[s \ {m}] \in V
    BY <1>5, <2>1
  <2>4. step[<<m, h[s \ {m}]>>] \in V
    BY <1>4, <2>3
  <2>5. s \ {m} \in SUBSET (1 .. m) /\ m \notin s \ {m}
    OBVIOUS
  <2>. QED
    BY <2>1, <2>2, <2>3, <2>4, <2>5
<1>7. f = [s \in SUBSET (1 .. m) |-> f[s]]
  OBVIOUS
<1>. HIDE DEF f
<1>8. f \in [SUBSET (1 .. m) -> V]
  BY <1>6, <1>7
<1>9. ASSUME NEW s \in SUBSET (1 .. m)
      PROVE  f[s] = IF s = {} THEN base ELSE step[<<Max(s), f[s \ {Max(s)}]>>]
  <2>1. CASE m \in s
    <3>1. Max(s) = m
      <4>0. m \in Nat /\ s # {}
        BY <1>4, <2>1
      <4>1. Max(s) \in s /\ Max(s) \in 1 .. m
        BY <4>0, MaxFacts
      <4>2. m <= Max(s)
        BY <2>1, <4>0, MaxFacts
      <4>. QED
        BY <4>0, <4>1, <4>2
    <3>. QED
      BY <1>6, <2>1, <3>1
  <2>2. CASE m \notin s /\ s # {}
    <3>1. s \in SUBSET (1 .. m - 1) /\ f[s] = h[s]
      BY <1>6, <2>2
    <3>2. h[s] = step[<<Max(s), h[s \ {Max(s)}]>>]
      BY <1>5, <2>2, <3>1 DEF FoldsTo
    <3>3. s \ {Max(s)} \in SUBSET (1 .. m) /\ m \notin s \ {Max(s)}
      BY <2>2
    <3>4. f[s \ {Max(s)}] = h[s \ {Max(s)}]
      BY <1>6, <3>3
    <3>. QED
      BY <2>2, <3>1, <3>2, <3>4
  <2>3. CASE s = {}
    <3>1. f[s] = h[s] /\ s \in SUBSET (1 .. m - 1)
      BY <1>6, <2>3
    <3>. QED
      BY <1>5, <2>3, <3>1 DEF FoldsTo
  <2>. QED
    BY <2>1, <2>2, <2>3
<1>. QED
  BY <1>2, <1>8, <1>9 DEF FoldsTo

\* What the base of a fold satisfies and every element keeps, its result satisfies.
LEMMA FoldStays ==
    ASSUME NEW n \in Nat, NEW f, NEW V, f[{}] \in V,
           \A s \in SUBSET (1 .. n) : s # {} /\ f[s \ {Max(s)}] \in V => f[s] \in V
    PROVE  f[1 .. n] \in V
<1>. DEFINE Bad == {m \in 0 .. n : \E s \in SUBSET (1 .. m) : f[s] \notin V}
<1>1. SUFFICES ASSUME Bad # {} PROVE FALSE
  <2>1. n \in 0 .. n /\ 1 .. n \in SUBSET (1 .. n)
    OBVIOUS
  <2>. QED
    BY <2>1
<1>2. PICK m \in Bad : \A y \in Bad : m <= y
  <2>1. Bad \in SUBSET Nat
    OBVIOUS
  <2>. HIDE DEF Bad
  <2>. QED
    BY <1>1, <2>1, LeastNatural
<1>3. PICK s \in SUBSET (1 .. m) : f[s] \notin V
  BY <1>2
<1>4. s # {} /\ m \in Nat
  BY <1>2, <1>3
<1>5. Max(s) \in s /\ \A y \in s : y <= Max(s)
  BY <1>4, MaxFacts
<1>6. m - 1 \in 0 .. n /\ m - 1 \notin Bad
  <2>1. m # 0
    <3>1. Max(s) \in 1 .. m
      BY <1>5
    <3>. QED
      BY <3>1
  <2>2. m \in Nat /\ m - 1 \in 0 .. n /\ ~(m <= m - 1)
    BY <1>2, <2>1
  <2>. HIDE DEF Bad
  <2>. QED
    BY <1>2, <2>2
<1>7. s \ {Max(s)} \in SUBSET (1 .. m - 1)
  <2>. SUFFICES ASSUME NEW y \in s, y # Max(s) PROVE y \in 1 .. m - 1
    OBVIOUS
  <2>1. y \in 1 .. m /\ Max(s) \in 1 .. m /\ y <= Max(s)
    BY <1>5
  <2>. QED
    BY <2>1
<1>8. f[s \ {Max(s)}] \in V
  BY <1>6, <1>7
<1>9. s \in SUBSET (1 .. n)
  BY <1>2, <1>3
<1>. QED
  BY <1>3, <1>4, <1>8, <1>9

-----------------------------------------------------------------------------
(* Paths of AS numbers.                                                     *)

\* An AS number put in front of a path moves every other by one.
LEMMA ConsFacts ==
    ASSUME NEW a \in Nat, NEW path \in Seq(Nat)
    PROVE  /\ <<a>> \o path \in Seq(Nat)
           /\ DOMAIN (<<a>> \o path) = 1 .. Len(path) + 1
           /\ (<<a>> \o path)[1] = a
           /\ \A i \in 2 .. Len(path) + 1 : i - 1 \in DOMAIN path /\ (<<a>> \o path)[i] = path[i - 1]
<1>. DEFINE q == <<a>> \o path
<1>1. <<a>> \in Seq(Nat) /\ Len(<<a>>) = 1 /\ <<a>>[1] = a
  OBVIOUS
<1>2. q \in Seq(Nat) /\ Len(q) = Len(path) + 1 /\ Len(path) \in Nat
  BY <1>1
<1>3. q[1] = a
  BY <1>1, <1>2
<1>4. ASSUME NEW i \in 2 .. Len(path) + 1 PROVE i - 1 \in DOMAIN path /\ q[i] = path[i - 1]
  BY <1>1, <1>2
<1>. QED
  BY <1>2, <1>3, <1>4

\* What stands behind an AS number stands behind two of it.
LEMMA UnloopedAgain ==
    ASSUME NEW a \in Nat, NEW path \in Seq(Nat), Unlooped(<<a>> \o path)
    PROVE  Unlooped(<<a>> \o (<<a>> \o path))
<1>. DEFINE q == <<a>> \o path
            z == <<a>> \o q
<1>1. /\ q \in Seq(Nat) /\ DOMAIN q = 1 .. Len(path) + 1 /\ q[1] = a /\ Len(path) \in Nat
      /\ Len(q) = Len(path) + 1
  BY ConsFacts
<1>2. /\ DOMAIN z = 1 .. Len(path) + 2 /\ z[1] = a
      /\ \A i \in 2 .. Len(path) + 2 : i - 1 \in DOMAIN q /\ z[i] = q[i - 1]
  <2>1. Len(q) + 1 = Len(path) + 2
    BY <1>1
  <2>. HIDE DEF q
  <2>. QED
    BY <1>1, <2>1, ConsFacts
<1>3. \A i, j, k \in DOMAIN q : i < j /\ j < k /\ q[i] = q[k] => q[j] = q[i]
  BY DEF Unlooped
<1>. HIDE DEF q, z
<1>4. ASSUME NEW i \in DOMAIN z, NEW j \in DOMAIN z, NEW k \in DOMAIN z, i < j, j < k, z[i] = z[k]
      PROVE  z[j] = z[i]
  <2>0. /\ i \in Nat /\ j \in Nat /\ k \in Nat /\ i >= 1
        /\ j \in 2 .. Len(path) + 2 /\ k \in 2 .. Len(path) + 2
        /\ i # 1 => i \in 2 .. Len(path) + 2
    <3>1. DOMAIN z = 1 .. Len(path) + 2 /\ Len(path) \in Nat
      BY <1>1, <1>2
    <3>. QED
      BY <1>4, <3>1
  <2>1. j - 1 \in DOMAIN q /\ k - 1 \in DOMAIN q /\ z[j] = q[j - 1] /\ z[k] = q[k - 1]
    BY <1>2, <2>0
  <2>2. CASE i = 1
    <3>1. q[1] = q[k - 1] /\ 1 \in DOMAIN q
      BY <1>1, <1>2, <1>4, <2>1, <2>2
    <3>2. CASE j = 2
      BY <1>1, <1>2, <2>1, <2>2, <3>2
    <3>3. CASE j > 2
      <4>1. 1 < j - 1 /\ j - 1 < k - 1
        BY <1>4, <2>0, <3>3
      <4>2. q[j - 1] = q[1]
        BY <1>3, <2>1, <3>1, <4>1
      <4>. QED
        BY <1>1, <1>2, <2>1, <2>2, <4>2
    <3>. QED
      BY <1>1, <1>2, <1>4, <2>2, <3>2, <3>3
  <2>3. CASE i # 1
    <3>1. i - 1 \in DOMAIN q /\ z[i] = q[i - 1]
      BY <1>2, <2>0, <2>3
    <3>2. i - 1 < j - 1 /\ j - 1 < k - 1
      BY <1>4, <2>0
    <3>. QED
      BY <1>3, <1>4, <2>1, <3>1, <3>2
  <2>. QED
    BY <2>2, <2>3
<1>5. Unlooped(z)
  BY <1>4 DEF Unlooped
<1>. QED
  BY <1>5 DEF z, q

\* An AS number that does not occur may be put in front.
LEMMA UnloopedNew ==
    ASSUME NEW a \in Nat, NEW b \in Nat, NEW path \in Seq(Nat), Unlooped(<<a>> \o path),
           b \notin ToSet(path)
    PROVE  Unlooped(<<b>> \o path)
<1>. DEFINE q == <<a>> \o path
            z == <<b>> \o path
<1>1. /\ DOMAIN q = 1 .. Len(path) + 1 /\ DOMAIN z = 1 .. Len(path) + 1
      /\ Len(path) \in Nat /\ z[1] = b
      /\ \A i \in 2 .. Len(path) + 1 :
             i - 1 \in DOMAIN path /\ z[i] = path[i - 1] /\ q[i] = path[i - 1]
  BY ConsFacts
<1>2. \A i \in 2 .. Len(path) + 1 : z[i] = q[i] /\ z[i] # b
  BY <1>1 DEF ToSet
<1>3. \A i, j, k \in DOMAIN q : i < j /\ j < k /\ q[i] = q[k] => q[j] = q[i]
  BY DEF Unlooped
<1>. HIDE DEF q, z
<1>4. ASSUME NEW i \in DOMAIN z, NEW j \in DOMAIN z, NEW k \in DOMAIN z, i < j, j < k, z[i] = z[k]
      PROVE  z[j] = z[i]
  <2>1. j \in 2 .. Len(path) + 1 /\ k \in 2 .. Len(path) + 1
    BY <1>1, <1>4
  <2>2. i # 1
    BY <1>1, <1>2, <1>4, <2>1
  <2>3. i \in 2 .. Len(path) + 1
    BY <1>1, <2>2
  <2>4. z[i] = q[i] /\ z[j] = q[j] /\ z[k] = q[k]
    BY <1>2, <2>1, <2>3
  <2>. QED
    BY <1>1, <1>3, <1>4, <2>4
<1>5. Unlooped(z)
  BY <1>4 DEF Unlooped
<1>. QED
  BY <1>5 DEF z

\* The path of a network that a router originates.
LEMMA UnloopedOwn ==
    ASSUME NEW a \in Nat
    PROVE  <<a>> \in Seq(Nat) /\ Unlooped(<<a>> \o <<a>>)
<1>. DEFINE z == <<a>> \o <<a>>
<1>1. <<a>> \in Seq(Nat) /\ DOMAIN z = 1 .. 2
  OBVIOUS
<1>. HIDE DEF z
<1>2. Unlooped(z)
  BY <1>1 DEF Unlooped
<1>. QED
  BY <1>1, <1>2 DEF z

-----------------------------------------------------------------------------
(* Lists of routes.                                                         *)

\* A route that n may hold: its path may have n's AS in front.
Clean(n) == {r \in Route : Unlooped(<<As[n]>> \o r.path)}

\* A list of them, with at most one route from each peer.
OnePerPeer(routes) == \A i, j \in DOMAIN routes : routes[i].from = routes[j].from => i = j
CleanLists(n) == {routes \in Seq(Clean(n)) : OnePerPeer(routes)}
CleanRibs == {rib \in [Router -> [Prefix -> Seq(Route)]] :
                  \A n \in Router, p \in Prefix : rib[n][p] \in CleanLists(n)}

\* What is left of a sequence without the first of its elements that match.
LEMMA RemoveAtFacts ==
    ASSUME NEW S, NEW s \in Seq(S), NEW k \in 1 .. Len(s)
    PROVE  /\ RemoveAt(s, k) \in Seq(S)
           /\ Len(RemoveAt(s, k)) = Len(s) - 1
           /\ \A i \in 1 .. Len(s) - 1 : RemoveAt(s, k)[i] = IF i < k THEN s[i] ELSE s[i + 1]
<1>. DEFINE x == SubSeq(s, 1, k - 1)
            y == SubSeq(s, k + 1, Len(s))
<1>1. /\ x \in Seq(S) /\ Len(x) = k - 1 /\ \A i \in 1 .. k - 1 : x[i] = s[i]
      /\ y \in Seq(S) /\ Len(y) = Len(s) - k /\ \A i \in 1 .. Len(s) - k : y[i] = s[k + i]
  OBVIOUS
<1>2. RemoveAt(s, k) = x \o y
  BY DEF RemoveAt
<1>. HIDE DEF x, y
<1>3. x \o y \in Seq(S) /\ Len(x \o y) = Len(s) - 1
  BY <1>1
<1>4. ASSUME NEW i \in 1 .. Len(s) - 1 PROVE (x \o y)[i] = IF i < k THEN s[i] ELSE s[i + 1]
  <2>1. CASE i < k
    BY <1>1, <2>1
  <2>2. CASE ~(i < k)
    <3>1. (x \o y)[i] = y[i - (k - 1)] /\ i - (k - 1) \in 1 .. Len(s) - k
      BY <1>1, <2>2
    <3>2. k + (i - (k - 1)) = i + 1
      OBVIOUS
    <3>. QED
      BY <1>1, <2>2, <3>1, <3>2
  <2>. QED
    BY <2>1, <2>2
<1>. QED
  BY <1>2, <1>3, <1>4

\* The least of some numbers is one of them.
LEMMA LeastIndex ==
    ASSUME NEW I \in SUBSET Nat, I # {}
    PROVE  Min(I) \in I
<1>1. \E x \in I : \A y \in I : x <= y
  BY LeastNatural
<1>. QED
  BY <1>1 DEF Min

\* Withdrawing a peer's route leaves the list or takes one route of the peer out.
LEMMA WithoutIs ==
    ASSUME NEW S, NEW s \in Seq(S), NEW d
    PROVE  \/ Without(s, d) = s /\ \A i \in DOMAIN s : s[i].from # d
           \/ \E k \in 1 .. Len(s) : s[k].from = d /\ Without(s, d) = RemoveAt(s, k)
<1>1. CASE \E i \in 1 .. Len(s) : s[i].from = d
  <2>. DEFINE I == {i \in 1 .. Len(s) : s[i].from = d}
  <2>1. I # {} /\ I \in SUBSET Nat
    BY <1>1
  <2>2. Without(s, d) = RemoveAt(s, Min(I))
    BY <1>1, <2>1 DEF Without, RemoveFirstMatch, SelectInSeq
  <2>. HIDE DEF I
  <2>3. Min(I) \in I
    BY <2>1, LeastIndex
  <2>. QED
    BY <2>2, <2>3 DEF I
<1>2. CASE ~ \E i \in 1 .. Len(s) : s[i].from = d
  BY <1>2 DEF Without, RemoveFirstMatch
<1>. QED
  BY <1>1, <1>2

\* Withdrawing, marking as stale and refreshing keep a clean list clean.
LEMMA WithoutClean ==
    ASSUME NEW n, NEW s \in CleanLists(n), NEW d
    PROVE  Without(s, d) \in CleanLists(n)
<1>. DEFINE S == Clean(n)
<1>1. s \in Seq(S) /\ OnePerPeer(s)
  BY DEF CleanLists
<1>. HIDE DEF S
<1>2. CASE Without(s, d) = s
  BY <1>2
<1>3. ASSUME NEW k \in 1 .. Len(s), Without(s, d) = RemoveAt(s, k)
      PROVE  Without(s, d) \in CleanLists(n)
  <2>. DEFINE z == RemoveAt(s, k)
  <2>1. /\ z \in Seq(S) /\ Len(z) = Len(s) - 1 /\ DOMAIN z = 1 .. Len(s) - 1
        /\ \A i \in 1 .. Len(s) - 1 : z[i] = IF i < k THEN s[i] ELSE s[i + 1]
    BY <1>1, RemoveAtFacts
  <2>. HIDE DEF z
  <2>2. OnePerPeer(z)
    <3>. SUFFICES ASSUME NEW i \in DOMAIN z, NEW j \in DOMAIN z, z[i].from = z[j].from
                  PROVE  i = j
      BY DEF OnePerPeer
    <3>. DEFINE u == IF i < k THEN i ELSE i + 1
                v == IF j < k THEN j ELSE j + 1
    <3>1. u \in DOMAIN s /\ v \in DOMAIN s /\ z[i] = s[u] /\ z[j] = s[v]
      BY <1>1, <2>1
    <3>2. u = v
      BY <1>1, <3>1 DEF OnePerPeer
    <3>3. i \in Nat /\ j \in Nat
      BY <2>1
    <3>. QED
      BY <3>2, <3>3
  <2>. QED
    BY <1>3, <2>1, <2>2 DEF CleanLists, S, z
<1>. QED
  BY <1>1, <1>2, <1>3, WithoutIs

LEMMA StaledClean ==
    ASSUME NEW n, NEW s \in CleanLists(n), NEW d
    PROVE  Staled(s, d) \in CleanLists(n)
<1>1. s \in Seq(Clean(n)) /\ OnePerPeer(s)
  BY DEF CleanLists
<1>2. ASSUME NEW i \in DOMAIN s
      PROVE  Staled(s, d)[i] \in Clean(n) /\ Staled(s, d)[i].from = s[i].from
  <2>1. s[i] \in Clean(n)
    BY <1>1
  <2>2. [s[i] EXCEPT !.stale = TRUE] \in Clean(n) /\ [s[i] EXCEPT !.stale = TRUE].from = s[i].from
    BY <2>1 DEF Clean, Route
  <2>3. Staled(s, d)[i] = IF s[i].from = d THEN [s[i] EXCEPT !.stale = TRUE] ELSE s[i]
    BY DEF Staled
  <2>. QED
    BY <2>1, <2>2, <2>3
<1>3. DOMAIN Staled(s, d) = 1 .. Len(s) /\ DOMAIN s = 1 .. Len(s) /\ Len(s) \in Nat
  BY <1>1 DEF Staled
<1>4. Staled(s, d) = [i \in 1 .. Len(s) |-> Staled(s, d)[i]]
  BY <1>3 DEF Staled
<1>5. Staled(s, d) \in Seq(Clean(n))
  BY <1>2, <1>3, <1>4
<1>6. OnePerPeer(Staled(s, d))
  BY <1>1, <1>2, <1>3 DEF OnePerPeer
<1>. QED
  BY <1>5, <1>6 DEF CleanLists

LEMMA RefreshedClean ==
    ASSUME NEW n, NEW s \in CleanLists(n), NEW d,
           NEW wanted \in SUBSET Clean(n), \A r \in wanted : r.from = d
    PROVE  Refreshed(s, d, wanted) \in CleanLists(n)
<1>. DEFINE new == CHOOSE r \in wanted : TRUE
<1>1. s \in Seq(Clean(n)) /\ OnePerPeer(s) /\ DOMAIN s = 1 .. Len(s) /\ Len(s) \in Nat
  BY DEF CleanLists
<1>2. CASE wanted = {}
  BY <1>2, WithoutClean DEF Refreshed
<1>3. CASE wanted # {} /\ From(s, d) = {}
  <2>1. new \in Clean(n) /\ new.from = d /\ Refreshed(s, d, wanted) = Append(s, new)
    BY <1>3 DEF Refreshed
  <2>. HIDE DEF new
  <2>2. \A i \in DOMAIN s : s[i].from # d
    BY <1>3 DEF From, ToSet
  <2>. DEFINE z == Append(s, new)
  <2>3. /\ z \in Seq(Clean(n)) /\ DOMAIN z = 1 .. Len(s) + 1 /\ z[Len(s) + 1] = new
        /\ \A i \in DOMAIN s : z[i] = s[i]
    BY <1>1, <2>1
  <2>. HIDE DEF z
  <2>4. OnePerPeer(z)
    <3>. SUFFICES ASSUME NEW i \in DOMAIN z, NEW j \in DOMAIN z, z[i].from = z[j].from
                  PROVE  i = j
      BY DEF OnePerPeer
    <3>1. \A x \in DOMAIN z : x = Len(s) + 1 \/ x \in DOMAIN s
      BY <1>1, <2>3
    <3>2. CASE i \in DOMAIN s /\ j \in DOMAIN s
      BY <1>1, <2>3, <3>2 DEF OnePerPeer
    <3>3. CASE i = Len(s) + 1 /\ j \in DOMAIN s
      BY <2>1, <2>2, <2>3, <3>3
    <3>4. CASE j = Len(s) + 1 /\ i \in DOMAIN s
      BY <2>1, <2>2, <2>3, <3>4
    <3>. QED
      BY <3>1, <3>2, <3>3, <3>4
  <2>. QED
    BY <2>1, <2>3, <2>4 DEF CleanLists, z
<1>4. CASE wanted # {} /\ From(s, d) # {}
  <2>. DEFINE z == [i \in DOMAIN s |-> IF s[i].from = d THEN new ELSE s[i]]
  <2>1. new \in Clean(n) /\ new.from = d /\ Refreshed(s, d, wanted) = z
    BY <1>4 DEF Refreshed
  <2>. HIDE DEF new
  <2>2. \A i \in DOMAIN s : z[i] \in Clean(n) /\ z[i].from = s[i].from
    BY <1>1, <2>1
  <2>3. z \in Seq(Clean(n)) /\ DOMAIN z = DOMAIN s
    BY <1>1, <2>2
  <2>. HIDE DEF z
  <2>4. OnePerPeer(z)
    BY <1>1, <2>2, <2>3 DEF OnePerPeer
  <2>. QED
    BY <2>1, <2>3, <2>4 DEF CleanLists
<1>. QED
  BY <1>2, <1>3, <1>4

\* The best of some routes is one of them.
LEMMA BestIsOne ==
    ASSUME NEW S, NEW routes \in Seq(S)
    PROVE  Best(routes) \subseteq S
<1>1. CASE routes = <<>>
  BY <1>1 DEF Best
<1>2. CASE routes # <<>>
  <2>. DEFINE n == Len(routes)
              Pick(x, cur) == IF Better(routes[x], cur) THEN routes[x] ELSE cur
              Rec(f) == f = [s \in SUBSET (1 .. n) |->
                                IF s = {} THEN Head(routes) ELSE Pick(Max(s), f[s \ {Max(s)}])]
              step == [t \in (1 .. n) \X S |-> Pick(t[1], t[2])]
  <2>1. n \in Nat /\ DOMAIN routes = 1 .. n /\ Head(routes) \in S /\ \A x \in 1 .. n : routes[x] \in S
    BY <1>2
  <2>2. Best(routes) = {(CHOOSE f : Rec(f))[1 .. n]}
    BY <1>2, <2>1 DEF Best, FoldLeft, MapThenFoldSet
  <2>3. step \in [(1 .. n) \X S -> S]
    BY <2>1
  <2>4. PICK f \in [SUBSET (1 .. n) -> S] : FoldsTo(f, n, Head(routes), step)
    <3>. HIDE DEF step, n
    <3>. QED
      BY <2>1, <2>3, FoldExists
  <2>5. Rec(f)
    <3>1. ASSUME NEW s \in SUBSET (1 .. n), s # {}
          PROVE  f[s] = Pick(Max(s), f[s \ {Max(s)}])
      <4>1. Max(s) \in 1 .. n /\ s \ {Max(s)} \in SUBSET (1 .. n)
        <5>. HIDE DEF n
        <5>. QED
          BY <2>1, <3>1, MaxFacts
      <4>2. f[s] = step[<<Max(s), f[s \ {Max(s)}]>>]
        BY <2>4, <3>1 DEF FoldsTo
      <4>3. <<Max(s), f[s \ {Max(s)}]>> \in (1 .. n) \X S
        BY <4>1
      <4>. QED
        BY <4>2, <4>3
    <3>2. f[{}] = Head(routes)
      BY <2>4 DEF FoldsTo
    <3>. HIDE DEF n, Pick
    <3>. QED
      BY <3>1, <3>2
  <2>. DEFINE g == CHOOSE f1 : Rec(f1)
  <2>6. Rec(g)
    <3>. HIDE DEF Rec
    <3>. QED
      BY <2>5
  <2>. HIDE DEF g
  <2>7. /\ g[{}] \in S
        /\ \A s \in SUBSET (1 .. n) : s # {} /\ g[s \ {Max(s)}] \in S => g[s] \in S
    <3>1. \A s \in SUBSET (1 .. n) :
              g[s] = IF s = {} THEN Head(routes) ELSE Pick(Max(s), g[s \ {Max(s)}])
      BY <2>6
    <3>2. \A s \in SUBSET (1 .. n) : s # {} => Max(s) \in 1 .. n
      <4>. HIDE DEF n
      <4>. QED
        BY <2>1, MaxFacts
    <3>. HIDE DEF n
    <3>. QED
      BY <2>1, <3>1, <3>2
  <2>8. g[1 .. n] \in S
    <3>. HIDE DEF n
    <3>. QED
      BY <2>1, <2>7, FoldStays
  <2>. QED
    BY <2>2, <2>8 DEF g
<1>. QED
  BY <1>1, <1>2

-----------------------------------------------------------------------------
(* What is advertised, and how it spreads.                                  *)

\* What the tables depend on besides themselves.
Numbered == As \in [Router -> Nat] /\ order \in Seq(Router)

\* Whatever a peer takes may have its own AS in front: between ASes the loop
\* test sees to it, and within one AS the number in front is the sender's.
LEMMA PathsClean ==
    ASSUME Numbered, NEW rib \in CleanRibs, NEW nodes, NEW d \in Router, NEW n \in Router,
           NEW p \in Prefix, NEW path \in Paths(rib, nodes, d, n, p)
    PROVE  path \in Seq(Nat) /\ Unlooped(<<As[n]>> \o path)
<1>. DEFINE a == As[d]
<1>1. PICK x : /\ path = Mapped(nodes, d, n, x) /\ PassesLoopTest(d, n, path)
               /\ \/ \E r \in Best(rib[d][p]) : x = IF IsEbgp(d, n) THEN <<a>> \o r.path ELSE r.path
                  \/ x = <<a>>
  BY DEF Paths
<1>2. a \in Nat /\ As[n] \in Nat
  BY DEF Numbered
<1>3. Best(rib[d][p]) \subseteq Clean(d)
  <2>1. rib[d][p] \in Seq(Clean(d))
    BY DEF CleanRibs, CleanLists
  <2>. QED
    BY <2>1, BestIsOne
<1>. HIDE DEF a
<1>4. x \in Seq(Nat) /\ Unlooped(<<a>> \o x)
  <2>1. CASE x = <<a>>
    BY <1>2, <2>1, UnloopedOwn
  <2>2. ASSUME NEW r \in Clean(d), x = IF IsEbgp(d, n) THEN <<a>> \o r.path ELSE r.path
        PROVE  x \in Seq(Nat) /\ Unlooped(<<a>> \o x)
    <3>1. r.path \in Seq(Nat) /\ Unlooped(<<a>> \o r.path)
      BY DEF Clean, Route, a
    <3>2. <<a>> \o r.path \in Seq(Nat) /\ Unlooped(<<a>> \o (<<a>> \o r.path))
      BY <1>2, <3>1, ConsFacts, UnloopedAgain
    <3>. QED
      BY <2>2, <3>1, <3>2
  <2>. QED
    BY <1>1, <1>3, <2>1, <2>2
<1>5. path \in Seq(Nat) /\ Unlooped(<<a>> \o path)
  <2>1. path = x \/ path = <<a>> \o x
    BY <1>1 DEF Mapped, a
  <2>2. <<a>> \o x \in Seq(Nat) /\ Unlooped(<<a>> \o (<<a>> \o x))
    BY <1>2, <1>4, ConsFacts, UnloopedAgain
  <2>. QED
    BY <1>4, <2>1, <2>2
<1>6. CASE IsEbgp(d, n)
  <2>1. As[n] \notin ToSet(path)
    BY <1>1, <1>6 DEF PassesLoopTest
  <2>. QED
    BY <1>2, <1>5, <2>1, UnloopedNew
<1>7. CASE ~IsEbgp(d, n)
  BY <1>5, <1>7 DEF IsEbgp, a
<1>. QED
  BY <1>6, <1>7

\* What a peer makes of the paths are routes that it may hold.
LEMMA WantedClean ==
    ASSUME Numbered, NEW rib \in CleanRibs, NEW nodes, NEW d \in Router, NEW n \in Router,
           NEW p \in Prefix
    PROVE  /\ Wanted(rib, nodes, d, n, p) \in SUBSET Clean(n)
           /\ \A r \in Wanted(rib, nodes, d, n, p) : r.from = d
<1>. SUFFICES ASSUME NEW r \in Wanted(rib, nodes, d, n, p) PROVE r \in Clean(n) /\ r.from = d
  OBVIOUS
<1>1. PICK path \in Paths(rib, nodes, d, n, p) :
          r = [from |-> d, path |-> path, stale |-> FALSE,
               pref |-> IF d \in nodes[n].prefer THEN 200 ELSE 100]
  BY DEF Wanted
<1>2. path \in Seq(Nat) /\ Unlooped(<<As[n]>> \o path)
  BY PathsClean
<1>. QED
  BY <1>1, <1>2 DEF Clean, Route

\* One of the steps of a round: n hears from a router.
Told(rib, nodes, n, p, d, acc) ==
    IF Known(n) /\ Up(nodes, d, n) THEN Refreshed(acc, d, Wanted(rib, nodes, d, n, p)) ELSE acc

\* The lists of a round: what n has after it heard from some of the routers.
HeardFrom(g, rib, nodes, n, p) ==
    /\ g[{}] = rib[n][p]
    /\ \A s \in SUBSET (1 .. Len(order)) :
           s # {} => g[s] = Told(rib, nodes, n, p, order[Max(s)], g[s \ {Max(s)}])

\* A step keeps a clean list clean.
LEMMA ToldClean ==
    ASSUME Numbered, NEW rib \in CleanRibs, NEW nodes, NEW n \in Router, NEW p \in Prefix,
           NEW d \in Router, NEW acc \in CleanLists(n)
    PROVE  Told(rib, nodes, n, p, d, acc) \in CleanLists(n)
<1>1. /\ Wanted(rib, nodes, d, n, p) \in SUBSET Clean(n)
      /\ \A r \in Wanted(rib, nodes, d, n, p) : r.from = d
  BY WantedClean
<1>2. Refreshed(acc, d, Wanted(rib, nodes, d, n, p)) \in CleanLists(n)
  BY <1>1, RefreshedClean
<1>. QED
  BY <1>2 DEF Told

\* A round is what the last of these lists is.
LEMMA RoundIs ==
    ASSUME Numbered, NEW rib \in CleanRibs, NEW nodes, NEW n \in Router, NEW p \in Prefix
    PROVE  \E g : /\ HeardFrom(g, rib, nodes, n, p)
                  /\ Round(rib, nodes)[n][p] = g[1 .. Len(order)]
<1>. DEFINE len == Len(order)
            V == CleanLists(n)
            Then(acc, d) == Told(rib, nodes, n, p, d, acc)
            Rec(f) == f = [s \in SUBSET (1 .. len) |->
                              IF s = {} THEN rib[n][p] ELSE Then(f[s \ {Max(s)}], order[Max(s)])]
            step == [t \in (1 .. len) \X V |-> Then(t[2], order[t[1]])]
<1>1. /\ len \in Nat /\ DOMAIN order = 1 .. len /\ rib[n][p] \in V
      /\ \A x \in 1 .. len : order[x] \in Router
  BY DEF Numbered, CleanRibs
<1>2. Round(rib, nodes)[n][p] = (CHOOSE f : Rec(f))[1 .. len]
  BY <1>1 DEF Round, FoldLeft, MapThenFoldSet, Told
<1>3. ASSUME NEW x \in 1 .. len, NEW acc \in V PROVE Then(acc, order[x]) \in V
  BY <1>1, ToldClean
<1>. HIDE DEF Then, V
<1>4. step \in [(1 .. len) \X V -> V]
  BY <1>3
<1>5. PICK f \in [SUBSET (1 .. len) -> V] : FoldsTo(f, len, rib[n][p], step)
  <2>. HIDE DEF step, len
  <2>. QED
    BY <1>1, <1>4, FoldExists
<1>6. \A s \in SUBSET (1 .. len) : s # {} => Max(s) \in 1 .. len
  <2>. HIDE DEF len
  <2>. QED
    BY <1>1, MaxFacts
<1>7. Rec(f)
  <2>1. ASSUME NEW s \in SUBSET (1 .. len), s # {}
        PROVE  f[s] = Then(f[s \ {Max(s)}], order[Max(s)])
    <3>1. Max(s) \in 1 .. len /\ s \ {Max(s)} \in SUBSET (1 .. len)
      BY <1>6, <2>1
    <3>2. f[s] = step[<<Max(s), f[s \ {Max(s)}]>>]
      BY <1>5, <2>1 DEF FoldsTo
    <3>3. <<Max(s), f[s \ {Max(s)}]>> \in (1 .. len) \X V
      BY <3>1
    <3>. QED
      BY <3>2, <3>3
  <2>2. f[{}] = rib[n][p]
    BY <1>5 DEF FoldsTo
  <2>. HIDE DEF len
  <2>. QED
    BY <2>1, <2>2
<1>. DEFINE g == CHOOSE f1 : Rec(f1)
<1>8. Rec(g)
  <2>. HIDE DEF Rec
  <2>. QED
    BY <1>7
<1>. HIDE DEF g
<1>9. HeardFrom(g, rib, nodes, n, p)
  <2>1. \A s \in SUBSET (1 .. len) :
            g[s] = IF s = {} THEN rib[n][p] ELSE Then(g[s \ {Max(s)}], order[Max(s)])
    BY <1>8
  <2>. QED
    BY <2>1 DEF HeardFrom, Then
<1>. QED
  BY <1>2, <1>9 DEF g

\* One round of a propagation keeps the tables clean.
LEMMA RoundClean ==
    ASSUME Numbered, NEW rib \in CleanRibs, NEW nodes
    PROVE  Round(rib, nodes) \in CleanRibs
<1>. DEFINE R == Round(rib, nodes)
<1>1. ASSUME NEW n \in Router, NEW p \in Prefix PROVE R[n][p] \in CleanLists(n)
  <2>. DEFINE len == Len(order)
              V == CleanLists(n)
  <2>1. PICK g : HeardFrom(g, rib, nodes, n, p) /\ R[n][p] = g[1 .. len]
    BY RoundIs
  <2>2. len \in Nat /\ rib[n][p] \in V /\ \A x \in 1 .. len : order[x] \in Router
    BY DEF Numbered, CleanRibs
  <2>. HIDE DEF V, R
  <2>3. ASSUME NEW s \in SUBSET (1 .. len), s # {}, g[s \ {Max(s)}] \in V PROVE g[s] \in V
    <3>1. Max(s) \in 1 .. len
      <4>. HIDE DEF len
      <4>. QED
        BY <2>2, <2>3, MaxFacts
    <3>2. Told(rib, nodes, n, p, order[Max(s)], g[s \ {Max(s)}]) \in V
      BY <2>2, <2>3, <3>1, ToldClean DEF V
    <3>. QED
      BY <2>1, <2>3, <3>2 DEF HeardFrom
  <2>4. g[{}] \in V
    BY <2>1, <2>2 DEF HeardFrom
  <2>5. g[1 .. len] \in V
    <3>. HIDE DEF len
    <3>. QED
      BY <2>2, <2>3, <2>4, FoldStays
  <2>. QED
    BY <2>1, <2>5 DEF V
<1>2. \A n \in Router : CleanLists(n) \subseteq Seq(Route)
  BY DEF CleanLists, Clean
<1>3. \A n \in Router, p \in Prefix : R[n][p] \in Seq(Route)
  BY <1>1, <1>2
<1>4. R = [n \in Router |-> [p \in Prefix |-> R[n][p]]]
  BY DEF Round
<1>. HIDE DEF R
<1>5. [n \in Router |-> [p \in Prefix |-> R[n][p]]] \in [Router -> [Prefix -> Seq(Route)]]
  BY <1>3
<1>6. R \in CleanRibs
  BY <1>1, <1>4, <1>5 DEF CleanRibs
<1>. QED
  BY <1>6 DEF R

\* A router advertises a network to a peer with one route at most.
LEMMA WantedOne ==
    ASSUME NEW rib, NEW nodes, NEW d, NEW n, NEW p,
           NEW x \in Wanted(rib, nodes, d, n, p), NEW y \in Wanted(rib, nodes, d, n, p)
    PROVE  x = y
<1>1. \A r1, r2 \in Best(rib[d][p]) : r1 = r2
  BY DEF Best
<1>2. \A u, v \in Paths(rib, nodes, d, n, p) : u = v
  BY <1>1 DEF Paths
<1>. QED
  BY <1>2 DEF Wanted

\* Withdrawing the route of a peer takes it and no other.
LEMMA FromWithout ==
    ASSUME NEW n, NEW s \in CleanLists(n), NEW d
    PROVE  /\ From(Without(s, d), d) = {}
           /\ \A e : e # d => From(Without(s, d), e) = From(s, e)
<1>1. s \in Seq(Clean(n)) /\ OnePerPeer(s) /\ DOMAIN s = 1 .. Len(s) /\ Len(s) \in Nat
  BY DEF CleanLists
<1>2. CASE Without(s, d) = s /\ \A i \in DOMAIN s : s[i].from # d
  BY <1>2 DEF From, ToSet
<1>3. ASSUME NEW k \in 1 .. Len(s), s[k].from = d, Without(s, d) = RemoveAt(s, k)
      PROVE  /\ From(Without(s, d), d) = {}
             /\ \A e : e # d => From(Without(s, d), e) = From(s, e)
  <2>. DEFINE z == RemoveAt(s, k)
  <2>1. /\ DOMAIN z = 1 .. Len(s) - 1
        /\ \A i \in 1 .. Len(s) - 1 : z[i] = IF i < k THEN s[i] ELSE s[i + 1]
    BY <1>1, RemoveAtFacts
  <2>. HIDE DEF z
  <2>2. \A i \in DOMAIN z : \E j \in DOMAIN s : j # k /\ z[i] = s[j]
    <3>. SUFFICES ASSUME NEW i \in DOMAIN z PROVE \E j \in DOMAIN s : j # k /\ z[i] = s[j]
      OBVIOUS
    <3>. DEFINE j == IF i < k THEN i ELSE i + 1
    <3>1. j \in DOMAIN s /\ j # k /\ z[i] = s[j]
      BY <1>1, <2>1
    <3>. QED
      BY <3>1
  <2>3. \A j \in DOMAIN s : j # k => \E i \in DOMAIN z : z[i] = s[j]
    <3>. SUFFICES ASSUME NEW j \in DOMAIN s, j # k PROVE \E i \in DOMAIN z : z[i] = s[j]
      OBVIOUS
    <3>. DEFINE i == IF j < k THEN j ELSE j - 1
    <3>1. i \in DOMAIN z /\ z[i] = s[j]
      BY <1>1, <2>1
    <3>. QED
      BY <3>1
  <2>4. \A j \in DOMAIN s : s[j].from = d => j = k
    BY <1>1, <1>3 DEF OnePerPeer
  <2>5. From(z, d) = {}
    BY <2>2, <2>4 DEF From, ToSet
  <2>6. ASSUME NEW e, e # d PROVE From(z, e) = From(s, e)
    BY <1>3, <2>2, <2>3, <2>6 DEF From, ToSet
  <2>. QED
    BY <1>3, <2>5, <2>6 DEF z
<1>. QED
  BY <1>1, <1>2, <1>3, WithoutIs

\* Refreshing puts there what is wanted from the peer, and nothing else changes.
LEMMA FromRefreshed ==
    ASSUME NEW n, NEW s \in CleanLists(n), NEW d, NEW wanted,
           \A r \in wanted : r.from = d, \A x, y \in wanted : x = y
    PROVE  /\ From(Refreshed(s, d, wanted), d) = wanted
           /\ \A e : e # d => From(Refreshed(s, d, wanted), e) = From(s, e)
<1>. DEFINE new == CHOOSE r \in wanted : TRUE
            z == Refreshed(s, d, wanted)
<1>1. s \in Seq(Clean(n)) /\ OnePerPeer(s) /\ DOMAIN s = 1 .. Len(s) /\ Len(s) \in Nat
  BY DEF CleanLists
<1>2. CASE wanted = {}
  BY <1>2, FromWithout DEF Refreshed
<1>3. wanted # {} => new \in wanted /\ new.from = d /\ wanted = {new}
  OBVIOUS
<1>4. CASE wanted # {} /\ From(s, d) = {}
  <2>1. z = Append(s, new)
    BY <1>4 DEF Refreshed
  <2>. HIDE DEF new, z
  <2>2. DOMAIN z = 1 .. Len(s) + 1 /\ z[Len(s) + 1] = new /\ \A i \in DOMAIN s : z[i] = s[i]
    BY <1>1, <2>1
  <2>3. ToSet(z) = ToSet(s) \cup {new}
    <3>1. DOMAIN z = DOMAIN s \cup {Len(s) + 1}
      BY <1>1, <2>2
    <3>2. \A v \in ToSet(z) : v \in ToSet(s) \cup {new}
      BY <2>2, <3>1 DEF ToSet
    <3>3. \A v \in ToSet(s) : v \in ToSet(z)
      BY <2>2, <3>1 DEF ToSet
    <3>4. new \in ToSet(z)
      BY <2>2, <3>1 DEF ToSet
    <3>. QED
      BY <3>2, <3>3, <3>4
  <2>4. From(z, d) = wanted
    BY <1>3, <1>4, <2>3 DEF From
  <2>5. ASSUME NEW e, e # d PROVE From(z, e) = From(s, e)
    BY <1>3, <1>4, <2>3, <2>5 DEF From
  <2>. QED
    BY <2>4, <2>5 DEF z
<1>5. CASE wanted # {} /\ From(s, d) # {}
  <2>1. z = [i \in DOMAIN s |-> IF s[i].from = d THEN new ELSE s[i]]
    BY <1>5 DEF Refreshed
  <2>. HIDE DEF new, z
  <2>2. DOMAIN z = DOMAIN s /\ \A i \in DOMAIN s : z[i] = IF s[i].from = d THEN new ELSE s[i]
    BY <2>1
  <2>3. PICK i \in DOMAIN s : s[i].from = d
    BY <1>5 DEF From, ToSet
  <2>4. From(z, d) = wanted
    <3>1. \A j \in DOMAIN s : z[j].from = d => z[j] = new
      BY <2>2
    <3>2. z[i] = new
      BY <2>2, <2>3
    <3>3. new \in From(z, d)
      BY <1>3, <1>5, <2>2, <3>2 DEF From, ToSet
    <3>4. \A r \in From(z, d) : r = new
      BY <2>2, <3>1 DEF From, ToSet
    <3>. QED
      BY <1>3, <1>5, <3>3, <3>4
  <2>5. ASSUME NEW e, e # d PROVE From(z, e) = From(s, e)
    BY <1>3, <1>5, <2>2, <2>5 DEF From, ToSet
  <2>. QED
    BY <2>4, <2>5 DEF z
<1>. QED
  BY <1>2, <1>4, <1>5 DEF z

\* After a round a router has from a peer what that peer advertised in it.
LEMMA RoundTells ==
    ASSUME Numbered, IsInjective(order), NEW rib \in CleanRibs, NEW nodes, NEW p \in Prefix,
           NEW d \in ToSet(order), NEW n \in ToSet(order), Up(nodes, d, n)
    PROVE  From(Round(rib, nodes)[n][p], d) = Wanted(rib, nodes, d, n, p)
<1>. DEFINE len == Len(order)
            W(e) == Wanted(rib, nodes, e, n, p)
<1>1. /\ len \in Nat /\ DOMAIN order = 1 .. len /\ n \in Router
      /\ \A x \in 1 .. len : order[x] \in Router
  BY DEF Numbered, ToSet
<1>2. PICK g : HeardFrom(g, rib, nodes, n, p) /\ Round(rib, nodes)[n][p] = g[1 .. len]
  BY <1>1, RoundIs
<1>3. PICK x \in 1 .. len : order[x] = d
  BY <1>1 DEF ToSet
<1>4. rib[n][p] \in CleanLists(n)
  BY <1>1 DEF CleanRibs
<1>. DEFINE V == {v \in (SUBSET (1 .. len)) \X CleanLists(n) : x \in v[1] => From(v[2], d) = W(d)}
            f == [s \in SUBSET (1 .. len) |-> <<s, g[s]>>]
<1>5. f[{}] \in V
  BY <1>2, <1>4 DEF HeardFrom
<1>6. ASSUME NEW s \in SUBSET (1 .. len), s # {}, f[s \ {Max(s)}] \in V PROVE f[s] \in V
  <2>. DEFINE m == Max(s)
              old == g[s \ {m}]
  <2>1. m \in s /\ m \in 1 .. len
    <3>. HIDE DEF len
    <3>. QED
      BY <1>1, <1>6, MaxFacts
  <2>2. /\ s \ {m} \in SUBSET (1 .. len) /\ old \in CleanLists(n)
        /\ x \in s \ {m} => From(old, d) = W(d)
    BY <1>6
  <2>3. g[s] = Told(rib, nodes, n, p, order[m], old)
    BY <1>2, <1>6 DEF HeardFrom
  <2>4. order[m] \in Router
    BY <1>1, <2>1
  <2>5. g[s] \in CleanLists(n)
    BY <1>1, <2>2, <2>3, <2>4, ToldClean
  <2>6. (\A r \in W(order[m]) : r.from = order[m]) /\ (\A u, v \in W(order[m]) : u = v)
    BY <1>1, <2>4, WantedClean, WantedOne
  <2>7. /\ From(Refreshed(old, order[m], W(order[m])), order[m]) = W(order[m])
        /\ \A e : e # order[m] => From(Refreshed(old, order[m], W(order[m])), e) = From(old, e)
    <3>. HIDE DEF W, m, old
    <3>. QED
      BY <2>2, <2>6, FromRefreshed
  <2>8. x \in s => From(g[s], d) = W(d)
    <3>. SUFFICES ASSUME x \in s PROVE From(g[s], d) = W(d)
      OBVIOUS
    <3>. HIDE DEF W, old
    <3>1. CASE m = x
      <4>1. g[s] = Refreshed(old, d, W(d))
        BY <1>3, <2>3, <3>1 DEF Told, Known, W
      <4>. QED
        BY <1>3, <2>7, <3>1, <4>1
    <3>2. CASE m # x
      <4>1. order[m] # d
        BY <1>1, <1>3, <2>1, <3>2 DEF IsInjective
      <4>2. g[s] = old \/ g[s] = Refreshed(old, order[m], W(order[m]))
        BY <2>3 DEF Told, W
      <4>3. From(old, d) = W(d)
        BY <2>2, <3>2
      <4>. QED
        BY <2>7, <4>1, <4>2, <4>3
    <3>. QED
      BY <3>1, <3>2
  <2>. QED
    BY <2>5, <2>8
<1>7. f[1 .. len] \in V
  <2>. HIDE DEF len, V, f
  <2>. QED
    BY <1>1, <1>5, <1>6, FoldStays
<1>. QED
  BY <1>2, <1>3, <1>7

\* All of its rounds, whether it settles or gives up.
LEMMA PropagatedClean ==
    ASSUME Numbered, NEW rib \in CleanRibs, NEW nodes
    PROVE  Propagated(rib, nodes) \in CleanRibs
<1>. DEFINE V == [rib : CleanRibs, changed : BOOLEAN]
            first == [rib |-> rib, changed |-> TRUE]
            Later(last) == IF last.changed
                           THEN [rib |-> Round(last.rib, nodes),
                                 changed |-> Round(last.rib, nodes) # last.rib]
                           ELSE last
            Rec(f) == f = [k \in 0 .. MaxRounds |-> IF k = 0 THEN first ELSE Later(f[k - 1])]
            step == [t \in (1 .. MaxRounds) \X V |-> Later(t[2])]
<1>1. MaxRounds \in Nat /\ first \in V
  BY BoundAssumption
<1>2. Propagated(rib, nodes) = (CHOOSE f : Rec(f))[MaxRounds].rib
  BY DEF Propagated
<1>3. \A last \in V : Later(last) \in V
  <2>. SUFFICES ASSUME NEW last \in V PROVE Later(last) \in V
    OBVIOUS
  <2>1. last.rib \in CleanRibs
    OBVIOUS
  <2>2. Round(last.rib, nodes) \in CleanRibs
    BY <2>1, RoundClean
  <2>3. last \in V
    OBVIOUS
  <2>. QED
    BY <2>2, <2>3
<1>. HIDE DEF Later, V, first
<1>4. step \in [(1 .. MaxRounds) \X V -> V]
  <2>1. ASSUME NEW t \in (1 .. MaxRounds) \X V PROVE Later(t[2]) \in V
    <3>1. t[2] \in V
      OBVIOUS
    <3>. QED
      BY <1>3, <3>1
  <2>. QED
    BY <2>1
<1>5. PICK f \in [0 .. MaxRounds -> V] : StepsTo(f, MaxRounds, first, step)
  <2>. HIDE DEF step
  <2>. QED
    BY <1>1, <1>4, Recursion
<1>6. Rec(f)
  <2>1. ASSUME NEW i \in 1 .. MaxRounds PROVE f[i] = Later(f[i - 1])
    <3>1. <<i, f[i - 1]>> \in (1 .. MaxRounds) \X V
      BY <1>1
    <3>2. f[i] = step[<<i, f[i - 1]>>]
      BY <1>5 DEF StepsTo
    <3>. QED
      BY <3>1, <3>2
  <2>2. ASSUME NEW i \in 0 .. MaxRounds
        PROVE  f[i] = IF i = 0 THEN first ELSE Later(f[i - 1])
    <3>1. i = 0 \/ i \in 1 .. MaxRounds
      BY <1>1
    <3>. QED
      BY <1>5, <2>1, <3>1 DEF StepsTo
  <2>3. f = [k \in 0 .. MaxRounds |-> f[k]]
    BY <1>5
  <2>4. [k \in 0 .. MaxRounds |-> f[k]]
            = [k \in 0 .. MaxRounds |-> IF k = 0 THEN first ELSE Later(f[k - 1])]
    BY <2>2
  <2>. QED
    BY <2>3, <2>4
<1>. DEFINE g == CHOOSE f1 : Rec(f1)
<1>7. Rec(g)
  <2>. HIDE DEF Rec
  <2>. QED
    BY <1>6
<1>. HIDE DEF g
<1>8. g[0] \in V /\ \A i \in 1 .. MaxRounds : g[i - 1] \in V => g[i] \in V
  <2>1. g[0] = first /\ \A i \in 1 .. MaxRounds : g[i] = Later(g[i - 1])
    BY <1>1, <1>7
  <2>. QED
    BY <1>1, <1>3, <2>1
<1>9. g[MaxRounds] \in V
  <2>1. \A i \in 0 .. MaxRounds : g[i] \in V
    BY <1>1, <1>8, RecursionStays
  <2>. QED
    BY <1>1, <2>1
<1>. QED
  BY <1>2, <1>9 DEF g, V

-----------------------------------------------------------------------------
(* Steps of the routers.                                                    *)

\* Lists that are all clean make clean tables.
LEMMA RibsAre ==
    ASSUME NEW rib, rib = [n \in Router |-> [p \in Prefix |-> rib[n][p]]],
           \A n \in Router, p \in Prefix : rib[n][p] \in CleanLists(n)
    PROVE  rib \in CleanRibs
<1>1. \A n \in Router, p \in Prefix : rib[n][p] \in Seq(Route)
  <2>1. \A n : CleanLists(n) \subseteq Seq(Route)
    BY DEF CleanLists, Clean
  <2>. QED
    BY <2>1
<1>2. [n \in Router |-> [p \in Prefix |-> rib[n][p]]] \in [Router -> [Prefix -> Seq(Route)]]
  BY <1>1
<1>. QED
  BY <1>2 DEF CleanRibs

\* A list of no routes.
LEMMA EmptyClean == ASSUME NEW n PROVE <<>> \in CleanLists(n)
  BY DEF CleanLists, OnePerPeer

\* The inductive invariant.
RoutesTyped == BgpTypeOK /\ ribIn \in CleanRibs

\* What the proofs about steps use of it.
LEMMA TypedFacts ==
    ASSUME RoutesTyped
    PROVE  /\ Numbered
           /\ \A n \in Router, p \in Prefix : ribIn[n][p] \in CleanLists(n)
           /\ ribIn = [n \in Router |-> [p \in Prefix |-> ribIn[n][p]]]
<1>1. As \in [Router -> Nat]
  BY RouterAssumption DEF RoutesTyped, BgpTypeOK
<1>2. ribIn \in [Router -> [Prefix -> Seq(Route)]]
  BY DEF RoutesTyped, BgpTypeOK
<1>. QED
  BY <1>1, <1>2 DEF RoutesTyped, BgpTypeOK, Numbered, CleanRibs

\* The tables that steps make.
LEMMA RibStep ==
    ASSUME RoutesTyped, Step
    PROVE  ribIn' \in CleanRibs
<1>. USE DEF Numbered
<1>1. Numbered /\ ribIn \in CleanRibs
  BY TypedFacts DEF RoutesTyped
<1>2. ASSUME UNCHANGED ribIn PROVE ribIn' \in CleanRibs
  BY <1>1, <1>2
<1>3. ASSUME ribIn' = Propagated(ribIn, node') PROVE ribIn' \in CleanRibs
  BY <1>1, <1>3, PropagatedClean
<1>4. ASSUME NEW d \in Router, NEW n \in Router, SessionDown(d, n) PROVE ribIn' \in CleanRibs
  <2>. DEFINE ends == {e \in {<<d, n>>, <<n, d>>} : Up(node, e[1], e[2])}
              Gone(x) == {y \in Router : <<x, y>> \in ends}
              kept == [x \in Router |->
                          IF Gone(x) = {} THEN ribIn[x] ELSE Kept(x, CHOOSE y \in Gone(x) : TRUE)]
  <2>1. ribIn' = Propagated(kept, node')
    BY <1>4 DEF SessionDown
  <2>2. ASSUME NEW x \in Router, NEW y, NEW p \in Prefix PROVE Kept(x, y)[p] \in CleanLists(x)
    <3>1. ribIn[x][p] \in CleanLists(x)
      BY TypedFacts
    <3>. QED
      BY <3>1, StaledClean, WithoutClean DEF Kept
  <2>3. \A x, y : Kept(x, y) = [p \in Prefix |-> Kept(x, y)[p]]
    BY DEF Kept
  <2>4. \A x \in Router, p \in Prefix : ribIn[x][p] \in CleanLists(x)
    BY TypedFacts
  <2>5. \A x \in Router : ribIn[x] = [p \in Prefix |-> ribIn[x][p]]
    BY DEF RoutesTyped, BgpTypeOK
  <2>. HIDE DEF Gone
  <2>6. ASSUME NEW x \in Router
        PROVE  /\ kept[x] = [p \in Prefix |-> kept[x][p]]
               /\ \A p \in Prefix : kept[x][p] \in CleanLists(x)
    <3>1. kept[x] = IF Gone(x) = {} THEN ribIn[x] ELSE Kept(x, CHOOSE y \in Gone(x) : TRUE)
      OBVIOUS
    <3>. HIDE DEF kept
    <3>2. CASE Gone(x) = {}
      BY <2>4, <2>5, <3>1, <3>2
    <3>3. CASE Gone(x) # {}
      <4>. DEFINE y == CHOOSE z \in Gone(x) : TRUE
      <4>1. kept[x] = Kept(x, y)
        BY <3>1, <3>3
      <4>. HIDE DEF y
      <4>. QED
        BY <2>2, <2>3, <4>1
    <3>. QED
      BY <3>2, <3>3
  <2>7. kept = [x \in Router |-> kept[x]]
    OBVIOUS
  <2>. HIDE DEF kept
  <2>8. kept = [x \in Router |-> [p \in Prefix |-> kept[x][p]]]
    BY <2>6, <2>7
  <2>9. kept \in CleanRibs
    BY <2>6, <2>8, RibsAre
  <2>. QED
    BY <1>1, <2>1, <2>9, PropagatedClean
<1>5. ASSUME NEW d \in Router, NEW n \in Router, GrExpire(d, n) PROVE ribIn' \in CleanRibs
  <2>1. CASE ribIn' = [ribIn EXCEPT ![d] = [p \in Prefix |-> Without(ribIn[d][p], n)]]
    <3>1. \A x \in Router, p \in Prefix :
              ribIn'[x][p] = IF x = d THEN Without(ribIn[x][p], n) ELSE ribIn[x][p]
      BY <2>1, TypedFacts
    <3>2. \A x \in Router, p \in Prefix : ribIn[x][p] \in CleanLists(x)
      BY TypedFacts
    <3>3. \A x \in Router, p \in Prefix : ribIn'[x][p] \in CleanLists(x)
      BY <3>1, <3>2, WithoutClean
    <3>4. ribIn' = [x \in Router |-> [p \in Prefix |-> ribIn'[x][p]]]
      BY <2>1, TypedFacts
    <3>. QED
      BY <3>3, <3>4, RibsAre
  <2>2. GrExpire(d, n) =>
            \/ ribIn' = [ribIn EXCEPT ![d] = [p \in Prefix |-> Without(ribIn[d][p], n)]]
            \/ UNCHANGED ribIn
    BY DEF GrExpire, RoutesTyped, BgpTypeOK
  <2>. QED
    BY <1>2, <1>5, <2>1, <2>2
<1>6. ASSUME NEW d \in Router, RemoveDevice(d) PROVE ribIn' \in CleanRibs
  <2>1. ribIn' = [ribIn EXCEPT ![d] = [p \in Prefix |-> <<>>]]
    BY <1>6 DEF RemoveDevice
  <2>2. \A x \in Router, p \in Prefix : ribIn'[x][p] = IF x = d THEN <<>> ELSE ribIn[x][p]
    BY <2>1, TypedFacts
  <2>3. \A x \in Router, p \in Prefix : ribIn'[x][p] \in CleanLists(x)
    BY <2>2, TypedFacts, EmptyClean
  <2>4. ribIn' = [x \in Router |-> [p \in Prefix |-> ribIn'[x][p]]]
    BY <2>1, TypedFacts
  <2>. QED
    BY <2>3, <2>4, RibsAre
<1>7. ASSUME NEW d \in Router, NEW p \in Prefix, AdvertiseNetwork(d, p) PROVE ribIn' \in CleanRibs
  BY <1>2, <1>3, <1>7 DEF AdvertiseNetwork, Propagates
<1>8. ASSUME NEW u \in updates, SendUpdates(u[1], u[2], u[3]) PROVE ribIn' \in CleanRibs
  BY <1>2, <1>3, <1>8 DEF SendUpdates, Propagates
<1>9. ASSUME NEW d \in Router, NEW n \in Router,
             SetReflectorClient(d, n) \/ SetPreference(d, n) \/ SetPrepend(d, n)
      PROVE  ribIn' \in CleanRibs
  BY <1>3, <1>9 DEF SetReflectorClient, SetPreference, SetPrepend, Propagates
<1>10. ASSUME NEW d \in Router, NEW n \in Router, NEW on \in BOOLEAN,
              AddNeighbor(d, n) \/ Establish(d, n) \/ SetGracefulRestart(d, on) \/ Start(d)
       PROVE  ribIn' \in CleanRibs
  BY <1>2, <1>10 DEF AddNeighbor, Establish, SetGracefulRestart, Start
<1>. QED
  BY <1>4, <1>5, <1>6, <1>7, <1>8, <1>9, <1>10 DEF Step

\* Without a first element a sequence is what it was or lacks one index.
LEMMA RemoveFirstIs ==
    ASSUME NEW S, NEW s \in Seq(S), NEW e
    PROVE  RemoveFirst(s, e) = s \/ \E k \in 1 .. Len(s) : RemoveFirst(s, e) = RemoveAt(s, k)
<1>1. CASE \E i \in 1 .. Len(s) : s[i] = e
  <2>. DEFINE I == {i \in 1 .. Len(s) : s[i] = e}
  <2>1. I # {} /\ I \in SUBSET Nat
    BY <1>1
  <2>2. RemoveFirst(s, e) = RemoveAt(s, Min(I))
    BY <1>1, <2>1 DEF RemoveFirst, SelectInSeq
  <2>. HIDE DEF I
  <2>3. Min(I) \in I
    BY <2>1, LeastIndex
  <2>. QED
    BY <2>2, <2>3 DEF I
<1>2. CASE ~ \E i \in 1 .. Len(s) : s[i] = e
  BY <1>2 DEF RemoveFirst
<1>. QED
  BY <1>1, <1>2

\* The order of the routers when one goes and when one comes.
LEMMA OrderStep ==
    ASSUME NEW s \in Seq(Router), IsInjective(s), NEW d \in Router
    PROVE  /\ RemoveFirst(s, d) \in Seq(Router) /\ IsInjective(RemoveFirst(s, d))
           /\ d \notin ToSet(s) => Append(s, d) \in Seq(Router) /\ IsInjective(Append(s, d))
<1>1. ASSUME NEW k \in 1 .. Len(s)
      PROVE  RemoveAt(s, k) \in Seq(Router) /\ IsInjective(RemoveAt(s, k))
  <2>. DEFINE z == RemoveAt(s, k)
  <2>1. /\ z \in Seq(Router) /\ Len(z) = Len(s) - 1 /\ DOMAIN z = 1 .. Len(s) - 1
        /\ \A i \in 1 .. Len(s) - 1 : z[i] = IF i < k THEN s[i] ELSE s[i + 1]
    BY RemoveAtFacts
  <2>. HIDE DEF z
  <2>2. ASSUME NEW i \in DOMAIN z, NEW j \in DOMAIN z, z[i] = z[j] PROVE i = j
    <3>. DEFINE u == IF i < k THEN i ELSE i + 1
                v == IF j < k THEN j ELSE j + 1
    <3>1. u \in DOMAIN s /\ v \in DOMAIN s /\ z[i] = s[u] /\ z[j] = s[v]
      BY <2>1
    <3>2. u = v
      BY <2>2, <3>1 DEF IsInjective
    <3>3. i \in Nat /\ j \in Nat
      BY <2>1
    <3>. QED
      BY <3>2, <3>3
  <2>3. IsInjective(z)
    BY <2>2 DEF IsInjective
  <2>. QED
    BY <2>1, <2>3 DEF z
<1>2. ASSUME d \notin ToSet(s) PROVE Append(s, d) \in Seq(Router) /\ IsInjective(Append(s, d))
  <2>. DEFINE z == Append(s, d)
  <2>1. \A i \in 1 .. Len(s) : s[i] # d
    BY <1>2 DEF ToSet
  <2>2. /\ z \in Seq(Router) /\ DOMAIN z = 1 .. Len(s) + 1 /\ z[Len(s) + 1] = d
        /\ \A i \in 1 .. Len(s) : z[i] = s[i]
        /\ DOMAIN s = 1 .. Len(s) /\ Len(s) \in Nat
    OBVIOUS
  <2>. HIDE DEF z
  <2>3. \A x \in DOMAIN z : x = Len(s) + 1 \/ x \in 1 .. Len(s)
    BY <2>2
  <2>4. IsInjective(z)
    BY <2>1, <2>2, <2>3 DEF IsInjective
  <2>. QED
    BY <2>2, <2>4 DEF z
<1>. QED
  BY <1>1, <1>2, RemoveFirstIs

\* A router's record with a part replaced is a router's record.
LEMMA NodeWith ==
    ASSUME NEW nd \in Node
    PROVE  /\ \A S \in SUBSET Prefix : [nd EXCEPT !.networks = S] \in Node
           /\ \A D \in SUBSET Router : /\ [nd EXCEPT !.client = D] \in Node
                                       /\ [nd EXCEPT !.prefer = D] \in Node
                                       /\ [nd EXCEPT !.prepend = D] \in Node
           /\ \A on \in BOOLEAN : [nd EXCEPT !.gr = on] \in Node
           /\ \A st \in [Router -> {"none", "Idle", "Established"}] :
                  [nd EXCEPT !.session = st] \in Node
  BY DEF Node

\* The record of a router without configuration.
LEMMA NewNodeType == NewNode \in Node
  BY DEF NewNode, Node

\* The records of the routers keep their shape.
LEMMA NodesStep ==
    ASSUME RoutesTyped, Step
    PROVE  node' \in [Router -> Node]
<1>1. /\ node \in [Router -> Node]
      /\ \A d \in Router : /\ node[d] \in Node
                           /\ node[d].networks \in SUBSET Prefix /\ node[d].client \in SUBSET Router
                           /\ node[d].prefer \in SUBSET Router /\ node[d].prepend \in SUBSET Router
                           /\ node[d].session \in [Router -> {"none", "Idle", "Established"}]
  BY DEF RoutesTyped, BgpTypeOK, Node
<1>2. ASSUME NEW d \in Router, NEW nd \in Node, node' = [node EXCEPT ![d] = nd]
      PROVE  node' \in [Router -> Node]
  BY <1>1, <1>2
<1>3. ASSUME NEW d \in Router, NEW p \in Prefix, AdvertiseNetwork(d, p)
      PROVE  node' \in [Router -> Node]
  <2>. DEFINE S == node[d].networks \cup {p}
              nd == [node[d] EXCEPT !.networks = S]
  <2>1. nd \in Node
    <3>1. S \in SUBSET Prefix
      BY <1>1
    <3>. HIDE DEF S
    <3>. QED
      BY <1>1, <3>1, NodeWith
  <2>2. node' = [node EXCEPT ![d] = nd]
    BY <1>1, <1>3 DEF AdvertiseNetwork
  <2>. HIDE DEF nd
  <2>. QED
    BY <1>2, <2>1, <2>2
<1>4. ASSUME NEW d \in Router, NEW n \in Router,
             SetReflectorClient(d, n) \/ SetPreference(d, n) \/ SetPrepend(d, n)
      PROVE  node' \in [Router -> Node]
  <2>. DEFINE c == [node[d] EXCEPT !.client = node[d].client \cup {n}]
              r == [node[d] EXCEPT !.prefer = node[d].prefer \cup {n}]
              q == [node[d] EXCEPT !.prepend = node[d].prepend \cup {n}]
  <2>1. c \in Node /\ r \in Node /\ q \in Node
    <3>1. \A D \in SUBSET Router : D \cup {n} \in SUBSET Router
      OBVIOUS
    <3>. QED
      BY <1>1, <3>1, NodeWith
  <2>2. \/ node' = [node EXCEPT ![d] = c]
        \/ node' = [node EXCEPT ![d] = r]
        \/ node' = [node EXCEPT ![d] = q]
    BY <1>1, <1>4 DEF SetReflectorClient, SetPreference, SetPrepend
  <2>. HIDE DEF c, r, q
  <2>. QED
    BY <1>2, <2>1, <2>2
<1>5. ASSUME NEW d \in Router, NEW on \in BOOLEAN, SetGracefulRestart(d, on)
      PROVE  node' \in [Router -> Node]
  <2>. DEFINE nd == [node[d] EXCEPT !.gr = on]
  <2>1. nd \in Node
    BY <1>1, NodeWith
  <2>2. node' = [node EXCEPT ![d] = nd]
    BY <1>1, <1>5 DEF SetGracefulRestart
  <2>. HIDE DEF nd
  <2>. QED
    BY <1>2, <2>1, <2>2
<1>6. ASSUME NEW d \in Router, RemoveDevice(d) PROVE node' \in [Router -> Node]
  BY <1>2, <1>6, NewNodeType DEF RemoveDevice
<1>7. ASSUME NEW d \in Router, NEW n \in Router, AddNeighbor(d, n)
      PROVE  node' \in [Router -> Node]
  <2>. DEFINE st == [node[d].session EXCEPT ![n] = "Idle"]
              nd == [node[d] EXCEPT !.session = st]
  <2>1. nd \in Node
    <3>1. st \in [Router -> {"none", "Idle", "Established"}]
      BY <1>1
    <3>. HIDE DEF st
    <3>. QED
      BY <1>1, <3>1, NodeWith
  <2>2. node' = [node EXCEPT ![d] = nd]
    BY <1>1, <1>7 DEF AddNeighbor
  <2>. HIDE DEF nd
  <2>. QED
    BY <1>2, <2>1, <2>2
<1>8. ASSUME NEW d \in Router, NEW n \in Router, Establish(d, n)
      PROVE  node' \in [Router -> Node]
  <2>. DEFINE mid == [node EXCEPT ![d].session[n] = "Established"]
  <2>1. node' = [mid EXCEPT ![n].session[d] = IF @ = "none" THEN @ ELSE "Established"]
    BY <1>8 DEF Establish
  <2>2. mid \in [Router -> Node]
    <3>. DEFINE st == [node[d].session EXCEPT ![n] = "Established"]
                nd == [node[d] EXCEPT !.session = st]
    <3>1. nd \in Node
      <4>1. st \in [Router -> {"none", "Idle", "Established"}]
        BY <1>1
      <4>. HIDE DEF st
      <4>. QED
        BY <1>1, <4>1, NodeWith
    <3>2. mid = [node EXCEPT ![d] = nd]
      BY <1>1
    <3>. HIDE DEF nd, mid
    <3>. QED
      BY <1>1, <3>1, <3>2
  <2>. HIDE DEF mid
  <2>. DEFINE was == mid[n].session[d]
              now == IF was = "none" THEN was ELSE "Established"
              nd == [mid[n] EXCEPT !.session = [mid[n].session EXCEPT ![d] = now]]
  <2>3. mid[n] \in Node /\ mid[n].session \in [Router -> {"none", "Idle", "Established"}]
        /\ now \in {"none", "Idle", "Established"}
    BY <2>2 DEF Node
  <2>. HIDE DEF now
  <2>4. nd \in Node
    BY <2>3 DEF Node
  <2>5. node' = [mid EXCEPT ![n] = nd]
    BY <2>1, <2>2 DEF now
  <2>. HIDE DEF nd
  <2>. QED
    BY <2>2, <2>4, <2>5
<1>9. ASSUME NEW d \in Router, NEW n \in Router, SessionDown(d, n)
      PROVE  node' \in [Router -> Node]
  <2>. DEFINE ends == {e \in {<<d, n>>, <<n, d>>} : Up(node, e[1], e[2])}
              Gone(x) == {y \in Router : <<x, y>> \in ends}
              st(x) == [y \in Router |-> IF y \in Gone(x) THEN "Idle" ELSE node[x].session[y]]
              nd(x) == [node[x] EXCEPT !.session = st(x)]
  <2>1. node' = [x \in Router |-> nd(x)]
    BY <1>9 DEF SessionDown
  <2>. HIDE DEF Gone
  <2>2. ASSUME NEW x \in Router PROVE nd(x) \in Node
    <3>1. node[x] \in Node /\ node[x].session \in [Router -> {"none", "Idle", "Established"}]
      BY <1>1
    <3>2. st(x) \in [Router -> {"none", "Idle", "Established"}]
      BY <3>1
    <3>. HIDE DEF st
    <3>. QED
      BY <3>1, <3>2 DEF Node
  <2>. HIDE DEF nd
  <2>. QED
    BY <2>1, <2>2
<1>10. ASSUME UNCHANGED node PROVE node' \in [Router -> Node]
  BY <1>1, <1>10
<1>11. ASSUME NEW d \in Router, NEW n \in Router, Start(d) \/ GrExpire(d, n)
       PROVE  node' \in [Router -> Node]
  BY <1>10, <1>11 DEF Start, GrExpire
<1>12. ASSUME NEW u \in updates, SendUpdates(u[1], u[2], u[3]) PROVE node' \in [Router -> Node]
  BY <1>10, <1>12 DEF SendUpdates
<1>. QED
  BY <1>3, <1>4, <1>5, <1>6, <1>7, <1>8, <1>9, <1>11, <1>12 DEF Step

\* The rest of the state.
RestTyped ==
    /\ order \in Seq(Router) /\ IsInjective(order)
    /\ updates \subseteq Router \X Router \X {1, 2}
    /\ timers \subseteq Router \X Router
    /\ expired \in BOOLEAN
    /\ changes \in 0 .. MaxChanges

\* And so does the rest.
LEMMA RestStep ==
    ASSUME RoutesTyped, Step
    PROVE  RestTyped'
<1>1. RestTyped
  BY DEF RoutesTyped, BgpTypeOK, RestTyped
<1>2. changes < MaxChanges /\ changes' = changes + 1 => changes' \in 0 .. MaxChanges
  BY <1>1, BoundAssumption DEF RestTyped
<1>3. ASSUME NEW d \in Router, RemoveDevice(d) \/ Start(d) PROVE RestTyped'
  BY <1>1, <1>2, <1>3, OrderStep DEF RemoveDevice, Start, Changes, Known, RestTyped
<1>4. ASSUME NEW d \in Router, NEW p \in Prefix, AdvertiseNetwork(d, p) PROVE RestTyped'
  BY <1>1, <1>2, <1>4 DEF AdvertiseNetwork, Changes, Propagates, RestTyped
<1>5. ASSUME NEW d \in Router, NEW n \in Router,
             \/ SetReflectorClient(d, n) \/ SetPreference(d, n) \/ SetPrepend(d, n)
             \/ AddNeighbor(d, n)
      PROVE  RestTyped'
  BY <1>1, <1>2, <1>5
     DEF SetReflectorClient, SetPreference, SetPrepend, AddNeighbor, Changes, Propagates, RestTyped
<1>6. ASSUME NEW d \in Router, NEW on \in BOOLEAN, SetGracefulRestart(d, on) PROVE RestTyped'
  BY <1>1, <1>2, <1>6 DEF SetGracefulRestart, Changes, RestTyped
<1>7. ASSUME NEW d \in Router, NEW n \in Router, Establish(d, n) \/ GrExpire(d, n) PROVE RestTyped'
  <2>1. CASE Establish(d, n)
    <3>1. updates' \subseteq Router \X Router \X {1, 2}
      BY <1>1, <2>1 DEF Establish, RestTyped
    <3>. QED
      BY <1>1, <2>1, <3>1 DEF Establish, RestTyped
  <2>2. CASE GrExpire(d, n)
    <3>1. expired' \in BOOLEAN
      BY <1>1, <2>2 DEF GrExpire, RestTyped
    <3>. QED
      BY <1>1, <2>2, <3>1 DEF GrExpire, RestTyped
  <2>. QED
    BY <1>7, <2>1, <2>2
<1>8. ASSUME NEW u \in updates, SendUpdates(u[1], u[2], u[3]) PROVE RestTyped'
  <2>1. u[1] \in Router /\ u[2] \in Router
    BY <1>1 DEF RestTyped
  <2>2. updates' \subseteq Router \X Router \X {1, 2}
    BY <1>1, <1>8, <2>1 DEF SendUpdates, RestTyped
  <2>. QED
    BY <1>1, <1>8, <2>2 DEF SendUpdates, Propagates, RestTyped
<1>9. ASSUME NEW d \in Router, NEW n \in Router, SessionDown(d, n) PROVE RestTyped'
  <2>. DEFINE ends == {e \in {<<d, n>>, <<n, d>>} : Up(node, e[1], e[2])}
  <2>1. ends \subseteq Router \X Router
    OBVIOUS
  <2>2. timers' = timers \cup {e \in ends : node[e[1]].gr}
    BY <1>9 DEF SessionDown
  <2>. HIDE DEF ends
  <2>3. timers' \subseteq Router \X Router
    BY <1>1, <2>1, <2>2 DEF RestTyped
  <2>. QED
    BY <1>1, <1>2, <1>9, <2>3 DEF SessionDown, Changes, RestTyped
<1>. QED
  BY <1>3, <1>4, <1>5, <1>6, <1>7, <1>8, <1>9 DEF Step

\* A network that starts satisfies the invariant, and every step keeps it.
LEMMA RoutesInit == BgpInit => RoutesTyped
<1>. SUFFICES ASSUME BgpInit PROVE RoutesTyped
  OBVIOUS
<1>1. ribIn \in CleanRibs
  BY EmptyClean DEF BgpInit, CleanRibs
<1>2. node \in [Router -> Node]
  <2>1. ASSUME NEW d \in Router
        PROVE  [NewNode EXCEPT !.session = [n \in Router |-> IF n \in Peering[d]
                                              THEN "Established" ELSE "none"]] \in Node
    BY NewNodeType DEF Node
  <2>. QED
    BY <2>1 DEF BgpInit
<1>3. ribIn \in [Router -> [Prefix -> Seq(Route)]]
  BY <1>1 DEF CleanRibs
<1>4. /\ As \in Plans /\ order \in Seq(Router) /\ IsInjective(order) /\ updates = {} /\ timers = {}
      /\ expired \in BOOLEAN /\ changes \in 0 .. MaxChanges
  <2>1. As \in Plans /\ order = Boot /\ updates = {} /\ timers = {} /\ expired = FALSE /\ changes = 0
    BY DEF BgpInit
  <2>2. 0 \in 0 .. MaxChanges
    BY BoundAssumption
  <2>3. order \in Seq(Router) /\ IsInjective(order)
    BY <2>1, BootAssumption, Zenon
  <2>. QED
    BY <2>1, <2>2, <2>3
<1>. QED
  BY <1>1, <1>2, <1>3, <1>4 DEF RoutesTyped, BgpTypeOK

LEMMA RoutesStep == RoutesTyped /\ [BgpNext]_bgpVars => RoutesTyped'
<1>. SUFFICES ASSUME RoutesTyped, [BgpNext]_bgpVars PROVE RoutesTyped'
  OBVIOUS
<1>1. CASE UNCHANGED bgpVars
  BY <1>1 DEF bgpVars, RoutesTyped, BgpTypeOK, CleanRibs, CleanLists, Clean
<1>2. CASE Step /\ UNCHANGED As
  <2>1. ribIn' \in CleanRibs /\ node' \in [Router -> Node] /\ RestTyped'
    BY <1>2, RibStep, NodesStep, RestStep
  <2>2. CleanRibs' = CleanRibs
    BY <1>2 DEF CleanRibs, CleanLists, Clean
  <2>3. As' \in Plans
    BY <1>2 DEF RoutesTyped, BgpTypeOK
  <2>4. ribIn' \in [Router -> [Prefix -> Seq(Route)]]
    BY <2>1 DEF CleanRibs
  <2>. QED
    BY <2>1, <2>2, <2>3, <2>4 DEF RoutesTyped, BgpTypeOK, RestTyped
<1>. QED
  BY <1>1, <1>2 DEF BgpNext

\* The state has the shape the engine gives it, for any routers and peerings,
\* bound on the rounds, and order of commands, restarts and propagations.
THEOREM BgpRoutesTypeCorrect == BgpSpec => []BgpTypeOK
<1>1. RoutesTyped => BgpTypeOK
  BY DEF RoutesTyped
<1>. QED
  BY <1>1, RoutesInit, RoutesStep, PTL DEF BgpSpec

\* No path that a router holds leads back into an AS it has left, and the
\* router's own AS may be put in front of it: neither reflectors, prepending,
\* stale routes nor a propagation that gives up before it has settled lets a
\* path go round.
THEOREM BgpPathsUnlooped == BgpSpec => []PathsUnlooped
<1>1. RoutesTyped => PathsUnlooped
  <2>. SUFFICES ASSUME RoutesTyped, NEW n \in Router, NEW p \in Prefix, NEW r \in ToSet(ribIn[n][p])
                PROVE  Unlooped(<<As[n]>> \o r.path)
    BY DEF PathsUnlooped
  <2>1. ribIn[n][p] \in Seq(Clean(n))
    BY TypedFacts DEF CleanLists
  <2>2. r \in Clean(n)
    BY <2>1 DEF ToSet
  <2>. QED
    BY <2>2 DEF Clean
<1>. QED
  BY <1>1, RoutesInit, RoutesStep, PTL DEF BgpSpec

\* A round of _propagate_bgp that changes nothing, at which it stops, leaves
\* every router with exactly what its Established peers advertise.
THEOREM BgpStopsAtFixpoint == BgpSpec => []StopsAtFixpoint
<1>1. RoutesTyped => StopsAtFixpoint
  <2>. SUFFICES ASSUME RoutesTyped, Round(ribIn, node) = ribIn,
                       NEW d \in ToSet(order), NEW n \in ToSet(order), NEW p \in Prefix, Up(node, d, n)
                PROVE  From(ribIn[n][p], d) = Wanted(ribIn, node, d, n, p)
    BY DEF StopsAtFixpoint, IsFixpoint
  <2>1. Numbered /\ IsInjective(order) /\ ribIn \in CleanRibs
    BY TypedFacts DEF RoutesTyped, BgpTypeOK
  <2>. QED
    BY <2>1, RoundTells
<1>. QED
  BY <1>1, RoutesInit, RoutesStep, PTL DEF BgpSpec
=============================================================================
