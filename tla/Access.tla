------------------------------- MODULE Access -------------------------------
(***************************************************************************)
(* The access network: PppoeEngine and MapEEngine (engine/protocols.py),   *)
(* the commands of app.py that connect routers to them, and what of it the *)
(* saved configuration keeps over a restart or a reload.                   *)
(*                                                                         *)
(* A session is one (router, pp interface) pair; its router's one LAN      *)
(* interface leads to the BAS, whose users and MAP-E pool are configured.  *)
(* Nothing here awaits: a command is a step.                               *)
(***************************************************************************)
EXTENDS Integers, FiniteSets

CONSTANTS
    Rtx,         \* the routers
    Session,     \* the WAN interfaces
    Owner,       \* session -> its router
    Kind,        \* router -> "yamaha", "fortigate" or "asa"
    Bas,         \* the access servers; each is also a MAP-E rule server
    Net,         \* BAS -> the addresses of its network
    Pools,       \* the pools an operator sets
    Accepts,     \* the (session, BAS) pairs whose user and password agree
    NoAddr,      \* no address
    NoSession,   \* no session
    Free, Lost,  \* marks of the abstract book: nobody's address, an abandoned one
    Slots,       \* the (address, port set) pairs of a MAP-E pool are 0 .. Slots - 1
    NoSlot,      \* no MAP-E rule
    MaxCommands, \* bound: router commands
    MaxCables,   \* bound: changes of pools, cables and devices
    MaxRestarts  \* bound: restarts and reloads

ASSUME AddressesOk ==
    /\ Owner \in [Session -> Rtx]
    /\ IsFiniteSet(Rtx)
    /\ Net \in [Bas -> SUBSET Nat]
    /\ \A P \in Pools : P \subseteq Nat
    /\ NoAddr \notin Nat /\ NoSlot \notin Nat /\ Slots \in Nat
    /\ NoSession \notin [bas : Bas, ip : Nat]
    /\ Free # Lost /\ Free \notin Session /\ Lost \notin Session

VARIABLES
    pool,      \* BAS -> the addresses between pool_start and pool_end
    leased,    \* BAS -> addresses handed out
    basSess,   \* BAS -> session -> the address in bas['sessions']
    ppSess,    \* session -> pp_sessions
    wan,       \* session -> what the router has: connected flag, interface address
    rules,     \* BAS -> router -> the slot in srv['rules']
    mapRule,   \* router -> the slot of its map_e_rule
    present,   \* routers in device_sessions
    linked,    \* vnet.links between routers and BASs
    facing,    \* interface_links of the router towards the BAS: its LAN interface, a pp or none
    saved,     \* the saved configuration file
    reloaded,  \* history: sessions whose router state came from the file
    restarted, \* history: the program restarted and no cable was plugged since
    commands, cables, restarts \* bounds

accVars == <<pool, leased, basSess, ppSess, wan, rules, mapRule, present, linked, facing,
             saved, reloaded, restarted, commands, cables, restarts>>
accBounds == <<commands, cables, restarts>>

Addr == (UNION {Net[b] : b \in Bas}) \cup (UNION Pools)
Wan == [conn : BOOLEAN, ip : Addr \cup {NoAddr}]
NoWan == [conn |-> FALSE, ip |-> NoAddr]
SlotOrNone == (0 .. Slots - 1) \cup {NoSlot}
File == [wan : [Session -> Wan], mapRule : [Rtx -> SlotOrNone], present : SUBSET Rtx,
         linked : SUBSET (Rtx \X Bas), pool : [Bas -> SUBSET Addr]]

AccInit ==
    /\ pool = Net
    /\ leased = [b \in Bas |-> {}]
    /\ basSess = [b \in Bas |-> [s \in Session |-> NoAddr]]
    /\ ppSess = [s \in Session |-> NoSession]
    /\ wan = [s \in Session |-> NoWan]
    /\ rules = [b \in Bas |-> [r \in Rtx |-> NoSlot]]
    /\ mapRule = [r \in Rtx |-> NoSlot]
    /\ present = Rtx
    /\ linked = {}
    /\ facing = [r \in Rtx |-> [b \in Bas |-> "none"]]
    /\ saved = [wan |-> wan, mapRule |-> mapRule, present |-> present, linked |-> linked,
                pool |-> pool]
    /\ reloaded = {} /\ restarted = FALSE
    /\ commands = 0 /\ cables = 0 /\ restarts = 0

-----------------------------------------------------------------------------
(* PPPoE.                                                                  *)

\* Mutant of IsNextFree: the table of sessions is asked instead of the leases.
IsNextFreeOfSessions(b, a) ==
    /\ a \in pool[b] \ {basSess[b][s] : s \in Session}
    /\ \A x \in pool[b] \ {basSess[b][s] : s \in Session} : a <= x

\* _alloc_ip: the lowest address of the pool that is not leased.
IsNextFree(b, a) == a \in pool[b] \ leased[b] /\ \A x \in pool[b] \ leased[b] : a <= x

\* The BASs the loop of connect takes one of: the first that passes every test.
Offers(s) ==
    {b \in Bas : /\ <<Owner[s], b>> \in linked
                 /\ facing[Owner[s]][b] = "lan"
                 /\ <<s, b>> \in Accepts
                 /\ pool[b] \ leased[b] # {}}

\* "pp enable" runs whether or not the session is up; a FortiGate and an ASA
\* connect only an interface whose connected flag is not set.
MayConnect(s) == Owner[s] \in present /\ (Kind[Owner[s]] = "yamaha" \/ ~wan[s].conn)

\* connect, and what the command does with its result.
PpConnect(s) ==
    /\ commands < MaxCommands
    /\ MayConnect(s)
    /\ \E b \in Offers(s), a \in Addr :
          /\ IsNextFree(b, a)
          /\ leased' = [leased EXCEPT ![b] = @ \cup {a}]
          /\ basSess' = [basSess EXCEPT ![b][s] = a]
          /\ ppSess' = [ppSess EXCEPT ![s] = [bas |-> b, ip |-> a]]
          /\ wan' = [wan EXCEPT ![s] = [conn |-> TRUE, ip |-> a]]
    /\ reloaded' = reloaded \ {s}
    /\ commands' = commands + 1
    /\ UNCHANGED <<pool, rules, mapRule, present, linked, facing, saved, restarted, cables, restarts>>

\* Mutant of Released: what the router believes to have is taken back.
ReleasedWan(s) ==
    IF ppSess[s] = NoSession THEN leased
    ELSE [leased EXCEPT ![ppSess[s].bas] = @ \ {wan[s].ip}]

\* The lease that disconnect takes back.
Released(s) ==
    IF ppSess[s] = NoSession THEN leased
    ELSE [leased EXCEPT ![ppSess[s].bas] = @ \ {ppSess[s].ip}]

\* Mutant of Hung: the connected flag stays.
HungFlagged(s) == [wan EXCEPT ![s].ip = NoAddr]

\* What the router has after "pp disable".
Hung(s) == [wan EXCEPT ![s] = NoWan]

\* "pp disable" of a connected pp: disconnect, and the interface goes.
PpDisable(s) ==
    /\ commands < MaxCommands
    /\ Owner[s] \in present /\ Kind[Owner[s]] = "yamaha" /\ wan[s].conn
    /\ leased' = Released(s)
    /\ basSess' = IF ppSess[s] = NoSession THEN basSess
                  ELSE [basSess EXCEPT ![ppSess[s].bas][s] = NoAddr]
    /\ ppSess' = [ppSess EXCEPT ![s] = NoSession]
    /\ wan' = Hung(s)
    /\ reloaded' = reloaded \ {s}
    /\ commands' = commands + 1
    /\ UNCHANGED <<pool, rules, mapRule, present, linked, facing, saved, restarted, cables, restarts>>

\* "ip pool" on the BAS: the leases stay as they are.
SetPool(b) ==
    /\ cables < MaxCables
    /\ \E P \in Pools : pool' = [pool EXCEPT ![b] = P]
    /\ cables' = cables + 1
    /\ UNCHANGED <<leased, basSess, ppSess, wan, rules, mapRule, present, linked, facing, saved,
                   reloaded, restarted, commands, restarts>>

-----------------------------------------------------------------------------
(* MAP-E.                                                                  *)

RuleServers(r) == {b \in Bas : <<r, b>> \in linked /\ facing[r][b] = "lan"}

\* Mutant of HasSlot: one slot too many.
HasSlotOver(b) == Cardinality({r \in Rtx : rules[b][r] # NoSlot}) <= Slots

RuleCount(b) == Cardinality({r \in Rtx : rules[b][r] # NoSlot})
HasSlot(b) == RuleCount(b) < Slots

\* "map-e use": request_rule takes the slot numbered by the count of the rules.
MapUse(r) ==
    /\ commands < MaxCommands /\ r \in present
    /\ \E b \in RuleServers(r) :
          /\ HasSlot(b)
          /\ rules' = [rules EXCEPT ![b][r] = RuleCount(b)]
          /\ mapRule' = [mapRule EXCEPT ![r] = RuleCount(b)]
    /\ commands' = commands + 1
    /\ UNCHANGED <<pool, leased, basSess, ppSess, wan, present, linked, facing, saved, reloaded,
                   restarted, cables, restarts>>

\* "no map-e use": release_rule pops the rule from every server.
MapRelease(r) ==
    /\ commands < MaxCommands /\ r \in present
    /\ rules' = [b \in Bas |-> [rules[b] EXCEPT ![r] = NoSlot]]
    /\ mapRule' = [mapRule EXCEPT ![r] = NoSlot]
    /\ commands' = commands + 1
    /\ UNCHANGED <<pool, leased, basSess, ppSess, wan, present, linked, facing, saved, reloaded,
                   restarted, cables, restarts>>

-----------------------------------------------------------------------------
(* Cables and devices.                                                     *)

\* add_link with the interface names of the canvas.
PlugIn(r, b) ==
    /\ cables < MaxCables /\ r \in present
    /\ linked' = linked \cup {<<r, b>>}
    /\ facing' = [facing EXCEPT ![r][b] = "lan"]
    /\ restarted' = FALSE
    /\ cables' = cables + 1
    /\ UNCHANGED <<pool, leased, basSess, ppSess, wan, rules, mapRule, present, saved, reloaded,
                   commands, restarts>>

\* remove_link forgets the neighbour, not the interface that led to it.
PullOut(r, b) ==
    /\ cables < MaxCables /\ <<r, b>> \in linked
    /\ linked' = linked \ {<<r, b>>}
    /\ cables' = cables + 1
    /\ UNCHANGED <<pool, leased, basSess, ppSess, wan, rules, mapRule, present, facing, saved,
                   reloaded, restarted, commands, restarts>>

OwnSessions(r) == {s \in Session : Owner[s] = r}

\* remove_device forgets the router and its cables; neither engine hears of it.
RemoveRouter(r) ==
    /\ cables < MaxCables /\ r \in present
    /\ present' = present \ {r}
    /\ wan' = [s \in Session |-> IF Owner[s] = r THEN NoWan ELSE wan[s]]
    /\ mapRule' = [mapRule EXCEPT ![r] = NoSlot]
    /\ linked' = {e \in linked : e[1] # r}
    /\ facing' = [facing EXCEPT ![r] = [b \in Bas |-> "none"]]
    /\ reloaded' = reloaded \ OwnSessions(r)
    /\ cables' = cables + 1
    /\ UNCHANGED <<pool, leased, basSess, ppSess, rules, saved, restarted, commands, restarts>>

\* A new device under the old name.
AddRouter(r) ==
    /\ cables < MaxCables /\ r \notin present
    /\ present' = present \cup {r}
    /\ cables' = cables + 1
    /\ UNCHANGED <<pool, leased, basSess, ppSess, wan, rules, mapRule, linked, facing, saved,
                   reloaded, restarted, commands, restarts>>

-----------------------------------------------------------------------------
(* The saved configuration.                                                *)

\* _save_config keeps what the routers have and no lease, session or rule; an
\* ASA's connected flag is not in the file, its interface's address is.
SaveConfig ==
    /\ saved' = [wan |-> [s \in Session |->
                            IF Kind[Owner[s]] = "asa" THEN [wan[s] EXCEPT !.conn = FALSE] ELSE wan[s]],
                 mapRule |-> mapRule, present |-> present, linked |-> linked, pool |-> pool]
    /\ saved' # saved
    /\ UNCHANGED <<pool, leased, basSess, ppSess, wan, rules, mapRule, present, linked, facing,
                   reloaded, restarted, commands, cables, restarts>>

\* _find_linked_iface: the file names no interfaces, so the one with an address
\* in the neighbour's network is taken: a Yamaha's is the pp, another's the
\* LAN interface itself; "none" when there is no such interface.
FoundIface(r, b) ==
    IF \E s \in OwnSessions(r) : saved.wan[s].ip \in Net[b]
    THEN IF Kind[r] = "yamaha" THEN "pp" ELSE "lan"
    ELSE "none"

\* What _load_config puts back, over the names known before.
Loaded(known) ==
    /\ wan' = saved.wan
    /\ mapRule' = saved.mapRule
    /\ present' = saved.present
    /\ facing' = [r \in Rtx |-> [b \in Bas |->
                    IF <<r, b>> \in saved.linked /\ FoundIface(r, b) # "none"
                    THEN FoundIface(r, b) ELSE known[r][b]]]
    /\ reloaded' = {s \in Session : saved.wan[s] # NoWan}

\* The program ends, with or without a save, and starts again.
Restart ==
    /\ restarts < MaxRestarts
    /\ restarts' = restarts + 1
    /\ Loaded([r \in Rtx |-> [b \in Bas |-> "none"]])
    /\ pool' = saved.pool
    /\ leased' = [b \in Bas |-> {}]
    /\ basSess' = [b \in Bas |-> [s \in Session |-> NoAddr]]
    /\ ppSess' = [s \in Session |-> NoSession]
    /\ rules' = [b \in Bas |-> [r \in Rtx |-> NoSlot]]
    /\ linked' = saved.linked
    /\ restarted' = TRUE
    /\ UNCHANGED <<saved, commands, cables>>

\* /api/load: the same over running engines.
Reload ==
    /\ restarts < MaxRestarts
    /\ restarts' = restarts + 1
    /\ Loaded(facing)
    /\ pool' = saved.pool
    /\ linked' = linked \cup saved.linked
    /\ UNCHANGED <<leased, basSess, ppSess, rules, saved, restarted, commands, cables>>

AccNext ==
    \/ \E s \in Session : PpConnect(s) \/ PpDisable(s)
    \/ \E r \in Rtx : MapUse(r) \/ MapRelease(r) \/ RemoveRouter(r) \/ AddRouter(r)
    \/ \E r \in Rtx, b \in Bas : PlugIn(r, b) \/ PullOut(r, b)
    \/ \E b \in Bas : SetPool(b)
    \/ SaveConfig \/ Restart \/ Reload

AccSpec == AccInit /\ [][AccNext]_accVars

-----------------------------------------------------------------------------
(* Properties.                                                             *)

\* Every table holds values of its type.
AccTypeOK ==
    /\ pool \in [Bas -> SUBSET Addr]
    /\ leased \in [Bas -> SUBSET Addr]
    /\ basSess \in [Bas -> [Session -> Addr \cup {NoAddr}]]
    /\ ppSess \in [Session -> [bas : Bas, ip : Addr] \cup {NoSession}]
    /\ wan \in [Session -> Wan]
    /\ rules \in [Bas -> [Rtx -> SlotOrNone]]
    /\ mapRule \in [Rtx -> SlotOrNone]
    /\ present \in SUBSET Rtx
    /\ linked \in SUBSET (Rtx \X Bas)
    /\ facing \in [Rtx -> [Bas -> {"lan", "pp", "none"}]]
    /\ saved \in File
    /\ reloaded \in SUBSET Session /\ restarted \in BOOLEAN
    /\ commands \in Nat /\ cables \in Nat /\ restarts \in Nat

\* The three tables agree: a session's address is leased by its BAS and listed
\* there for that session (connect and disconnect write all three).
TablesAgree ==
    \A s \in Session : ppSess[s] # NoSession =>
        /\ ppSess[s].ip \in leased[ppSess[s].bas]
        /\ basSess[ppSess[s].bas][s] = ppSess[s].ip

\* No address is used by two sessions of a BAS, however often routers connect
\* again, are deleted or come back, and the pool is changed.
AddressesExclusive ==
    \A s, t \in Session : s # t /\ ppSess[s] # NoSession => ppSess[s] # ppSess[t]

\* A router that believes it is connected holds the session the BAS knows,
\* except when that belief was read from the file: only a restart or a reload
\* parts a router from its BAS.
OnlyReloadParts ==
    \A s \in Session : wan[s].conn /\ s \notin reloaded =>
        ppSess[s] # NoSession /\ ppSess[s].ip = wan[s].ip

\* The file's own claim: after a restart the router types "pp enable" again and
\* is given an address (the comment of _save_config).
EnableAgainWorks ==
    \A s \in Session :
        /\ restarted /\ s \in reloaded /\ Owner[s] \in present
        /\ \E b \in Bas : /\ <<Owner[s], b>> \in linked /\ <<s, b>> \in Accepts
                          /\ wan[s].ip \in Net[b]
                          /\ pool[b] \ leased[b] # {}
        => Offers(s) # {}

\* Two routers with a rule of one server never share an address and port set
\* (request_rule's comment: the next free slot).
SlotsExclusive ==
    \A b \in Bas, q, r \in Rtx : q # r /\ rules[b][q] # NoSlot => rules[b][q] # rules[b][r]

\* No two routers believe they have the same address.
RoutersApart ==
    \A s, t \in Session : s # t /\ wan[s].conn /\ wan[t].conn => wan[s].ip # wan[t].ip

\* The book of addresses kept by the BASs: who has address a of b.
Holder(b, a) ==
    IF a \notin leased[b] THEN Free
    ELSE IF \E s \in Session : ppSess[s] = [bas |-> b, ip |-> a]
    THEN CHOOSE s \in Session : ppSess[s] = [bas |-> b, ip |-> a]
    ELSE Lost
Book == [b \in Bas |-> [a \in Addr |-> Holder(b, a)]]
Leases == INSTANCE LeaseBook WITH Client <- Session, Server <- Bas, book <- Book

\* The BASs implement the abstract book: an address is granted only when free,
\* and leaves a router only when that router asks again or disconnects.
KeepsTheBook == Leases!BookSpec
=============================================================================
