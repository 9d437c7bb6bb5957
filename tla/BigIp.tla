------------------------------- MODULE BigIp --------------------------------
(***************************************************************************)
(* The TCP load balancer of a BIG-IP device (engine/bigip_lb.py): virtual  *)
(* servers and pools configured by tmsh commands in the event loop, one    *)
(* VirtualServerProxy per virtual server with a listening socket, and one  *)
(* thread per accepted connection that checks the pool's members, chooses  *)
(* one and relays.  Threads take the proxy's lock for single accesses      *)
(* only, so each access is a step of its own.                              *)
(*                                                                         *)
(* A proxy keeps references to the DeviceState and the virtual server it   *)
(* was made for.  When either is replaced (reload, removal, deletion), the *)
(* proxy goes on with what the old object last held: see pools and persist *)
(* in Proxy.  Members have the tcp monitor.  Left out: SNAT, node and      *)
(* monitor tables, self IPs, and the bytes relayed.                        *)
(***************************************************************************)
EXTENDS Naturals, FiniteSets, SequencesExt

CONSTANTS
    Virtual,     \* names of virtual servers
    Address,     \* destinations, each an address with a port that can be bound
    Pool,        \* names of pools
    Member,      \* servers, each an address with a port
    Client,      \* source addresses
    Thread,      \* connections handled at a time
    Files,       \* configurations the saved file may hold at the start
    Current,     \* the object a proxy refers to is still the current one
    None,        \* no virtual server, pool, member; no destination that parses
    MaxCommands, \* bound: commands of the operator
    MaxFlips,    \* bound: servers that start or stop listening
    MaxConns     \* bound: connections accepted

VARIABLES
    order,     \* f5_virtuals' keys, oldest first
    virtual,   \* name -> f5_virtuals[name], or None
    pool,      \* name -> f5_pools[name], or None
    saved,     \* the three above as last saved
    proxy,     \* the proxies ever made, oldest first
    proxies,   \* name -> the index of _proxies' entry, or 0
    thread,    \* thread -> what it does (see Handler)
    alive,     \* the servers that listen
    commands,  \* bound: commands so far
    flips,     \* bound: servers started or stopped so far
    conns      \* bound: connections accepted so far

vars == <<order, virtual, pool, saved, proxy, proxies, thread, alive, commands, flips, conns>>

VirtualServer == [addr : Address \cup {None}, pool : Pool \cup {None}, persist : BOOLEAN]
PoolRecord == [members : Seq(Member), disabled : SUBSET Member, least : BOOLEAN]
Pools == [Pool -> PoolRecord \cup {None}]

\* An affinity entry; expired entries stay until they are overwritten.
Affinity == [member : Member, fresh : BOOLEAN]

Proxy == [vs : Virtual, addr : Address, pool : Pool,
          open     : BOOLEAN,                      \* the socket listens
          pools    : Pools \cup {Current},         \* state.f5_pools
          persist  : BOOLEAN \cup {Current},       \* v['persist']
          rr       : Nat,                          \* _rr_index + 1
          active   : [Member -> Nat],              \* _active_conns
          affinity : [Client -> Affinity \cup {None}]]

\* raced is history: since the thread read the affinity, another wrote it.
Handler == [pc : {"idle", "accepted", "check", "keep", "pick", "record", "count",
                  "connect", "relay"},
            on : Nat, client : Client \cup {None}, todo : Seq(Member), up : Seq(Member),
            persist : BOOLEAN, member : Member \cup {None}, raced : BOOLEAN]

Idle == [pc |-> "idle", on |-> 0, client |-> None, todo |-> <<>>, up |-> <<>>,
         persist |-> FALSE, member |-> None, raced |-> FALSE]

NewPool == [members |-> <<>>, disabled |-> {}, least |-> FALSE]

\* A configuration: f5_virtuals lists each of its keys once.
Configuration(f) ==
    /\ f \in [order : Seq(Virtual), virtual : [Virtual -> VirtualServer \cup {None}], pool : Pools]
    /\ \A j, k \in DOMAIN f.order : f.order[j] = f.order[k] => j = k
    /\ \A v \in Virtual : f.virtual[v] # None <=> \E k \in DOMAIN f.order : f.order[k] = v

ASSUME FilesAssumption == \A f \in Files : Configuration(f)
ASSUME ValueAssumption ==
    /\ IsFiniteSet(Thread)
    /\ None \notin VirtualServer \cup PoolRecord \cup Affinity \cup Member \cup Address
    /\ Current \notin BOOLEAN \cup Pools
    /\ MaxCommands \in Nat /\ MaxFlips \in Nat /\ MaxConns \in Nat

-----------------------------------------------------------------------------
(* Starting and stopping proxies.                                          *)

NewProxy(v, vs) ==
    [vs |-> v, addr |-> vs.addr, pool |-> vs.pool, open |-> TRUE,
     pools |-> Current, persist |-> Current, rr |-> 0,
     active |-> [m \in Member |-> 0], affinity |-> [c \in Client |-> None]]

\* stop(): the socket closes, connections go on.
Stopped(px, i) ==
    [j \in DOMAIN px |-> IF j = i THEN [px[j] EXCEPT !.open = FALSE] ELSE px[j]]

\* Mutant of Replaced: the old proxy is forgotten, not stopped.
ReplacedOpen(px, i) == px

Replaced(px, i) == Stopped(px, i)

\* A destination without a port, with a name for one or with port 0 does not
\* parse.
Complete(vs) == vs.addr # None /\ vs.pool # None

\* ensure_virtual_server_proxy for virtual server v with record vs: s holds
\* the proxies and the table.  An incomplete virtual server leaves the proxy
\* it had.  bind() fails on an address that is in use.
Ensured(s, v, vs) ==
    LET i == s.table[v]
        left == Replaced(s.px, i)
        bound == \E j \in DOMAIN left : left[j].open /\ left[j].addr = vs.addr
    IN  IF ~Complete(vs) \/ (i # 0 /\ s.px[i].addr = vs.addr /\ s.px[i].pool = vs.pool)
        THEN s
        ELSE IF bound
        THEN [px |-> left, table |-> [s.table EXCEPT ![v] = 0]]
        ELSE [px |-> Append(left, NewProxy(v, vs)),
              table |-> [s.table EXCEPT ![v] = Len(left) + 1]]

\* Every virtual server in turn, starting from the proxies px in table.
AllEnsured(px, table, names, servers) ==
    LET after[n \in 0 .. Len(names)] ==
            IF n = 0 THEN [px |-> px, table |-> table]
                     ELSE Ensured(after[n - 1], names[n], servers[names[n]])
    IN  after[Len(names)]

EnsureAll(px) ==
    LET s == AllEnsured(px, proxies, order', virtual')
    IN  proxy' = s.px /\ proxies' = s.table

\* The server starts and restores a saved configuration.
Init ==
    /\ saved \in Files
    /\ order = saved.order /\ virtual = saved.virtual /\ pool = saved.pool
    /\ LET s == AllEnsured(<<>>, [v \in Virtual |-> 0], order, virtual)
       IN  proxy = s.px /\ proxies = s.table
    /\ thread = [t \in Thread |-> Idle]
    /\ alive = Member
    /\ commands = 0 /\ flips = 0 /\ conns = 0

\* The proxies whose virtual servers keep, whose state keeps the old object.
Detached(px, vs) ==
    [i \in DOMAIN px |->
        IF px[i].vs \in vs /\ px[i].persist = Current /\ virtual[px[i].vs] # None
        THEN [px[i] EXCEPT !.persist = virtual[px[i].vs].persist] ELSE px[i]]
Orphaned(px) ==
    [i \in DOMAIN px |-> IF px[i].pools = Current THEN [px[i] EXCEPT !.pools = pool] ELSE px[i]]

-----------------------------------------------------------------------------
(* Commands.                                                               *)

Commands == commands < MaxCommands /\ commands' = commands + 1 /\ UNCHANGED <<flips, conns>>

\* create or modify ltm virtual: what the command does not name is kept.  Its
\* destination is then a, the old one or whatever the command says.
SetVirtual(v, a, p, persist) ==
    /\ Commands
    /\ LET old == virtual[v]
           new == [addr |-> a,
                   pool |-> IF p = None /\ old # None THEN old.pool ELSE p,
                   persist |-> persist \/ (old # None /\ old.persist)]
       IN  virtual' = [virtual EXCEPT ![v] = new]
    /\ order' = IF virtual[v] = None THEN Append(order, v) ELSE order
    /\ UNCHANGED <<pool, saved, thread, alive>>
    /\ EnsureAll(proxy)

\* create or modify ltm pool: members added, enabled or disabled, the mode.
SetPool(p, new, handlers) ==
    /\ Commands
    /\ pool' = [pool EXCEPT ![p] = new]
    /\ thread' = handlers
    /\ UNCHANGED <<order, virtual, saved, alive>>
    /\ EnsureAll(proxy)

PoolOf(p) == IF pool[p] = None THEN NewPool ELSE pool[p]

\* A thread that walks the list sees the new member too, unless its list was
\* replaced by a deletion.
AddMember(p, m) ==
    IF m \in ToSet(PoolOf(p).members) THEN SetPool(p, PoolOf(p), thread)
    ELSE \E T \in SUBSET {t \in Thread : /\ thread[t].pc = "check"
                                         /\ proxy[thread[t].on].pools = Current
                                         /\ proxy[thread[t].on].pool = p} :
            SetPool(p, [PoolOf(p) EXCEPT !.members = Append(@, m), !.disabled = @ \ {m}],
                    [t \in Thread |-> IF t \in T THEN [thread[t] EXCEPT !.todo = Append(@, m)]
                                                 ELSE thread[t]])

DeleteMember(p, m) ==
    \E k \in DOMAIN PoolOf(p).members :
        /\ PoolOf(p).members[k] = m
        /\ SetPool(p, [PoolOf(p) EXCEPT !.members = RemoveAt(@, k)], thread)

DisableMember(p, m, down) ==
    /\ m \in ToSet(PoolOf(p).members)
    /\ SetPool(p, [PoolOf(p) EXCEPT !.disabled = IF down THEN @ \cup {m} ELSE @ \ {m}], thread)

SetMode(p, least) == SetPool(p, [PoolOf(p) EXCEPT !.least = least], thread)

\* delete ltm virtual.  The handler that stops the proxy looks for the bare
\* command; "tmsh delete ltm virtual" deletes just as well and is not seen.
\* The bare one also stops a proxy whose virtual server is gone already.
DeleteVirtual(v, bare) ==
    LET px == Detached(proxy, {v})
    IN  /\ Commands
        /\ virtual' = [virtual EXCEPT ![v] = None]
        /\ \/ \E k \in DOMAIN order : order[k] = v /\ order' = RemoveAt(order, k)
           \/ virtual[v] = None /\ bare /\ UNCHANGED order
        /\ proxy' = IF bare THEN Stopped(px, proxies[v]) ELSE px
        /\ proxies' = IF bare THEN [proxies EXCEPT ![v] = 0] ELSE proxies
        /\ UNCHANGED <<pool, saved, thread, alive>>

DeletePool(p) ==
    /\ Commands
    /\ pool[p] # None
    /\ pool' = [pool EXCEPT ![p] = None]
    /\ UNCHANGED <<order, virtual, saved, proxy, proxies, thread, alive>>

Save ==
    /\ Commands
    /\ saved' = [order |-> order, virtual |-> virtual, pool |-> pool]
    /\ UNCHANGED <<order, virtual, pool, proxy, proxies, thread, alive>>

\* _load_config while the server runs: a new DeviceState from the file.
Reload ==
    /\ Commands
    /\ order' = saved.order /\ virtual' = saved.virtual /\ pool' = saved.pool
    /\ UNCHANGED <<saved, thread, alive>>
    /\ EnsureAll(Orphaned(Detached(proxy, Virtual)))

\* DELETE /api/device; the device may come back under its name, unconfigured.
RemoveDevice ==
    /\ Commands
    /\ order' = <<>>
    /\ virtual' = [v \in Virtual |-> None]
    /\ pool' = [p \in Pool |-> None]
    /\ proxy' = Orphaned(Detached(proxy, Virtual))
    /\ UNCHANGED <<saved, proxies, thread, alive>>

-----------------------------------------------------------------------------
(* Connections.                                                            *)

\* What the proxy of thread t takes for its pools and its persistence.
PoolSeen(i) == IF proxy[i].pools = Current THEN pool[proxy[i].pool] ELSE proxy[i].pools[proxy[i].pool]
PersistSeen(i) == IF proxy[i].persist = Current THEN virtual[proxy[i].vs].persist
                                                ELSE proxy[i].persist

Goes(t, h) == thread' = [thread EXCEPT ![t] = h]
At(t, pc) == thread[t].pc = pc
Outside == UNCHANGED <<order, virtual, pool, saved, proxies, alive, commands, flips, conns>>

\* _loop: a client connects and gets a thread.
Accept(t, i, c) ==
    /\ At(t, "idle") /\ proxy[i].open
    /\ conns < MaxConns /\ conns' = conns + 1
    /\ Goes(t, [Idle EXCEPT !.pc = "accepted", !.on = i, !.client = c])
    /\ UNCHANGED <<order, virtual, pool, saved, proxy, proxies, alive, commands, flips>>

\* get_members starts: the list of the members, if there is a pool.
StartChecks(t) ==
    /\ At(t, "accepted")
    /\ LET p == PoolSeen(thread[t].on)
       IN  Goes(t, [thread[t] EXCEPT !.pc = "check", !.todo = IF p = None THEN <<>> ELSE p.members])
    /\ Outside /\ UNCHANGED proxy

\* The next member is probed, unless it is disabled; whether it was disabled
\* when its pool was deleted is left open.
CheckMember(t) ==
    LET h == thread[t]
        p == PoolSeen(h.on)
        m == Head(h.todo)
    IN  /\ At(t, "check") /\ h.todo # <<>>
        /\ \E disabled \in IF p = None THEN BOOLEAN ELSE {m \in p.disabled} :
              Goes(t, [h EXCEPT !.todo = Tail(@),
                                !.up = IF m \in alive /\ ~disabled THEN Append(@, m) ELSE @])
        /\ Outside /\ UNCHANGED proxy

\* Mutant of Hits: the load balancing mode is asked first.
HitsUnlessLeast(i, h) ==
    LET a == proxy[i].affinity[h.client]
    IN  a # None /\ a.fresh /\ a.member \in ToSet(h.up) /\ (PoolSeen(i) # None => ~PoolSeen(i).least)

\* The affinity entry holds and its member is up.
Hits(i, h) ==
    LET a == proxy[i].affinity[h.client]
    IN  a # None /\ a.fresh /\ a.member \in ToSet(h.up)

\* _select_member up to its first access to _affinity.
ReadAffinity(t) ==
    LET h == thread[t]
        i == h.on
    IN  /\ At(t, "check") /\ h.todo = <<>>
        /\ Goes(t, IF h.up = <<>> THEN Idle
                   ELSE IF PersistSeen(i) /\ Hits(i, h)
                   THEN [h EXCEPT !.pc = "keep", !.persist = TRUE,
                                  !.member = proxy[i].affinity[h.client].member]
                   ELSE [h EXCEPT !.pc = "pick", !.persist = PersistSeen(i)])
        /\ Outside /\ UNCHANGED proxy

\* Thread t writes the affinity of its client, behind the back of others.
WriteAffinity(t) ==
    LET h == thread[t]
        Raced(u) == u # t /\ thread[u].on = h.on /\ thread[u].client = h.client
                          /\ thread[u].pc \in {"keep", "pick", "record"}
    IN  /\ proxy' = [proxy EXCEPT ![h.on].affinity[h.client] = [member |-> h.member, fresh |-> TRUE]]
        /\ thread' = [u \in Thread |-> IF u = t THEN [h EXCEPT !.pc = "count"]
                                       ELSE IF Raced(u) THEN [thread[u] EXCEPT !.raced = TRUE]
                                       ELSE thread[u]]
        /\ Outside

KeepAffinity(t) == At(t, "keep") /\ WriteAffinity(t)

\* The first of the members with the fewest connections.
Fewest(i, up) ==
    LET n == proxy[i].active
    IN  up[CHOOSE k \in DOMAIN up : \A j \in DOMAIN up :
                n[up[k]] < n[up[j]] \/ (n[up[k]] = n[up[j]] /\ k <= j)]

Pick(t) ==
    LET h == thread[t]
        i == h.on
        least == PoolSeen(i) # None /\ PoolSeen(i).least
        next == proxy[i].rr % Len(h.up)
    IN  /\ At(t, "pick")
        /\ Goes(t, [h EXCEPT !.pc = IF h.persist THEN "record" ELSE "count",
                             !.member = IF least THEN Fewest(i, h.up) ELSE h.up[next + 1]])
        /\ proxy' = IF least THEN proxy ELSE [proxy EXCEPT ![i].rr = next + 1]
        /\ Outside

RecordAffinity(t) == At(t, "record") /\ WriteAffinity(t)

Counted(i, m, n) == proxy' = [proxy EXCEPT ![i].active[m] = n]

CountConnection(t) ==
    LET h == thread[t]
    IN  /\ At(t, "count")
        /\ Counted(h.on, h.member, proxy[h.on].active[h.member] + 1)
        /\ Goes(t, [h EXCEPT !.pc = "connect"])
        /\ Outside

\* Mutant of Failed: a connection that fails stays counted.
FailedCounted(t) == UNCHANGED proxy

Failed(t) == LET h == thread[t] IN Counted(h.on, h.member, proxy[h.on].active[h.member] - 1)

\* create_connection to the member succeeds, or the client is closed.
Connect(t) ==
    LET h == thread[t]
    IN  /\ At(t, "connect")
        /\ IF h.member \in alive
           THEN Goes(t, [h EXCEPT !.pc = "relay"]) /\ UNCHANGED proxy
           ELSE Failed(t) /\ Goes(t, Idle)
        /\ Outside

\* Either side closes and both pumps end.
Close(t) ==
    LET h == thread[t]
    IN  /\ At(t, "relay")
        /\ Counted(h.on, h.member, proxy[h.on].active[h.member] - 1)
        /\ Goes(t, Idle)
        /\ Outside

\* The persistence timeout passes since the client was last seen.
Expire(i, c) ==
    /\ proxy[i].affinity[c] # None /\ proxy[i].affinity[c].fresh
    /\ proxy' = [proxy EXCEPT ![i].affinity[c].fresh = FALSE]
    /\ UNCHANGED thread /\ Outside

\* A server starts or stops listening.
Toggle(m) ==
    /\ flips < MaxFlips /\ flips' = flips + 1
    /\ alive' = IF m \in alive THEN alive \ {m} ELSE alive \cup {m}
    /\ UNCHANGED <<order, virtual, pool, saved, proxy, proxies, thread, commands, conns>>

-----------------------------------------------------------------------------
Next ==
    \/ \E v \in Virtual, a \in Address \cup {None}, p \in Pool \cup {None}, persist \in BOOLEAN :
          SetVirtual(v, a, p, persist)
    \/ \E p \in Pool, m \in Member, b \in BOOLEAN :
          AddMember(p, m) \/ DeleteMember(p, m) \/ DisableMember(p, m, b) \/ SetMode(p, b)
    \/ \E v \in Virtual, bare \in BOOLEAN : DeleteVirtual(v, bare)
    \/ \E p \in Pool : DeletePool(p)
    \/ Save \/ Reload \/ RemoveDevice
    \/ \E t \in Thread :
          \/ \E i \in DOMAIN proxy, c \in Client : Accept(t, i, c)
          \/ StartChecks(t) \/ CheckMember(t) \/ ReadAffinity(t) \/ KeepAffinity(t) \/ Pick(t)
          \/ RecordAffinity(t) \/ CountConnection(t) \/ Connect(t) \/ Close(t)
    \/ \E i \in DOMAIN proxy, c \in Client : Expire(i, c)
    \/ \E m \in Member : Toggle(m)

Spec == Init /\ [][Next]_vars

-----------------------------------------------------------------------------
(* Properties.                                                             *)

TypeOK ==
    /\ order \in Seq(Virtual)
    /\ virtual \in [Virtual -> VirtualServer \cup {None}]
    /\ pool \in Pools
    /\ saved.virtual \in [Virtual -> VirtualServer \cup {None}] /\ saved.pool \in Pools
    /\ proxy \in Seq(Proxy)
    /\ proxies \in [Virtual -> 0..Len(proxy)]
    /\ thread \in [Thread -> Handler]
    /\ alive \subseteq Member
    /\ commands \in 0..MaxCommands /\ flips \in 0..MaxFlips /\ conns \in 0..MaxConns

\* Every socket that listens is one that _proxies knows, so that something can
\* stop it, no two listen on one address, and a complete virtual server that
\* has a proxy has one for its own destination and pool, whatever was deleted,
\* reloaded, removed and created again in between.  An incomplete one keeps
\* what it had, see DestinationsAreCurrent.
ListenersMatch ==
    /\ \A i \in DOMAIN proxy : proxy[i].open <=> proxies[proxy[i].vs] = i
    /\ \A i, j \in DOMAIN proxy :
          (proxy[i].open /\ proxy[j].open /\ proxy[i].addr = proxy[j].addr) => i = j
    /\ \A v \in Virtual : (virtual[v] # None /\ proxies[v] # 0 /\ Complete(virtual[v]))
          => LET px == proxy[proxies[v]]
             IN  px.addr = virtual[v].addr /\ px.pool = virtual[v].pool

\* The counters least-connections decides by are the connections there are:
\* neither failed connections nor replaced proxies leave anything behind.
ConnsCounted ==
    \A i \in DOMAIN proxy, m \in Member :
        proxy[i].active[m] =
            Cardinality({t \in Thread : /\ thread[t].on = i /\ thread[t].member = m
                                        /\ thread[t].pc \in {"connect", "relay"}})

Writes(t) == thread[t].pc \in {"keep", "record"} /\ thread'[t].pc = "count"

\* A client's affinity that has not expired passes to another member only by a
\* thread that found the old member down, or that raced with another thread of
\* the client.
AffinityHolds ==
    [][\A i \in DOMAIN proxy, c \in Client :
          LET old == proxy[i].affinity[c]
              new == proxy'[i].affinity[c]
          IN  (old # None /\ old.fresh /\ new.member # old.member)
                  => \E t \in Thread : /\ thread[t].on = i /\ Writes(t)
                                       /\ thread[t].raced \/ old.member \notin ToSet(thread[t].up)]_vars

\* The module's docstring (bigip_lb.py:36): connections from one source within
\* the timeout go to the same member while it is healthy.
SessionsStick ==
    [][\A i \in DOMAIN proxy, c \in Client :
          LET old == proxy[i].affinity[c]
              new == proxy'[i].affinity[c]
          IN  (old # None /\ old.fresh /\ new.member # old.member)
                  => \E t \in Thread : thread[t].on = i /\ Writes(t) /\ old.member \notin ToSet(thread[t].up)]_vars

\* The comment at app.py:1924: a virtual server with destination and pool has a
\* listener once the command that completed it is done, if its address is free.
VirtualsAreServed ==
    [][\A v \in Virtual :
          (virtual' # virtual /\ virtual'[v] # None /\ Complete(virtual'[v]) /\ proxies'[v] = 0)
              => \E i \in DOMAIN proxy' : proxy'[i].open /\ proxy'[i].addr = virtual'[v].addr]_vars

\* The docstring of ensure_virtual_server_proxy (bigip_lb.py:261): when the
\* destination has changed, the listener is put up anew; no listener stays on
\* a destination that its virtual server has given up.
DestinationsAreCurrent ==
    \A v \in Virtual : (virtual[v] # None /\ proxies[v] # 0)
        => proxy[proxies[v]].addr = virtual[v].addr

\* The comment at app.py:801: after a restore, listeners follow the restored
\* configuration.
ListenersFollowConfig ==
    \A v \in Virtual : (virtual[v] # None /\ proxies[v] # 0)
        => proxy[proxies[v]].pools = Current /\ proxy[proxies[v]].persist = Current

\* _stop_real_listeners (app.py:7786): a removed device's listeners all stop.
RemovalReleasesPorts ==
    [][RemoveDevice => \A i \in DOMAIN proxy' : ~proxy'[i].open]_vars
=============================================================================
