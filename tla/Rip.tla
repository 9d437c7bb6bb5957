-------------------------------- MODULE Rip --------------------------------
(***************************************************************************)
(* Class RipEngine (engine/protocols.py): distance-vector routing over     *)
(* asyncio coroutines.                                                     *)
(*                                                                         *)
(* A packet is delivered by awaiting the receiver's receive() inside the   *)
(* sender's loop over its neighbours, and a receiver whose table changed   *)
(* sleeps 1-3 s and sends a triggered update of its own before it returns. *)
(* A task is therefore a stack of sending loops, one per device, and       *)
(* cancelling the task that sent the first packet cancels all of them.     *)
(* Between two sleeps a task runs without interruption: "run" is the task  *)
(* that has the event loop.                                                *)
(*                                                                         *)
(* Every pair of neighbours has one cable and shares a segment; there are  *)
(* no redistributed routes, distribute-lists or static RIP neighbours.     *)
(***************************************************************************)
EXTENDS Integers, Sequences

CONSTANTS
    Device,     \* RIP routers
    Net,        \* networks
    Nbrs,       \* device -> set of directly cabled devices
    Own,        \* device -> the networks of its interfaces
    Dist,       \* device -> network -> hops to the nearest router that owns it
    AuthKey,    \* device -> its auth_key, NoKey if none is configured
    NoKey,
    Infinity,   \* the unreachable metric: 16 in the code
    NoTask,     \* no coroutine
    Nobody,     \* no task has the event loop
    MaxEarly,   \* bound: timeouts of routes their source still sends
    MaxStarts,  \* bound: network commands per device
    MaxFailures, \* bound: shutdowns and stop() calls
    MaxCablings, \* bound: cables plugged into or pulled from other devices
    MaxFaults    \* bound: the last three and early timeouts together

\* Cables join two routers; Dist is a distance over them: 0 at a network's owner
\* and one more at most across a cable.
ASSUME RipAssumption ==
    /\ Nbrs \in [Device -> SUBSET Device] /\ \A d \in Device : d \notin Nbrs[d]
    /\ Own \in [Device -> SUBSET Net]
    /\ Infinity \in Nat \ {0}
    /\ {"direct", "nobody"} \cap Device = {}
ASSUME DistAssumption ==
    /\ Dist \in [Device -> [Net -> Nat]]
    /\ \A d \in Device : \A n \in Own[d] : Dist[d][n] = 0
    /\ \A d \in Device, n \in Net : \A p \in Nbrs[d] : Dist[p][n] <= Dist[d][n] + 1

VARIABLES
    enabled,    \* device -> nodes[d]['enabled']
    networks,   \* device -> nodes[d]['networks']
    table,      \* device -> network -> RipRoute, or NoRoute
    task,       \* task identity -> the suspended coroutine, or NoTask
    run,        \* the task that has the event loop, or Nobody
    shut,       \* device -> neighbours behind an interface that is shut down
    starts, failures,     \* bounds: operator commands so far
    early,      \* bound: timeouts of routes that were still being sent
    cablings    \* bound: cables plugged or pulled so far

vars == <<enabled, networks, table, task, run, shut, starts, failures, early, cablings>>

-----------------------------------------------------------------------------
\* One more failure, cable or early timeout is allowed.
Spare == failures + cablings + early < MaxFaults

NoRoute == [metric |-> -1, from |-> "nobody"]
Route == [metric : 0..Infinity, from : Device \cup {"direct"}]
Direct == [metric |-> 0, from |-> "direct"]
Learned(r) == r # NoRoute /\ r.from # "direct"

\* nodes[d]['timer_task'], nodes[d]['expire_tasks'][n], and the operator's
\* command handler on d.
LoopOf(d) == <<"loop", d>>
ExpireOf(d, n) == <<"expire", d, n>>
CliOf(d) == <<"cli", d>>
TaskId == {LoopOf(d) : d \in Device} \cup {CliOf(d) : d \in Device}
            \cup {ExpireOf(d, n) : d \in Device, n \in Net}

\* A loop over the neighbours still to be sent to; broken when the set it
\* iterates over has changed its size under it.
Frame == [dev : Device, msg : {"update", "request", "poison"},
          todo : SUBSET Device, nets : SUBSET Net, broken : BOOLEAN]
Update(d) == [dev |-> d, msg |-> "update", todo |-> Nbrs[d], nets |-> {}, broken |-> FALSE]
Request(d) == [dev |-> d, msg |-> "request", todo |-> Nbrs[d], nets |-> {}, broken |-> FALSE]
Poison(d, N) == [dev |-> d, msg |-> "poison", todo |-> Nbrs[d], nets |-> N,
                 broken |-> FALSE]

\* Where a coroutine continues once its stack is empty.
Pc == {"interval", "timeout", "garbage", "request", "done", "stop"}
Sleeping(pc) == [pc |-> pc, stack |-> <<>>]
Coroutine == [pc : Pc, stack : Seq(Frame)]
Running == [id : TaskId, pc : Pc, cancelled : BOOLEAN, stack : Seq(Frame)]

ASSUME TaskAssumption == NoTask \notin Coroutine /\ Nobody \notin Running

Init ==
    /\ enabled = [d \in Device |-> FALSE]
    /\ networks = [d \in Device |-> {}]
    /\ table = [d \in Device |-> [n \in Net |-> NoRoute]]
    /\ task = [id \in TaskId |-> NoTask]
    /\ run = Nobody
    /\ shut = [d \in Device |-> {}]
    /\ starts = [d \in Device |-> 0]
    /\ failures = 0
    /\ early = 0
    /\ cablings = 0

-----------------------------------------------------------------------------
(* The operator.  A device's command handler takes one command at a time.  *)

\* A network command, which may match several interfaces or only ones whose
\* networks are not in Net: start() with all networks entered so far.
Start(d, N) ==
    /\ run = Nobody
    /\ task[CliOf(d)] = NoTask
    /\ starts[d] < MaxStarts
    /\ starts' = [starts EXCEPT ![d] = @ + 1]
    /\ enabled' = [enabled EXCEPT ![d] = TRUE]
    /\ networks' = [networks EXCEPT ![d] = @ \cup N]
    /\ table' = [table EXCEPT ![d] =
                    [m \in Net |-> IF m \in networks'[d] THEN Direct ELSE NoRoute]]
    /\ task' = [task EXCEPT ![LoopOf(d)] = Sleeping("interval"),
                            ![CliOf(d)] = Sleeping("request")]
    /\ UNCHANGED <<run, shut, failures, early, cablings>>

\* stop(): the poison goes out first; the rest of stop() is in Return.
Stop(d) ==
    /\ run = Nobody
    /\ task[CliOf(d)] = NoTask
    /\ enabled[d]
    /\ failures < MaxFailures /\ Spare
    /\ failures' = failures + 1
    /\ run' = [id |-> CliOf(d), pc |-> "stop", cancelled |-> FALSE,
               stack |-> <<Poison(d, {n \in Net : table[d][n] # NoRoute})>>]
    /\ UNCHANGED <<enabled, networks, table, task, shut, starts, early, cablings>>

\* shutdown of the interface towards p: vnet.interface_down and RipEngine's
\* interface_down, which poisons the routes it drops.
Shutdown(d, p) ==
    /\ run = Nobody
    /\ task[CliOf(d)] = NoTask
    /\ p \notin shut[d]
    /\ failures < MaxFailures /\ Spare
    /\ failures' = failures + 1
    /\ shut' = [shut EXCEPT ![d] = @ \cup {p}]
    /\ LET lost == {n \in Net : table[d][n].from = p}
       IN  IF enabled[d] /\ lost # {}
           THEN /\ table' = [table EXCEPT ![d] =
                                [n \in Net |-> IF n \in lost THEN NoRoute ELSE table[d][n]]]
                /\ run' = [id |-> CliOf(d), pc |-> "done", cancelled |-> FALSE,
                           stack |-> <<Poison(d, lost)>>]
           ELSE UNCHANGED <<table, run>>
    /\ UNCHANGED <<enabled, networks, task, starts, early, cablings>>

NoShutdown(d, p) ==
    /\ run = Nobody
    /\ task[CliOf(d)] = NoTask
    /\ p \in shut[d]
    /\ shut' = [shut EXCEPT ![d] = @ \ {p}]
    /\ UNCHANGED <<enabled, networks, table, task, run, starts, failures, early, cablings>>

\* The REST API plugs a cable between d and a device without RIP, or pulls it.
\* _send_update loops over the live set links[d], broadcast_to_neighbors over
\* a copy; the top of a suspended stack has not begun its loop.
Recabled(stack, d) ==
    [i \in DOMAIN stack |->
        IF i < Len(stack) /\ stack[i].dev = d /\ stack[i].msg = "update"
        THEN [stack[i] EXCEPT !.broken = ~@] ELSE stack[i]]

Cabling(d) ==
    /\ run = Nobody
    /\ cablings < MaxCablings /\ Spare
    /\ cablings' = cablings + 1
    /\ task' = [id \in TaskId |-> IF task[id] = NoTask THEN NoTask
                                  ELSE [task[id] EXCEPT !.stack = Recabled(@, d)]]
    /\ UNCHANGED <<enabled, networks, table, run, shut, starts, failures, early>>

-----------------------------------------------------------------------------
(* Sleeping coroutines wake up.                                            *)

Runs(id, pc, stack) ==
    run' = [id |-> id, pc |-> pc, cancelled |-> FALSE, stack |-> stack]

\* _update_loop.
Tick(d) ==
    /\ run = Nobody
    /\ task[LoopOf(d)] = Sleeping("interval")
    /\ IF enabled[d]
       THEN Runs(LoopOf(d), "interval", <<Update(d)>>) /\ UNCHANGED task
       ELSE task' = [task EXCEPT ![LoopOf(d)] = NoTask] /\ UNCHANGED run
    /\ UNCHANGED <<enabled, networks, table, shut, starts, failures, early, cablings>>

\* The request start() sends after half a second.
SendRequest(d) ==
    /\ run = Nobody
    /\ task[CliOf(d)] = Sleeping("request")
    /\ Runs(CliOf(d), "done", <<Request(d)>>)
    /\ UNCHANGED <<enabled, networks, table, task, shut, starts, failures, early, cablings>>

\* The source of d's route to n keeps sending it, so its timer is reset in time.
Sends(s, p, n) ==
    /\ enabled[s]
    /\ p \in Nbrs[s] \ shut[s]
    /\ \/ n \in networks[s]
       \/ Learned(table[s][n]) /\ table[s][n].from # p /\ table[s][n].metric < Infinity - 1
Refreshed(d, n) ==
    /\ Learned(table[d][n])
    /\ Sends(table[d][n].from, d, n)
    /\ AuthKey[d] \in {NoKey, AuthKey[table[d][n].from]}

\* The timeout of an expire coroutine: the route, whoever it is from now, is
\* set to infinity, and a triggered update follows.
Timeout(d, n) ==
    /\ run = Nobody
    /\ task[ExpireOf(d, n)] = Sleeping("timeout")
    /\ IF Refreshed(d, n) THEN early < MaxEarly /\ Spare /\ early' = early + 1 ELSE UNCHANGED early
    /\ IF table[d][n] # NoRoute /\ table[d][n].metric < Infinity
       THEN /\ table' = [table EXCEPT ![d][n].metric = Infinity]
            /\ IF enabled[d]
               THEN Runs(ExpireOf(d, n), "garbage", <<Update(d)>>) /\ UNCHANGED task
               ELSE task' = [task EXCEPT ![ExpireOf(d, n)] = Sleeping("garbage")] /\ UNCHANGED run
       ELSE task' = [task EXCEPT ![ExpireOf(d, n)] = NoTask] /\ UNCHANGED <<table, run>>
    /\ UNCHANGED <<enabled, networks, shut, starts, failures, cablings>>

\* Mutant of Garbage: the entry stays.
GarbageKept(d, n) ==
    /\ run = Nobody
    /\ task[ExpireOf(d, n)] = Sleeping("garbage")
    /\ task' = [task EXCEPT ![ExpireOf(d, n)] = NoTask]
    /\ UNCHANGED <<enabled, networks, table, run, shut, starts, failures, early, cablings>>

\* Its garbage collection: the entry of the network is deleted.
Garbage(d, n) ==
    /\ run = Nobody
    /\ task[ExpireOf(d, n)] = Sleeping("garbage")
    /\ table' = [table EXCEPT ![d][n] = NoRoute]
    /\ task' = [task EXCEPT ![ExpireOf(d, n)] = NoTask]
    /\ UNCHANGED <<enabled, networks, run, shut, starts, failures, early, cablings>>

\* A receiver's triggered update, after its 1-3 seconds, inside task id.
Top(stack) == stack[Len(stack)]
Below(stack) == SubSeq(stack, 1, Len(stack) - 1)

Trigger(id) ==
    /\ run = Nobody
    /\ task[id] # NoTask
    /\ task[id].stack # <<>>
    /\ LET stack == task[id].stack
           d == Top(stack).dev
       IN  Runs(id, task[id].pc,
                IF enabled[d] THEN Append(Below(stack), Update(d)) ELSE stack)
    /\ UNCHANGED <<enabled, networks, table, task, shut, starts, failures, early, cablings>>

-----------------------------------------------------------------------------
(* The running task sends.                                                 *)

\* Mutant of Advertised: no split horizon.
AdvertisedToAll(d, p, n) ==
    LET r == table[d][n]
    IN  (IF n \in networks[d] THEN <<0>> ELSE <<>>)
          \o (IF Learned(r) /\ r.metric < Infinity THEN <<r.metric>> ELSE <<>>)

\* The metrics _send_update of d lists for n: its own network, and the
\* learned route under split horizon; both if start() left both.
Advertised(d, p, n) ==
    LET r == table[d][n]
    IN  (IF n \in networks[d] THEN <<0>> ELSE <<>>)
          \o (IF Learned(r) /\ r.from # p /\ r.metric < Infinity THEN <<r.metric>> ELSE <<>>)

\* receive(): one entry with metric m from s, where the table has r.
Learn(r, s, m) ==
    IF m + 1 >= Infinity THEN IF r.from = s THEN NoRoute ELSE r
    ELSE IF r = NoRoute \/ r.from = s \/ m + 1 < r.metric THEN [metric |-> m + 1, from |-> s]
    ELSE r

\* The entries for n that s's frame f holds for p, and what they make of r.
Entries(f, p, n) == IF f.msg = "poison" THEN IF n \in f.nets THEN <<Infinity>> ELSE <<>>
                    ELSE Advertised(f.dev, p, n)
After(r, s, e) == IF Len(e) = 0 THEN r
                  ELSE IF Len(e) = 1 THEN Learn(r, s, e[1])
                  ELSE Learn(Learn(r, s, e[1]), s, e[2])
Changes(r, s, e) == \/ After(r, s, e) # r
                    \/ Len(e) = 2 /\ Learn(r, s, e[1]) # r

\* Mutant of Resets: only a route that was not there starts its timer.
ResetsNew(r, s, e) == r = NoRoute /\ Len(e) > 0 /\ After(r, s, e).from = s

\* An accepted entry starts the expire coroutine of its network anew.
Resets(r, s, e) == Len(e) > 0 /\ s \in {Learn(r, s, e[1]).from, After(r, s, e).from}

\* _send_update looks at the sender's interface; broadcast_to_neighbors at both.
Delivers(f, p) ==
    /\ enabled[p]
    /\ p \notin shut[f.dev]
    /\ f.msg # "update" => f.dev \notin shut[p]

Accepts(f, p) ==
    AuthKey[p] = NoKey \/ (f.msg = "update" /\ AuthKey[p] = AuthKey[f.dev])

\* The stack with its top frame having dealt with p.
Sent(stack, p) == [stack EXCEPT ![Len(stack)].todo = @ \ {p}]

\* The running task awaits a sleep: a cancelled one ends there.
Suspend(t, id, pc, stack, cancelled) ==
    IF cancelled THEN t ELSE [t EXCEPT ![id] = [pc |-> pc, stack |-> stack]]

\* A response from the running task's top frame reaches p.
Respond(p) ==
    LET f == Top(run.stack)
        s == f.dev
        new == [n \in Net |-> After(table[p][n], s, Entries(f, p, n))]
        reset == {n \in Net : Resets(table[p][n], s, Entries(f, p, n))}
        fresh == [id \in TaskId |-> IF \E n \in reset : id = ExpireOf(p, n)
                                    THEN Sleeping("timeout") ELSE task[id]]
        cancelled == run.cancelled \/ \E n \in reset : run.id = ExpireOf(p, n)
        stack == Sent(run.stack, p)
    IN  /\ table' = [table EXCEPT ![p] = new]
        /\ IF \E n \in Net : Changes(table[p][n], s, Entries(f, p, n))
           THEN /\ task' = Suspend(fresh, run.id, run.pc,
                                   Append(stack, [Update(p) EXCEPT !.todo = {}]), cancelled)
                /\ run' = Nobody
           ELSE /\ task' = fresh
                /\ run' = [run EXCEPT !.stack = stack, !.cancelled = cancelled]

\* The loop of the top frame comes to p.
Deliver(p) ==
    /\ run # Nobody
    /\ run.stack # <<>>
    /\ ~Top(run.stack).broken
    /\ LET f == Top(run.stack)
       IN  /\ p \in f.todo
           /\ IF ~Delivers(f, p) \/ (f.msg # "request" /\ ~Accepts(f, p))
              THEN run' = [run EXCEPT !.stack = Sent(run.stack, p)] /\ UNCHANGED <<table, task>>
              ELSE IF f.msg = "request"
              THEN /\ run' = [run EXCEPT !.stack = Append(Sent(run.stack, p), Update(p))]
                   /\ UNCHANGED <<table, task>>
              ELSE Respond(p)
    /\ UNCHANGED <<enabled, networks, shut, starts, failures, early, cablings>>

\* The end of stop(): every coroutine of d is cancelled.
Stopped(d) ==
    [id \in TaskId |-> IF id = LoopOf(d) \/ \E n \in Net : id = ExpireOf(d, n)
                       THEN NoTask ELSE task[id]]

\* Mutant of Disabled: stop() forgets it.
DisabledNever(d) == enabled

Disabled(d) == [enabled EXCEPT ![d] = FALSE]

\* A loop has come to its end: its caller goes on.  Below the last frame the
\* coroutine itself continues.
Return ==
    /\ run # Nobody
    /\ run.stack # <<>>
    /\ Top(run.stack).todo = {} /\ ~Top(run.stack).broken
    /\ LET rest == Below(run.stack)
           d == run.id[2]
       IN  IF rest # <<>>
           THEN run' = [run EXCEPT !.stack = rest] /\ UNCHANGED <<enabled, task>>
           ELSE /\ run' = Nobody
                /\ enabled' = IF run.pc = "stop" THEN Disabled(d) ELSE enabled
                /\ task' = CASE run.pc = "stop" -> [Stopped(d) EXCEPT ![run.id] = NoTask]
                             [] run.pc = "done" -> [task EXCEPT ![run.id] = NoTask]
                             [] OTHER -> Suspend(task, run.id, run.pc, <<>>, run.cancelled)
    /\ UNCHANGED <<networks, table, shut, starts, failures, early, cablings>>

\* The next step of a broken loop raises an error, which ends the task.
Crash ==
    /\ run # Nobody
    /\ run.stack # <<>>
    /\ Top(run.stack).broken
    /\ run' = Nobody
    /\ task' = IF run.cancelled THEN task ELSE [task EXCEPT ![run.id] = NoTask]
    /\ UNCHANGED <<enabled, networks, table, shut, starts, failures, early, cablings>>

-----------------------------------------------------------------------------
Operator ==
    \/ \E d \in Device : \E N \in SUBSET Own[d] : Start(d, N)
    \/ \E d \in Device : Stop(d)
    \/ \E d \in Device : \E p \in Nbrs[d] : Shutdown(d, p)
    \/ \E d \in Device : \E p \in Nbrs[d] : NoShutdown(d, p)
    \/ \E d \in Device : Cabling(d)

Next ==
    \/ Operator
    \/ \E d \in Device : Tick(d)
    \/ \E d \in Device : SendRequest(d)
    \/ \E d \in Device, n \in Net : Timeout(d, n)
    \/ \E d \in Device, n \in Net : Garbage(d, n)
    \/ \E id \in TaskId : Trigger(id)
    \/ \E p \in Device : Deliver(p)
    \/ Return
    \/ Crash

Spec == Init /\ [][Next]_vars

\* Every sleep ends and the running task goes on, although other tasks keep
\* taking the event loop in between; the operator owes nothing.  For the
\* expire coroutines and for the operators' handlers it is enough to assume
\* that some one of them wakes up.
WakeLoop(d) == Tick(d) \/ Trigger(LoopOf(d))
WakeCli == \E d \in Device : SendRequest(d) \/ Trigger(CliOf(d))
WakeExpire == \E d \in Device, n \in Net :
                 Timeout(d, n) \/ Garbage(d, n) \/ Trigger(ExpireOf(d, n))

Fairness ==
    /\ \A d \in Device : SF_vars(WakeLoop(d))
    /\ SF_vars(WakeCli) /\ SF_vars(WakeExpire)
    /\ WF_vars(Return \/ Crash \/ \E p \in Device : Deliver(p))

FairSpec == Spec /\ Fairness

-----------------------------------------------------------------------------
(* Properties.                                                             *)

TypeOK ==
    /\ enabled \in [Device -> BOOLEAN]
    /\ networks \in [Device -> SUBSET Net]
    /\ table \in [Device -> [Net -> Route \cup {NoRoute}]]
    /\ task \in [TaskId -> Coroutine \cup {NoTask}]
    /\ run \in Running \cup {Nobody}
    /\ shut \in [Device -> SUBSET Device]
    /\ starts \in [Device -> Nat] /\ failures \in Nat /\ early \in Nat
    /\ cablings \in Nat

\* Bellman-Ford never undercuts the network: whatever the order of updates,
\* poisonings, timeouts and restarts, a route's metric is at least the number
\* of hops to the nearest router that could own the network.
MetricAboveDistance ==
    \A d \in Device, n \in Net :
        table[d][n] # NoRoute => table[d][n].metric >= Dist[d][n] \/ table[d][n].metric = Infinity

\* Split horizon: two neighbours never take each other for the next hop to a
\* network neither of them is configured with.
NoTwoRouterLoop ==
    \A d, p \in Device, n \in Net :
        (table[d][n].from = p /\ table[p][n].from = d) => n \in networks[d] \cup networks[p]

\* A learned route of a running router has an expire coroutine: in its timeout
\* while the route is usable, past it when the route is not.
RoutesHaveTimers ==
    \A d \in Device, n \in Net :
        (enabled[d] /\ Learned(table[d][n])) =>
            LET id == ExpireOf(d, n)
            IN  /\ task[id] # NoTask
                /\ IF table[d][n].metric < Infinity
                   THEN task[id].pc = "timeout" /\ (run # Nobody /\ run.id = id => run.cancelled)
                   ELSE task[id].pc = "garbage" \/ (run # Nobody /\ run.id = id)

\* Whatever cancels, restarts and nested updates do to the expire coroutines, no
\* route is learned for ever and none is garbage-collected while it is usable,
\* as long as nobody plugs or pulls a cable under a loop that is sending.
LearnedRoutesExpire == cablings = 0 => RoutesHaveTimers

\* The update timer's comment: updates are periodic.  Whatever is started,
\* stopped, cancelled and restarted in whatever order, a running router has an
\* update loop that is not about to end.
UpdateLoopsLive ==
    \A d \in Device : enabled[d] =>
        /\ task[LoopOf(d)] # NoTask
        /\ run # Nobody /\ run.id = LoopOf(d) => ~run.cancelled

\* Every running router keeps its loop through all nesting and cancelling, as long
\* as nobody plugs or pulls a cable under a loop that is sending.
UpdatesArePeriodic == cablings = 0 => UpdateLoopsLive

\* start()'s comment: the routes to its own networks have metric 0.
DirectMetricZero ==
    \A d \in Device : \A n \in networks[d] : enabled[d] => table[d][n] = Direct

\* The expire coroutine's comment: the triggered update after a timeout
\* announces the infinite metric.  When it is done, no neighbour it reached
\* uses the route.
TimeoutIsAnnounced ==
    [][\A d \in Device, n \in Net :
          (/\ run # Nobody /\ run.id = ExpireOf(d, n) /\ Len(run.stack) = 1
           /\ Top(run.stack).todo = {} /\ run' = Nobody)
              => \A p \in Nbrs[d] :
                    (enabled[p] /\ p \notin shut[d] /\ d \notin shut[p])
                        => ~(table[p][n].from = d /\ table[p][n].metric < Infinity)]_vars

\* The hops from d to a running router with network n over the neighbours
\* whose updates are heard, if fewer than k.
Heard(d) == {s \in Device : d \in Nbrs[s] \ shut[s] /\ enabled[s]
                               /\ AuthKey[d] \in {NoKey, AuthKey[s]}}
Within[k \in 0..Infinity] ==
    IF k = 0 THEN [d \in Device |-> [n \in Net |-> enabled[d] /\ n \in networks[d]]]
    ELSE [d \in Device |-> [n \in Net |->
            Within[k - 1][d][n] \/ \E s \in Heard(d) : Within[k - 1][s][n]]]

\* Every running router has the shortest route to every network it can reach
\* in fewer than Infinity hops, and no other.
Converged ==
    \A d \in Device, n \in Net : enabled[d] =>
        IF Within[Infinity - 1][d][n]
        THEN /\ table[d][n] # NoRoute
             /\ Within[table[d][n].metric][d][n]
             /\ table[d][n].metric > 0 => ~Within[table[d][n].metric - 1][d][n]
        ELSE table[d][n] = NoRoute

\* Once the operator stops, the tables converge for good, if no cable was plugged
\* or pulled under a sending loop and no router started again has learned one of
\* its own networks: new routes spread, routes of stopped routers and behind shut
\* interfaces count to infinity and are collected.
Converges == <>[](Converged \/ cablings > 0 \/ ~DirectMetricZero)
=============================================================================
