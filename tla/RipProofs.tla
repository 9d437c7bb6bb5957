------------------------------ MODULE RipProofs ------------------------------
(***************************************************************************)
(* Proofs about Rip, for any routers, cables, networks and bounds.         *)
(***************************************************************************)
EXTENDS Rip, TLAPS

-----------------------------------------------------------------------------
(* The inductive invariant: types, coroutines and frames.                  *)

\* A loop sends to neighbours only, and none is broken before a cable is
\* plugged or pulled.
GoodFrame == {f \in Frame : /\ f.todo \subseteq Nbrs[f.dev]
                            /\ cablings = 0 => ~f.broken}

\* Where a coroutine may go on with its loops, and where it waits without any.
Later(id) == CASE id[1] = "loop" -> {"interval"}
               [] id[1] = "cli" -> {"done", "stop"}
               [] id[1] = "expire" -> {"garbage"}
Waiting(id) == CASE id[1] = "loop" -> "interval"
                 [] id[1] = "cli" -> "request"
                 [] id[1] = "expire" -> "timeout"

GoodTask(id, c) ==
    /\ c \in Coroutine /\ c.stack \in Seq(GoodFrame)
    /\ c.pc \in Later(id) \/ c = Sleeping(Waiting(id))
\* Only expire coroutines are cancelled while they run: by the routes that
\* they make others learn.
GoodRun(r) ==
    /\ r \in Running /\ r.stack \in Seq(GoodFrame)
    /\ r.pc \in Later(r.id)
    /\ r.cancelled => r.id[1] = "expire"

TasksGood ==
    /\ \A id \in TaskId : task[id] # NoTask => GoodTask(id, task[id])
    /\ run # Nobody => GoodRun(run)

TInv == TypeOK /\ TasksGood

\* Identities of different coroutines differ.
LEMMA Ids ==
  /\ \A d \in Device : /\ LoopOf(d) \in TaskId /\ LoopOf(d)[1] = "loop"
                       /\ CliOf(d) \in TaskId /\ CliOf(d)[1] = "cli" /\ CliOf(d)[2] = d
  /\ \A d \in Device, n \in Net : ExpireOf(d, n) \in TaskId /\ ExpireOf(d, n)[1] = "expire"
  /\ \A d, e \in Device : LoopOf(d) = LoopOf(e) => d = e
  /\ \A d, e \in Device, m, n \in Net : ExpireOf(d, m) = ExpireOf(e, n) => d = e /\ m = n
  /\ \A id \in TaskId :
        \/ id[1] = "loop" /\ \E d \in Device : id = LoopOf(d)
        \/ id[1] = "cli" /\ \E d \in Device : id = CliOf(d)
        \/ id[1] = "expire" /\ \E d \in Device, n \in Net : id = ExpireOf(d, n)
  BY DEF TaskId, LoopOf, CliOf, ExpireOf

\* Where their coroutines go on and wait.
LEMMA Pcs ==
  /\ \A d \in Device : /\ Later(LoopOf(d)) = {"interval"} /\ Waiting(LoopOf(d)) = "interval"
                       /\ Later(CliOf(d)) = {"done", "stop"} /\ Waiting(CliOf(d)) = "request"
  /\ \A d \in Device, n \in Net : /\ Later(ExpireOf(d, n)) = {"garbage"}
                                  /\ Waiting(ExpireOf(d, n)) = "timeout"
  BY Ids DEF Later, Waiting

\* Stacks of frames of a set.
LEMMA Stacks ==
  ASSUME NEW S, NEW s \in Seq(S)
  PROVE  /\ \A f \in S : Append(s, f) \in Seq(S)
         /\ s # <<>> => /\ Len(s) \in Nat \ {0} /\ Top(s) \in S /\ Below(s) \in Seq(S)
                        /\ \A f \in S : [s EXCEPT ![Len(s)] = f] \in Seq(S)
<1>1. \A f \in S : Append(s, f) \in Seq(S)
  OBVIOUS
<1>2. ASSUME s # <<>>
      PROVE  /\ Len(s) \in Nat \ {0} /\ Top(s) \in S /\ Below(s) \in Seq(S)
             /\ \A f \in S : [s EXCEPT ![Len(s)] = f] \in Seq(S)
  <2>1. Len(s) \in Nat \ {0} /\ Top(s) \in S
    BY <1>2 DEF Top
  <2>2. Below(s) \in Seq(S)
    BY <2>1 DEF Below
  <2>3. \A f \in S : [s EXCEPT ![Len(s)] = f] \in Seq(S)
    BY <2>1
  <2>4. QED
    BY <2>1, <2>2, <2>3
<1>3. QED
  BY <1>1, <1>2

\* The loops that coroutines start are good.
LEMMA NewFrames ==
  ASSUME NEW d \in Device
  PROVE  /\ Update(d) \in GoodFrame /\ Request(d) \in GoodFrame
         /\ [Update(d) EXCEPT !.todo = {}] \in GoodFrame
         /\ \A N \in SUBSET Net : Poison(d, N) \in GoodFrame
         /\ <<Update(d)>> \in Seq(GoodFrame) /\ <<Request(d)>> \in Seq(GoodFrame)
<1>1. /\ Update(d) \in GoodFrame /\ Request(d) \in GoodFrame
      /\ [Update(d) EXCEPT !.todo = {}] \in GoodFrame
      /\ \A N \in SUBSET Net : Poison(d, N) \in GoodFrame
  BY RipAssumption DEF GoodFrame, Frame, Update, Request, Poison
<1>2. \A f \in GoodFrame : <<f>> \in Seq(GoodFrame)
  OBVIOUS
<1>3. QED
  BY <1>1, <1>2

\* What sleeps is not no coroutine, and waits where its kind waits.
LEMMA Sleepers ==
  /\ \A pc \in Pc : Sleeping(pc) \in Coroutine /\ Sleeping(pc) # NoTask
  /\ \A id \in TaskId : Later(id) \subseteq Pc /\ Waiting(id) \in Pc
  /\ \A id \in TaskId, pc \in Pc : pc \in Later(id) \cup {Waiting(id)} => GoodTask(id, Sleeping(pc))
<1>1. <<>> \in Seq(Frame) /\ <<>> \in Seq(GoodFrame)
  OBVIOUS
<1>2. \A pc \in Pc : Sleeping(pc) \in Coroutine
  BY <1>1 DEF Sleeping, Coroutine
<1>3. \A pc \in Pc : Sleeping(pc) # NoTask
  BY <1>2, TaskAssumption
<1>4. \A id \in TaskId : Later(id) \subseteq Pc /\ Waiting(id) \in Pc
  BY Ids DEF Later, Waiting, Pc
<1>5. \A id \in TaskId, pc \in Pc : pc \in Later(id) \cup {Waiting(id)} => GoodTask(id, Sleeping(pc))
  BY <1>1, <1>2 DEF GoodTask, Sleeping
<1>6. QED
  BY <1>2, <1>3, <1>4, <1>5

-----------------------------------------------------------------------------
(* Every action keeps types, coroutines and frames good.                   *)

\* A step that makes good tasks of the tasks it changes, and a good running one.
LEMMA TasksStep ==
  ASSUME TInv, cablings' = cablings,
         task' = [id \in TaskId |-> task'[id]],
         \A id \in TaskId : task'[id] = task[id] \/ task'[id] = NoTask \/ GoodTask(id, task'[id]),
         run' = run \/ run' = Nobody \/ GoodRun(run')
  PROVE  /\ TasksGood'
         /\ task' \in [TaskId -> Coroutine \cup {NoTask}]
         /\ run' \in Running \cup {Nobody}
<1>1. GoodFrame' = GoodFrame
  BY DEF GoodFrame
<1>2. TasksGood'
  BY <1>1 DEF TInv, TasksGood, GoodTask, GoodRun
<1>3. \A id \in TaskId : task'[id] \in Coroutine \cup {NoTask}
  BY DEF TInv, TypeOK, GoodTask
<1>4. run' \in Running \cup {Nobody}
  BY DEF TInv, TypeOK, GoodRun
<1>5. QED
  BY <1>2, <1>3, <1>4

\* Giving the event loop to a task.
LEMMA RunsGood ==
  ASSUME NEW id \in TaskId, NEW pc \in Later(id), NEW stack \in Seq(GoodFrame), Runs(id, pc, stack)
  PROVE  GoodRun(run')
<1>1. stack \in Seq(Frame)
  BY DEF GoodFrame
<1>2. pc \in Pc
  BY Sleepers
<1>3. QED
  BY <1>1, <1>2 DEF Runs, GoodRun, Running

\* start() gives a router its loop and its table anew.
LEMMA StartTInv == ASSUME TInv, NEW d \in Device, NEW N \in SUBSET Own[d], Start(d, N) PROVE TInv'
<1> USE DEF Start
<1>1. Own[d] \subseteq Net
  BY RipAssumption
<1>2. networks' \in [Device -> SUBSET Net]
  BY <1>1 DEF TInv, TypeOK
<1>3. Direct \in Route /\ NoRoute \notin Route
  BY RipAssumption DEF Direct, Route, NoRoute
<1>4. table' \in [Device -> [Net -> Route \cup {NoRoute}]]
  BY <1>3 DEF TInv, TypeOK
<1>5. task \in [TaskId -> Coroutine \cup {NoTask}] /\ LoopOf(d) \in TaskId /\ CliOf(d) \in TaskId
  BY Ids DEF TInv, TypeOK
<1>6. /\ task' = [id \in TaskId |-> task'[id]]
      /\ \A id \in TaskId : \/ task'[id] = task[id]
                            \/ id = LoopOf(d) /\ task'[id] = Sleeping("interval")
                            \/ id = CliOf(d) /\ task'[id] = Sleeping("request")
  BY <1>5
<1>7. GoodTask(LoopOf(d), Sleeping("interval")) /\ GoodTask(CliOf(d), Sleeping("request"))
  <2>1. "interval" \in Later(LoopOf(d)) /\ "request" = Waiting(CliOf(d))
    BY Ids DEF Later, Waiting
  <2>2. QED
    BY <2>1, Ids, Sleepers
<1>8. TasksGood' /\ task' \in [TaskId -> Coroutine \cup {NoTask}] /\ run' \in Running \cup {Nobody}
  BY <1>6, <1>7, TasksStep
<1>9. starts' \in [Device -> Nat]
  BY DEF TInv, TypeOK
<1>10. QED
  BY <1>2, <1>4, <1>8, <1>9 DEF TInv, TypeOK

\* stop() begins with a loop of its own.
LEMMA StopTInv == ASSUME TInv, NEW d \in Device, Stop(d) PROVE TInv'
<1> USE DEF Stop
<1> DEFINE f == Poison(d, {n \in Net : table[d][n] # NoRoute})
<1>1. f \in GoodFrame
  BY NewFrames
<1>2. <<f>> \in Seq(GoodFrame)
  BY <1>1
<1>3. "stop" \in Later(CliOf(d))
  BY Ids DEF Later
<1>4. GoodRun(run')
  BY <1>2, <1>3, Ids, RunsGood DEF Runs
<1>5. TasksGood' /\ task' \in [TaskId -> Coroutine \cup {NoTask}] /\ run' \in Running \cup {Nobody}
  BY <1>4, TasksStep DEF TInv, TypeOK
<1>6. QED
  BY <1>5 DEF TInv, TypeOK

\* An interface that goes down takes routes with it and poisons them.
LEMMA ShutdownTInv ==
  ASSUME TInv, NEW d \in Device, NEW p \in Nbrs[d], Shutdown(d, p) PROVE TInv'
<1> USE DEF Shutdown
<1> DEFINE lost == {n \in Net : table[d][n].from = p}
<1>1. p \in Device
  BY RipAssumption
<1>2. shut' \in [Device -> SUBSET Device] /\ failures' \in Nat
  BY <1>1 DEF TInv, TypeOK
<1>3. table' \in [Device -> [Net -> Route \cup {NoRoute}]]
  BY DEF TInv, TypeOK
<1>4. Poison(d, lost) \in GoodFrame
  BY NewFrames
<1>5. <<Poison(d, lost)>> \in Seq(GoodFrame)
  BY <1>4
<1>6. "done" \in Later(CliOf(d))
  BY Ids DEF Later
<1> DEFINE r == [id |-> CliOf(d), pc |-> "done", cancelled |-> FALSE, stack |-> <<Poison(d, lost)>>]
<1>7. ASSUME run' = r PROVE GoodRun(run')
  BY <1>7, <1>5, <1>6, Ids, RunsGood DEF Runs
<1>8. run' = run \/ GoodRun(run')
  BY <1>7
<1>9. TasksGood' /\ task' \in [TaskId -> Coroutine \cup {NoTask}] /\ run' \in Running \cup {Nobody}
  BY <1>8, TasksStep DEF TInv, TypeOK
<1>10. QED
  BY <1>2, <1>3, <1>9 DEF TInv, TypeOK

\* An interface that comes back changes no task.
LEMMA NoShutdownTInv ==
  ASSUME TInv, NEW d \in Device, NEW p \in Nbrs[d], NoShutdown(d, p) PROVE TInv'
<1> USE DEF NoShutdown
<1>1. shut' \in [Device -> SUBSET Device]
  BY DEF TInv, TypeOK
<1>2. TasksGood' /\ task' \in [TaskId -> Coroutine \cup {NoTask}] /\ run' \in Running \cup {Nobody}
  BY TasksStep DEF TInv, TypeOK
<1>3. QED
  BY <1>1, <1>2 DEF TInv, TypeOK

\* Plugging a cable marks frames and leaves no promise about broken ones.
LEMMA CablingTInv == ASSUME TInv, NEW d \in Device, Cabling(d) PROVE TInv'
<1> USE DEF Cabling
<1>1. cablings' \in Nat /\ cablings' # 0
  BY DEF TInv, TypeOK
<1>2. ASSUME NEW stack \in Seq(GoodFrame)
      PROVE  /\ Recabled(stack, d) \in Seq(Frame) /\ Recabled(stack, d) \in Seq(GoodFrame')
             /\ stack = <<>> => Recabled(stack, d) = <<>>
  <2>1. ASSUME NEW i \in 1..Len(stack)
        PROVE  Recabled(stack, d)[i] \in Frame /\ Recabled(stack, d)[i] \in GoodFrame'
    <3>1. stack[i] \in GoodFrame
      OBVIOUS
    <3>2. [stack[i] EXCEPT !.broken = ~@] \in Frame
      BY <3>1 DEF GoodFrame, Frame
    <3>3. /\ [stack[i] EXCEPT !.broken = ~@].todo = stack[i].todo
          /\ [stack[i] EXCEPT !.broken = ~@].dev = stack[i].dev
      BY <3>1 DEF GoodFrame, Frame
    <3>4. Recabled(stack, d)[i] \in {stack[i], [stack[i] EXCEPT !.broken = ~@]}
      BY DEF Recabled
    <3>5. stack[i] \in GoodFrame' /\ [stack[i] EXCEPT !.broken = ~@] \in GoodFrame'
      BY <1>1, <3>1, <3>2, <3>3 DEF GoodFrame
    <3>6. QED
      BY <3>1, <3>2, <3>4, <3>5 DEF GoodFrame
  <2>2. DOMAIN Recabled(stack, d) = 1..Len(stack)
    BY DEF Recabled
  <2>3. /\ Recabled(stack, d) = [i \in 1..Len(stack) |-> Recabled(stack, d)[i]]
        /\ Len(stack) \in Nat
    BY DEF Recabled
  <2>4. QED
    BY <2>1, <2>2, <2>3
<1>3. ASSUME NEW id \in TaskId, task[id] # NoTask
      PROVE  task'[id] \in Coroutine /\ GoodTask(id, task[id])'
  <2>1. GoodTask(id, task[id])
    BY <1>3 DEF TInv, TasksGood
  <2>2. task'[id] = [task[id] EXCEPT !.stack = Recabled(task[id].stack, d)]
    BY <1>3
  <2>3. /\ task'[id] \in Coroutine
        /\ task'[id].pc = task[id].pc /\ task'[id].stack = Recabled(task[id].stack, d)
    BY <1>2, <2>1, <2>2 DEF GoodTask, Coroutine
  <2>4. ASSUME task[id] = Sleeping(Waiting(id)) PROVE task'[id] = Sleeping(Waiting(id))
    <3>1. task[id].stack = <<>> /\ Recabled(<<>>, d) = <<>>
      BY <2>4 DEF Sleeping, Recabled
    <3>2. QED
      BY <2>2, <2>4, <3>1 DEF Sleeping
  <2>5. QED
    BY <1>2, <2>1, <2>3, <2>4 DEF GoodTask
<1>4. TasksGood' /\ task' \in [TaskId -> Coroutine \cup {NoTask}]
  BY <1>3 DEF TInv, TasksGood
<1>5. QED
  BY <1>1, <1>4 DEF TInv, TypeOK

\* An update loop sends, or ends.
LEMMA TickTInv == ASSUME TInv, NEW d \in Device, Tick(d) PROVE TInv'
<1> USE DEF Tick
<1>1. <<Update(d)>> \in Seq(GoodFrame) /\ "interval" \in Later(LoopOf(d)) /\ LoopOf(d) \in TaskId
  <2>1. <<Update(d)>> \in Seq(GoodFrame)
    BY NewFrames
  <2>2. "interval" \in Later(LoopOf(d)) /\ LoopOf(d) \in TaskId
    BY Ids, Pcs
  <2>3. QED
    BY <2>1, <2>2
<1>2. run' = run \/ GoodRun(run')
  BY <1>1, RunsGood
<1>3. /\ task' = [id \in TaskId |-> task'[id]]
      /\ \A id \in TaskId : task'[id] \in {task[id], NoTask}
  BY DEF TInv, TypeOK
<1>4. TasksGood' /\ task' \in [TaskId -> Coroutine \cup {NoTask}] /\ run' \in Running \cup {Nobody}
  BY <1>2, <1>3, TasksStep
<1>5. QED
  BY <1>4 DEF TInv, TypeOK

\* The request goes out in the command handler's task.
LEMMA SendRequestTInv == ASSUME TInv, NEW d \in Device, SendRequest(d) PROVE TInv'
<1> USE DEF SendRequest
<1>1. <<Request(d)>> \in Seq(GoodFrame) /\ "done" \in Later(CliOf(d)) /\ CliOf(d) \in TaskId
  <2>1. <<Request(d)>> \in Seq(GoodFrame)
    BY NewFrames
  <2>2. "done" \in Later(CliOf(d)) /\ CliOf(d) \in TaskId
    BY Ids, Pcs
  <2>3. QED
    BY <2>1, <2>2
<1>2. GoodRun(run')
  BY <1>1, RunsGood
<1>3. TasksGood' /\ task' \in [TaskId -> Coroutine \cup {NoTask}] /\ run' \in Running \cup {Nobody}
  BY <1>2, TasksStep DEF TInv, TypeOK
<1>4. QED
  BY <1>3 DEF TInv, TypeOK

\* A timeout leaves a route of the same source, at infinity.
LEMMA TimeoutTInv ==
  ASSUME TInv, NEW d \in Device, NEW n \in Net, Timeout(d, n) PROVE TInv'
<1> USE DEF Timeout
<1>1. /\ <<Update(d)>> \in Seq(GoodFrame)
      /\ "garbage" \in Later(ExpireOf(d, n)) /\ ExpireOf(d, n) \in TaskId
  <2>1. <<Update(d)>> \in Seq(GoodFrame)
    BY NewFrames
  <2>2. "garbage" \in Later(ExpireOf(d, n)) /\ ExpireOf(d, n) \in TaskId
    BY Ids, Pcs
  <2>3. QED
    BY <2>1, <2>2
<1>2. run' = run \/ GoodRun(run')
  BY <1>1, RunsGood
<1>3. GoodTask(ExpireOf(d, n), Sleeping("garbage"))
  BY <1>1, Sleepers
<1>4. /\ task' = [id \in TaskId |-> task'[id]]
      /\ \A id \in TaskId : task'[id] \in {task[id], NoTask} \/ GoodTask(id, task'[id])
  <2>1. task \in [TaskId -> Coroutine \cup {NoTask}]
    BY DEF TInv, TypeOK
  <2>2. \/ UNCHANGED task
        \/ task' = [task EXCEPT ![ExpireOf(d, n)] = Sleeping("garbage")]
        \/ task' = [task EXCEPT ![ExpireOf(d, n)] = NoTask]
    OBVIOUS
  <2> HIDE DEF Timeout
  <2>3. QED
    BY <2>1, <2>2, <1>1, <1>3
<1>5. TasksGood' /\ task' \in [TaskId -> Coroutine \cup {NoTask}] /\ run' \in Running \cup {Nobody}
  BY <1>2, <1>4, TasksStep
<1>6. table' \in [Device -> [Net -> Route \cup {NoRoute}]]
  <2>1. table \in [Device -> [Net -> Route \cup {NoRoute}]]
    BY DEF TInv, TypeOK
  <2>2. ASSUME table[d][n] # NoRoute PROVE [table[d][n] EXCEPT !.metric = Infinity] \in Route
    BY <2>1, <2>2, RipAssumption DEF Route
  <2>3. \/ UNCHANGED table
        \/ table[d][n] # NoRoute /\ table' = [table EXCEPT ![d][n].metric = Infinity]
    OBVIOUS
  <2> HIDE DEF Timeout
  <2>4. QED
    BY <2>1, <2>2, <2>3
<1>7. early' \in Nat
  BY DEF TInv, TypeOK
<1>8. QED
  BY <1>5, <1>6, <1>7 DEF TInv, TypeOK

\* Garbage collection ends the coroutine and the route.
LEMMA GarbageTInv ==
  ASSUME TInv, NEW d \in Device, NEW n \in Net, Garbage(d, n) PROVE TInv'
<1> USE DEF Garbage
<1>1. /\ task' = [id \in TaskId |-> task'[id]]
      /\ \A id \in TaskId : task'[id] \in {task[id], NoTask}
  BY DEF TInv, TypeOK
<1>2. TasksGood' /\ task' \in [TaskId -> Coroutine \cup {NoTask}] /\ run' \in Running \cup {Nobody}
  BY <1>1, TasksStep
<1>3. table' \in [Device -> [Net -> Route \cup {NoRoute}]]
  BY DEF TInv, TypeOK
<1>4. QED
  BY <1>2, <1>3 DEF TInv, TypeOK

\* A receiver's triggered update goes on with what its task was doing.
LEMMA TriggerRuns ==
  ASSUME TInv, NEW id \in TaskId, Trigger(id)
  PROVE  task[id].pc \in Later(id) /\ \E stack \in Seq(GoodFrame) : Runs(id, task[id].pc, stack)
<1> USE DEF Trigger
<1> DEFINE stack == task[id].stack
           new == IF enabled[Top(stack).dev]
                  THEN Append(Below(stack), Update(Top(stack).dev)) ELSE stack
<1>1. stack \in Seq(GoodFrame) /\ stack # <<>> /\ task[id].pc \in Later(id)
  <2>1. GoodTask(id, task[id])
    BY DEF TInv, TasksGood
  <2>2. task[id] # Sleeping(Waiting(id))
    BY DEF Sleeping
  <2>3. QED
    BY <2>1, <2>2 DEF GoodTask
<1>2. Top(stack) \in GoodFrame /\ Below(stack) \in Seq(GoodFrame)
  BY <1>1, Stacks
<1>3. Update(Top(stack).dev) \in GoodFrame
  BY <1>2, NewFrames DEF GoodFrame, Frame
<1>4. new \in Seq(GoodFrame)
  BY <1>1, <1>2, <1>3, Stacks
<1>5. Runs(id, task[id].pc, new)
  OBVIOUS
<1>6. QED
  BY <1>1, <1>4, <1>5

\* A triggered update replaces the frame of its receiver.
LEMMA TriggerTInv == ASSUME TInv, NEW id \in TaskId, Trigger(id) PROVE TInv'
<1> USE DEF Trigger
<1>1. GoodRun(run')
  BY TriggerRuns, RunsGood
<1>2. TasksGood' /\ task' \in [TaskId -> Coroutine \cup {NoTask}] /\ run' \in Running \cup {Nobody}
  BY <1>1, TasksStep DEF TInv, TypeOK
<1>3. QED
  BY <1>2 DEF TInv, TypeOK

-----------------------------------------------------------------------------
(* What receive() makes of a response.                                     *)

\* The metrics a router may hear for a network: unreachable, or what the sender's
\* table justifies under split horizon.
Justified(s, p, n, m) ==
    \/ m = Infinity
    \/ m = 0 /\ n \in networks[s]
    \/ Learned(table[s][n]) /\ table[s][n].from # p /\ m = table[s][n].metric

\* One entry: the route stays, goes, or becomes the sender's.
LEMMA LearnCases ==
  ASSUME NEW r \in Route \cup {NoRoute}, NEW s \in Device, NEW m \in 0..Infinity
  PROVE  \/ Learn(r, s, m) = r /\ r.from # s
         \/ Learn(r, s, m) = NoRoute /\ r.from = s
         \/ m + 1 < Infinity /\ Learn(r, s, m) = [metric |-> m + 1, from |-> s]
  BY RipAssumption DEF Learn, Route, NoRoute

\* One entry makes a route or none.
LEMMA LearnType ==
  ASSUME NEW r \in Route \cup {NoRoute}, NEW s \in Device, NEW m \in 0..Infinity
  PROVE  Learn(r, s, m) \in Route \cup {NoRoute}
<1>1. m + 1 < Infinity => [metric |-> m + 1, from |-> s] \in Route
  BY RipAssumption DEF Route
<1>2. QED
  BY <1>1, LearnCases

\* A response holds at most two entries for a network.
LEMMA EntriesCases ==
  ASSUME TypeOK, NEW f \in Frame, NEW p \in Device, NEW n \in Net
  PROVE  LET e == Entries(f, p, n)
         IN  /\ Len(e) \in 0..2
             /\ \A i \in 1..Len(e) : e[i] \in 0..Infinity /\ Justified(f.dev, p, n, e[i])
<1> DEFINE r == table[f.dev][n]
           usable == Learned(r) /\ r.from # p /\ r.metric < Infinity
           own == IF n \in networks[f.dev] THEN <<0>> ELSE <<>>
           heard == IF usable THEN <<r.metric>> ELSE <<>>
           Good(e) == /\ Len(e) \in 0..2
                      /\ \A i \in 1..Len(e) : e[i] \in 0..Infinity /\ Justified(f.dev, p, n, e[i])
<1>1. f.dev \in Device /\ Infinity \in 0..Infinity /\ 0 \in 0..Infinity
  BY RipAssumption DEF Frame
<1>2. usable => r.metric \in 0..Infinity /\ Justified(f.dev, p, n, r.metric)
  BY <1>1 DEF TypeOK, Route, Learned, Justified
<1>3. n \in networks[f.dev] => Justified(f.dev, p, n, 0)
  BY DEF Justified
<1>4. Justified(f.dev, p, n, Infinity)
  BY DEF Justified
<1> HIDE DEF r, usable
<1>5. ASSUME f.msg = "poison" PROVE Good(Entries(f, p, n))
  <2>1. Entries(f, p, n) \in {<<Infinity>>, <<>>}
    BY <1>5 DEF Entries
  <2>2. Good(<<Infinity>>) /\ Good(<<>>)
    BY <1>1, <1>4
  <2>3. QED
    BY <2>1, <2>2
<1>6. ASSUME f.msg # "poison" PROVE Good(Entries(f, p, n))
  <2>1. Entries(f, p, n) = own \o heard
    BY <1>6 DEF Entries, Advertised, r, usable
  <2>2. CASE n \in networks[f.dev] /\ usable
    <3>1. own = <<0>> /\ heard = <<r.metric>>
      BY <2>2
    <3>2. Good(<<0>> \o <<r.metric>>)
      BY <1>1, <1>2, <1>3, <2>2
    <3>3. QED
      BY <2>1, <3>1, <3>2
  <2>3. CASE n \in networks[f.dev] /\ ~usable
    <3>1. own = <<0>> /\ heard = <<>>
      BY <2>3
    <3>2. Good(<<0>> \o <<>>)
      BY <1>1, <1>3, <2>3
    <3>3. QED
      BY <2>1, <3>1, <3>2
  <2>4. CASE n \notin networks[f.dev] /\ usable
    <3>1. own = <<>> /\ heard = <<r.metric>>
      BY <2>4
    <3>2. Good(<<>> \o <<r.metric>>)
      BY <1>2, <2>4
    <3>3. QED
      BY <2>1, <3>1, <3>2
  <2>5. CASE n \notin networks[f.dev] /\ ~usable
    <3>1. own = <<>> /\ heard = <<>>
      BY <2>5
    <3>2. Good(<<>> \o <<>>)
      OBVIOUS
    <3>3. QED
      BY <2>1, <3>1, <3>2
  <2>6. QED
    BY <2>2, <2>3, <2>4, <2>5
<1>7. QED
  BY <1>5, <1>6

\* The route after the response: none, the one before, or the sender's.
LEMMA AfterCases ==
  ASSUME TypeOK, NEW f \in Frame, NEW p \in Device, NEW n \in Net
  PROVE  LET r == table[p][n]
             e == Entries(f, p, n)
             v == After(r, f.dev, e)
         IN  /\ v \in Route \cup {NoRoute}
             /\ \/ v = NoRoute
                \/ v = r /\ ~Resets(r, f.dev, e)
                \/ /\ Resets(r, f.dev, e)
                   /\ \E m \in 0..Infinity : /\ m + 1 < Infinity /\ Justified(f.dev, p, n, m)
                                            /\ v = [metric |-> m + 1, from |-> f.dev]
<1> DEFINE r == table[p][n]
           s == f.dev
           e == Entries(f, p, n)
           Good(v) == /\ v \in Route \cup {NoRoute}
                      /\ \/ v = NoRoute
                         \/ v = r /\ ~Resets(r, s, e)
                         \/ /\ Resets(r, s, e)
                            /\ \E m \in 0..Infinity : /\ m + 1 < Infinity /\ Justified(s, p, n, m)
                                                     /\ v = [metric |-> m + 1, from |-> s]
<1>1. r \in Route \cup {NoRoute} /\ s \in Device /\ NoRoute.from # s
  BY RipAssumption DEF TypeOK, Frame, NoRoute
<1> HIDE DEF r, s
<1>2. ASSUME Len(e) = 0 PROVE Good(After(r, s, e))
  <2>1. After(r, s, e) = r /\ ~Resets(r, s, e)
    BY <1>2 DEF After, Resets
  <2> HIDE DEF e
  <2>2. QED
    BY <1>1, <2>1
<1>3. ASSUME NEW m \in 0..Infinity, Len(e) = 1, e[1] = m, Justified(s, p, n, m)
      PROVE  Good(After(r, s, e))
  <2>1. After(r, s, e) = Learn(r, s, m) /\ (Resets(r, s, e) <=> Learn(r, s, m).from = s)
    BY <1>3 DEF After, Resets
  <2> HIDE DEF e
  <2>2. QED
    BY <1>1, <1>3, <2>1, LearnCases, LearnType
<1>4. ASSUME NEW m \in 0..Infinity, NEW k \in 0..Infinity, Len(e) = 2, e[1] = m, e[2] = k,
             Justified(s, p, n, m), Justified(s, p, n, k)
      PROVE  Good(After(r, s, e))
  <2> DEFINE one == Learn(r, s, m)
             two == Learn(one, s, k)
  <2>1. After(r, s, e) = two /\ (Resets(r, s, e) <=> one.from = s \/ two.from = s)
    BY <1>4 DEF After, Resets
  <2>2. one \in Route \cup {NoRoute}
    BY <1>1, LearnType
  <2>3. \/ one = r /\ r.from # s
        \/ one = NoRoute
        \/ one = [metric |-> m + 1, from |-> s]
    BY <1>1, LearnCases
  <2> HIDE DEF e, one
  <2>4. two \in Route \cup {NoRoute}
    BY <1>1, <2>2, LearnType
  <2>5. \/ two = one /\ one.from # s
        \/ two = NoRoute
        \/ k + 1 < Infinity /\ two = [metric |-> k + 1, from |-> s]
    BY <1>1, <2>2, LearnCases
  <2> HIDE DEF two
  <2>6. CASE two = one /\ one.from # s
    BY <1>1, <2>1, <2>3, <2>4, <2>6
  <2>7. CASE k + 1 < Infinity /\ two = [metric |-> k + 1, from |-> s]
    BY <1>4, <2>1, <2>4, <2>7
  <2>8. QED
    BY <2>1, <2>4, <2>5, <2>6, <2>7
<1>5. Good(After(r, s, e))
  <2>1. Len(e) \in 0..2 /\ \A i \in 1..Len(e) : e[i] \in 0..Infinity /\ Justified(s, p, n, e[i])
    BY EntriesCases DEF s
  <2> HIDE DEF e, Good
  <2>2. CASE Len(e) = 0
    BY <1>2, <2>2
  <2>3. CASE Len(e) = 1
    BY <1>3, <2>1, <2>3
  <2>4. CASE Len(e) = 2
    BY <1>4, <2>1, <2>4
  <2>5. QED
    BY <2>1, <2>2, <2>3, <2>4
<1>6. QED
  BY <1>5 DEF r, s

-----------------------------------------------------------------------------
(* The running task.                                                       *)

Sending == run # Nobody /\ run.stack # <<>>

\* A loop at work is good.
LEMMA Loops ==
  ASSUME TInv, Sending
  PROVE  /\ GoodRun(run) /\ run.id \in TaskId /\ run.pc \in Later(run.id) /\ run.pc \in Pc
         /\ Top(run.stack) \in GoodFrame /\ Top(run.stack).dev \in Device
         /\ \A p \in Top(run.stack).todo : p \in Nbrs[Top(run.stack).dev] /\ p \in Device
         /\ \A p : Sent(run.stack, p) \in Seq(GoodFrame)
<1>1. GoodRun(run) /\ run.id \in TaskId /\ run.pc \in Later(run.id) /\ run.pc \in Pc
  BY DEF TInv, TasksGood, GoodRun, Running, Sending
<1>2. run.stack \in Seq(GoodFrame) /\ run.stack # <<>>
  BY <1>1 DEF GoodRun, Sending
<1>3. Top(run.stack) \in GoodFrame
  BY <1>2, Stacks
<1>4. Top(run.stack).dev \in Device /\ Top(run.stack).todo \subseteq Nbrs[Top(run.stack).dev]
  BY <1>3 DEF GoodFrame, Frame
<1>5. \A p \in Top(run.stack).todo : p \in Nbrs[Top(run.stack).dev] /\ p \in Device
  BY <1>4, RipAssumption
<1>6. ASSUME NEW p PROVE Sent(run.stack, p) \in Seq(GoodFrame)
  <2> DEFINE f == Top(run.stack)
  <2>1. [f EXCEPT !.todo = @ \ {p}] \in GoodFrame
    BY <1>3 DEF GoodFrame, Frame
  <2>2. Sent(run.stack, p) = [run.stack EXCEPT ![Len(run.stack)] = [f EXCEPT !.todo = @ \ {p}]]
    BY DEF Sent, Top
  <2> HIDE DEF f
  <2>3. QED
    BY <1>2, <2>1, <2>2, Stacks
<1>7. QED
  BY <1>1, <1>3, <1>4, <1>5, <1>6

\* The networks whose timers a response to p resets, and whether it cancels the
\* task that sends it.
Reset(p) == LET f == Top(run.stack)
            IN  {n \in Net : Resets(table[p][n], f.dev, Entries(f, p, n))}
Cancels(p) == run.cancelled \/ \E n \in Reset(p) : run.id = ExpireOf(p, n)

\* A response restarts these timers and, if it changes a route, suspends the task.
LEMMA RespondTasks ==
  ASSUME TInv, Sending, NEW p \in Top(run.stack).todo, Respond(p)
  PROVE  /\ task' = [id \in TaskId |-> task'[id]]
         /\ \A id \in TaskId :
              IF id = run.id /\ ~Cancels(p) /\ run' = Nobody
              THEN GoodTask(id, task'[id]) /\ task'[id].pc = run.pc /\ task'[id] # NoTask
              ELSE task'[id] = IF \E n \in Reset(p) : id = ExpireOf(p, n)
                               THEN Sleeping("timeout") ELSE task[id]
         /\ \/ run' = Nobody
            \/ GoodRun(run') /\ run'.id = run.id /\ run'.cancelled = Cancels(p)
<1> DEFINE fresh == [id \in TaskId |-> IF \E n \in Reset(p) : id = ExpireOf(p, n)
                                      THEN Sleeping("timeout") ELSE task[id]]
           stack == Sent(run.stack, p)
           more == Append(stack, [Update(p) EXCEPT !.todo = {}])
           c == [pc |-> run.pc, stack |-> more]
<1>1. /\ GoodRun(run) /\ run.id \in TaskId /\ run.pc \in Later(run.id) /\ run.pc \in Pc
      /\ p \in Device /\ stack \in Seq(GoodFrame)
  BY Loops
<1>2. more \in Seq(GoodFrame)
  BY <1>1, NewFrames, Stacks
<1>3. c \in Coroutine /\ GoodTask(run.id, c) /\ c # NoTask /\ c.pc = run.pc
  <2>1. more \in Seq(Frame)
    BY <1>2 DEF GoodFrame
  <2> HIDE DEF more
  <2>2. c \in Coroutine
    BY <1>1, <2>1 DEF Coroutine
  <2>3. QED
    BY <1>1, <1>2, <2>2, TaskAssumption DEF GoodTask
<1>4. \/ run' = Nobody /\ task' = Suspend(fresh, run.id, run.pc, more, Cancels(p))
      \/ run' = [run EXCEPT !.stack = stack, !.cancelled = Cancels(p)] /\ task' = fresh
  BY DEF Respond, Reset, Cancels
<1>5. ASSUME run' = [run EXCEPT !.stack = stack, !.cancelled = Cancels(p)]
      PROVE  GoodRun(run') /\ run'.id = run.id /\ run'.cancelled = Cancels(p)
  <2>1. stack \in Seq(Frame)
    BY <1>1 DEF GoodFrame
  <2>2. Cancels(p) \in BOOLEAN
    BY <1>1 DEF Cancels, GoodRun, Running
  <2>3. Cancels(p) => run.id[1] = "expire"
    BY <1>1, Ids DEF Cancels, Reset, GoodRun
  <2> HIDE DEF stack
  <2>4. QED
    BY <1>1, <1>5, <2>1, <2>2, <2>3 DEF GoodRun, Running
<1>6. CASE run' = Nobody /\ task' = Suspend(fresh, run.id, run.pc, more, Cancels(p))
  <2>1. CASE Cancels(p)
    BY <1>6, <2>1 DEF Suspend
  <2>2. CASE ~Cancels(p)
    <3>1. task' = [fresh EXCEPT ![run.id] = c]
      BY <1>6, <2>2 DEF Suspend
    <3> HIDE DEF c
    <3>2. /\ task' = [id \in TaskId |-> task'[id]]
          /\ \A id \in TaskId : task'[id] = IF id = run.id THEN c ELSE fresh[id]
      BY <3>1, <1>1
    <3>3. QED
      BY <1>3, <1>6, <2>2, <3>2
  <2>3. QED
    BY <2>1, <2>2
<1>7. CASE run' = [run EXCEPT !.stack = stack, !.cancelled = Cancels(p)] /\ task' = fresh
  <2>1. run' # Nobody
    BY <1>5, <1>7, TaskAssumption DEF GoodRun
  <2>2. QED
    BY <1>5, <1>7, <2>1
<1>8. QED
  BY <1>4, <1>6, <1>7

\* The running task goes on with another stack.
LEMMA GoesOn ==
  ASSUME GoodRun(run), NEW stack \in Seq(GoodFrame), run' = [run EXCEPT !.stack = stack]
  PROVE  GoodRun(run') /\ run' # Nobody /\ run'.id = run.id /\ run'.cancelled = run.cancelled
<1>1. stack \in Seq(Frame)
  BY DEF GoodFrame
<1>2. GoodRun(run') /\ run'.id = run.id /\ run'.cancelled = run.cancelled
  BY <1>1 DEF GoodRun, Running
<1>3. QED
  BY <1>2, TaskAssumption DEF GoodRun

\* A loop sends a response, or goes on without or to answer a request.
LEMMA DeliverCases ==
  ASSUME TInv, NEW p \in Device, Deliver(p)
  PROVE  \/ Respond(p)
         \/ UNCHANGED <<table, task>> /\ \E stack \in Seq(GoodFrame) : run' = [run EXCEPT !.stack = stack]
<1> DEFINE stack == Sent(run.stack, p)
<1>1. Sending
  BY DEF Deliver, Sending
<1>2. stack \in Seq(GoodFrame)
  BY <1>1, Loops
<1>3. Append(stack, Update(p)) \in Seq(GoodFrame)
  BY <1>2, NewFrames, Stacks
<1>4. \/ Respond(p)
      \/ run' = [run EXCEPT !.stack = stack] /\ UNCHANGED <<table, task>>
      \/ run' = [run EXCEPT !.stack = Append(stack, Update(p))] /\ UNCHANGED <<table, task>>
  BY DEF Deliver
<1> HIDE DEF stack
<1>5. QED
  BY <1>2, <1>3, <1>4

\* A delivery keeps the tasks and the routes well-formed.
LEMMA DeliverTInv == ASSUME TInv, NEW p \in Device, Deliver(p) PROVE TInv'
<1> DEFINE f == Top(run.stack)
<1>1. Sending /\ p \in f.todo
  BY DEF Deliver, Sending
<1>2. GoodRun(run) /\ f \in GoodFrame /\ p \in Device
  BY <1>1, Loops
<1>3. UNCHANGED <<enabled, networks, shut, starts, failures, early, cablings>>
  BY DEF Deliver
<1>4. CASE UNCHANGED <<table, task>> /\ \E stack \in Seq(GoodFrame) : run' = [run EXCEPT !.stack = stack]
  <2>1. GoodRun(run')
    BY <1>2, <1>4, GoesOn
  <2>2. TasksGood' /\ task' \in [TaskId -> Coroutine \cup {NoTask}] /\ run' \in Running \cup {Nobody}
    BY <1>3, <1>4, <2>1, TasksStep DEF TInv, TypeOK
  <2>3. QED
    BY <1>3, <1>4, <2>2 DEF TInv, TypeOK
<1>5. CASE Respond(p)
  <2>1. \A n \in Net : After(table[p][n], f.dev, Entries(f, p, n)) \in Route \cup {NoRoute}
    BY <1>2, AfterCases DEF TInv, GoodFrame
  <2>2. table' = [table EXCEPT ![p] = [n \in Net |-> After(table[p][n], f.dev, Entries(f, p, n))]]
    BY <1>5 DEF Respond
  <2>3. table' \in [Device -> [Net -> Route \cup {NoRoute}]]
    BY <2>1, <2>2 DEF TInv, TypeOK
  <2>4. \A id \in TaskId : GoodTask(id, Sleeping("timeout")) \/ \A n \in Reset(p) : id # ExpireOf(p, n)
    BY <1>2, Ids, Pcs, Sleepers DEF Reset
  <2>5. /\ task' = [id \in TaskId |-> task'[id]]
        /\ \A id \in TaskId : task'[id] = task[id] \/ GoodTask(id, task'[id])
        /\ run' = Nobody \/ GoodRun(run')
    BY <1>1, <1>5, <2>4, RespondTasks
  <2>6. TasksGood' /\ task' \in [TaskId -> Coroutine \cup {NoTask}] /\ run' \in Running \cup {Nobody}
    BY <1>3, <2>5, TasksStep
  <2>7. QED
    BY <1>3, <2>3, <2>6 DEF TInv, TypeOK
<1>6. QED
  BY <1>4, <1>5, DeliverCases

\* What the end of a loop does to the tasks.
LEMMA ReturnTasks ==
  ASSUME TInv, Return
  PROVE  /\ \/ run' = Nobody
            \/ /\ GoodRun(run') /\ run'.id = run.id /\ run'.cancelled = run.cancelled
               /\ UNCHANGED <<enabled, task>>
         /\ task' = [id \in TaskId |-> task'[id]]
         /\ \A id \in TaskId : \/ task'[id] = task[id]
                               \/ /\ id = run.id /\ ~run.cancelled /\ run.pc \notin {"stop", "done"}
                                  /\ task'[id] = Sleeping(run.pc)
                               \/ id = run.id /\ run.pc \in {"stop", "done"} /\ task'[id] = NoTask
                               \/ /\ run.pc = "stop" /\ task'[id] = NoTask
                                  /\ id = LoopOf(run.id[2]) \/ \E n \in Net : id = ExpireOf(run.id[2], n)
         /\ (run' = Nobody /\ ~run.cancelled /\ run.pc \notin {"stop", "done"})
               => task'[run.id] = Sleeping(run.pc)
         /\ enabled' = IF run' = Nobody /\ run.pc = "stop"
                       THEN [enabled EXCEPT ![run.id[2]] = FALSE] ELSE enabled
<1> DEFINE rest == Below(run.stack)
<1>1. Sending
  BY DEF Return, Sending
<1>2. GoodRun(run) /\ run.id \in TaskId /\ run.pc \in Later(run.id) /\ run.pc \in Pc
  BY <1>1, Loops
<1>3. task = [id \in TaskId |-> task[id]]
  BY DEF TInv, TypeOK
<1>4. CASE run' = [run EXCEPT !.stack = rest] /\ UNCHANGED <<enabled, task>>
  <2>1. rest \in Seq(GoodFrame)
    BY <1>1, <1>2, Stacks DEF Sending, GoodRun
  <2>2. GoodRun(run') /\ run' # Nobody /\ run'.id = run.id /\ run'.cancelled = run.cancelled
    BY <1>2, <1>4, <2>1, GoesOn
  <2>3. QED
    BY <1>3, <1>4, <2>2
<1>5. CASE /\ run' = Nobody
           /\ enabled' = IF run.pc = "stop" THEN Disabled(run.id[2]) ELSE enabled
           /\ task' = CASE run.pc = "stop" -> [Stopped(run.id[2]) EXCEPT ![run.id] = NoTask]
                        [] run.pc = "done" -> [task EXCEPT ![run.id] = NoTask]
                        [] OTHER -> Suspend(task, run.id, run.pc, <<>>, run.cancelled)
  <2>1. CASE run.pc = "stop"
    <3>1. task' = [Stopped(run.id[2]) EXCEPT ![run.id] = NoTask]
      BY <1>5, <2>1
    <3>2. /\ task' = [id \in TaskId |-> task'[id]]
          /\ \A id \in TaskId : task'[id] = IF id = run.id THEN NoTask ELSE Stopped(run.id[2])[id]
      BY <3>1, <1>2 DEF Stopped
    <3>3. \A id \in TaskId : \/ Stopped(run.id[2])[id] = task[id]
                            \/ /\ Stopped(run.id[2])[id] = NoTask
                               /\ id = LoopOf(run.id[2]) \/ \E n \in Net : id = ExpireOf(run.id[2], n)
      BY DEF Stopped
    <3>4. QED
      BY <1>5, <2>1, <3>2, <3>3 DEF Disabled
  <2>2. CASE run.pc = "done"
    <3>1. task' = [task EXCEPT ![run.id] = NoTask]
      BY <1>5, <2>2
    <3>2. QED
      BY <1>2, <1>3, <1>5, <2>2, <3>1
  <2>3. CASE run.pc \notin {"stop", "done"}
    <3>1. task' = Suspend(task, run.id, run.pc, <<>>, run.cancelled)
      BY <1>5, <2>3
    <3>2. CASE run.cancelled
      <4>1. UNCHANGED task
        BY <3>1, <3>2 DEF Suspend
      <4>2. QED
        BY <1>3, <1>5, <2>3, <3>2, <4>1
    <3>3. CASE ~run.cancelled
      <4>1. task' = [task EXCEPT ![run.id] = Sleeping(run.pc)]
        BY <3>1, <3>3 DEF Suspend, Sleeping
      <4>2. QED
        BY <1>2, <1>3, <1>5, <2>3, <3>3, <4>1
    <3>4. QED
      BY <3>2, <3>3
  <2>4. QED
    BY <2>1, <2>2, <2>3
<1>6. QED
  BY <1>4, <1>5 DEF Return

\* The end of a loop leaves well-formed tasks.
LEMMA ReturnTInv == ASSUME TInv, Return PROVE TInv'
<1>1. UNCHANGED <<networks, table, shut, starts, failures, early, cablings>>
  BY DEF Return
<1>2. run.pc \in Later(run.id) /\ run.pc \in Pc
  BY Loops DEF Return, Sending
<1>3. run.id \in TaskId => GoodTask(run.id, Sleeping(run.pc))
  BY <1>2, Sleepers
<1>4. \A id \in TaskId : task'[id] \in {task[id], NoTask} \/ GoodTask(id, task'[id])
  BY <1>3, ReturnTasks
<1>5. TasksGood' /\ task' \in [TaskId -> Coroutine \cup {NoTask}] /\ run' \in Running \cup {Nobody}
  BY <1>1, <1>4, ReturnTasks, TasksStep
<1>6. enabled' \in [Device -> BOOLEAN]
  BY ReturnTasks DEF TInv, TypeOK
<1>7. QED
  BY <1>1, <1>5, <1>6 DEF TInv, TypeOK

\* An error ends the task.
LEMMA CrashTInv == ASSUME TInv, Crash PROVE TInv'
<1> USE DEF Crash
<1>1. run.id \in TaskId
  BY Loops DEF Sending
<1>2. /\ task' = [id \in TaskId |-> task'[id]]
      /\ \A id \in TaskId : task'[id] \in {task[id], NoTask}
  BY <1>1 DEF TInv, TypeOK
<1>3. TasksGood' /\ task' \in [TaskId -> Coroutine \cup {NoTask}] /\ run' \in Running \cup {Nobody}
  BY <1>2, TasksStep
<1>4. QED
  BY <1>3 DEF TInv, TypeOK

\* Initially there is no task.
LEMMA InitTInv == Init => TInv
  BY DEF Init, TInv, TypeOK, TasksGood

\* Every step keeps the types and the tasks good.
LEMMA NextTInv == TInv /\ [Next]_vars => TInv'
<1> SUFFICES ASSUME TInv, [Next]_vars PROVE TInv'
  OBVIOUS
<1>1. CASE Operator
  BY <1>1, StartTInv, StopTInv, ShutdownTInv, NoShutdownTInv, CablingTInv DEF Operator
<1>2. CASE UNCHANGED vars
  BY <1>2 DEF vars, TInv, TypeOK, TasksGood, GoodTask, GoodRun, GoodFrame
<1>3. QED
  BY <1>1, <1>2, TickTInv, SendRequestTInv, TimeoutTInv, GarbageTInv, TriggerTInv,
     DeliverTInv, ReturnTInv, CrashTInv DEF Next

\* Routes, coroutines and frames keep their types, through any nesting of updates.
THEOREM TypeCorrect == Spec => []TypeOK
<1>1. TInv => TypeOK
  BY DEF TInv
<1>2. QED
  BY <1>1, InitTInv, NextTInv, PTL DEF Spec

-----------------------------------------------------------------------------
(* The routing tables.                                                     *)

OwnNetworks == \A d \in Device : networks[d] \subseteq Own[d]

\* What a step may do to one route: keep it, drop it, configure it, time it out,
\* or learn it from a neighbour that has a better one.
RouteStep(d, n) ==
    \/ table'[d][n] \in {table[d][n], NoRoute}
    \/ table'[d][n] = Direct /\ n \in networks'[d]
    \/ table[d][n] # NoRoute /\ table'[d][n] = [table[d][n] EXCEPT !.metric = Infinity]
    \/ \E s \in Device : /\ d \in Nbrs[s]
                         /\ \E m \in 0..Infinity :
                               /\ m + 1 < Infinity /\ Justified(s, d, n, m)
                               /\ table'[d][n] = [metric |-> m + 1, from |-> s]

RouteSteps == \/ UNCHANGED table
              \/ \E d \in Device : /\ \A e \in Device \ {d} : table'[e] = table[e]
                                   /\ \A n \in Net : RouteStep(d, n)

\* Every step changes the routes of one router, in these ways, and only adds
\* networks of the router's interfaces.
LEMMA Steps ==
  ASSUME TInv, OwnNetworks, [Next]_vars
  PROVE  /\ RouteSteps
         /\ OwnNetworks' /\ \A d \in Device : networks[d] \subseteq networks'[d]
<1>1. table \in [Device -> [Net -> Route \cup {NoRoute}]] /\ networks \in [Device -> SUBSET Net]
  BY DEF TInv, TypeOK
<1>2. ASSUME NEW d \in Device, NEW N \in SUBSET Own[d], Start(d, N)
      PROVE  /\ RouteSteps /\ OwnNetworks' /\ \A e \in Device : networks[e] \subseteq networks'[e]
  <2>1. networks' = [networks EXCEPT ![d] = @ \cup N]
    BY <1>2 DEF Start
  <2>2. OwnNetworks' /\ \A e \in Device : networks[e] \subseteq networks'[e]
    BY <1>1, <2>1 DEF OwnNetworks
  <2>3. table' = [table EXCEPT ![d] = [m \in Net |-> IF m \in networks'[d] THEN Direct ELSE NoRoute]]
    BY <1>2 DEF Start
  <2>4. \A n \in Net : RouteStep(d, n)
    BY <1>1, <2>3 DEF RouteStep
  <2>5. \A e \in Device \ {d} : table'[e] = table[e]
    BY <1>1, <2>3
  <2>6. QED
    BY <2>2, <2>4, <2>5 DEF RouteSteps
<1>3. ASSUME NEW d \in Device, NEW p \in Nbrs[d], Shutdown(d, p) PROVE RouteSteps
  <2> DEFINE lost == {n \in Net : table[d][n].from = p}
  <2>1. \/ UNCHANGED table
        \/ table' = [table EXCEPT ![d] = [n \in Net |-> IF n \in lost THEN NoRoute ELSE table[d][n]]]
    BY <1>3 DEF Shutdown
  <2> HIDE DEF lost
  <2>2. CASE table' = [table EXCEPT ![d] = [n \in Net |-> IF n \in lost THEN NoRoute ELSE table[d][n]]]
    <3>1. \A n \in Net : RouteStep(d, n)
      BY <1>1, <2>2 DEF RouteStep
    <3>2. \A e \in Device \ {d} : table'[e] = table[e]
      BY <1>1, <2>2
    <3>3. QED
      BY <3>1, <3>2 DEF RouteSteps
  <2>3. QED
    BY <2>1, <2>2 DEF RouteSteps
<1>4. ASSUME NEW d \in Device, NEW n \in Net, Timeout(d, n) PROVE RouteSteps
  <2>1. \/ UNCHANGED table
        \/ table[d][n] # NoRoute /\ table' = [table EXCEPT ![d][n].metric = Infinity]
    BY <1>4 DEF Timeout
  <2>2. CASE table[d][n] # NoRoute /\ table' = [table EXCEPT ![d][n].metric = Infinity]
    <3>1. /\ \A e \in Device \ {d} : table'[e] = table[e]
          /\ \A m \in Net \ {n} : table'[d][m] = table[d][m]
          /\ table'[d][n] = [table[d][n] EXCEPT !.metric = Infinity]
      BY <1>1, <2>2
    <3>2. \A m \in Net : RouteStep(d, m)
      BY <2>2, <3>1 DEF RouteStep
    <3>3. QED
      BY <3>1, <3>2 DEF RouteSteps
  <2>3. QED
    BY <2>1, <2>2 DEF RouteSteps
<1>5. ASSUME NEW d \in Device, NEW n \in Net, Garbage(d, n) PROVE RouteSteps
  <2>1. table' = [table EXCEPT ![d][n] = NoRoute]
    BY <1>5 DEF Garbage
  <2>2. /\ \A e \in Device \ {d} : table'[e] = table[e]
        /\ \A m \in Net : table'[d][m] \in {table[d][m], NoRoute}
    BY <1>1, <2>1
  <2>3. QED
    BY <2>2 DEF RouteSteps, RouteStep
<1>6. ASSUME NEW p \in Device, Deliver(p) PROVE RouteSteps
  <2> DEFINE f == Top(run.stack)
  <2>1. \/ UNCHANGED table
        \/ table' = [table EXCEPT ![p] = [n \in Net |-> After(table[p][n], f.dev, Entries(f, p, n))]]
    BY <1>6 DEF Deliver, Respond
  <2>2. f \in Frame /\ f.dev \in Device /\ p \in Nbrs[f.dev]
    BY <1>6, Loops DEF Deliver, Sending, GoodFrame
  <2>3. CASE table' = [table EXCEPT ![p] = [n \in Net |-> After(table[p][n], f.dev, Entries(f, p, n))]]
    <3>1. ASSUME NEW n \in Net PROVE RouteStep(p, n)
      <4>1. table'[p][n] = After(table[p][n], f.dev, Entries(f, p, n))
        BY <1>1, <2>3
      <4>2. \/ table'[p][n] \in {table[p][n], NoRoute}
            \/ \E m \in 0..Infinity : /\ m + 1 < Infinity /\ Justified(f.dev, p, n, m)
                                      /\ table'[p][n] = [metric |-> m + 1, from |-> f.dev]
        BY <2>2, <4>1, AfterCases DEF TInv
      <4>3. QED
        BY <2>2, <4>2 DEF RouteStep
    <3>2. \A e \in Device \ {p} : table'[e] = table[e]
      BY <1>1, <2>3
    <3>3. QED
      BY <3>1, <3>2 DEF RouteSteps
  <2>4. QED
    BY <2>1, <2>3 DEF RouteSteps
<1>7. UNCHANGED networks => OwnNetworks' /\ \A d \in Device : networks[d] \subseteq networks'[d]
  BY DEF OwnNetworks
<1>8. CASE UNCHANGED <<table, networks>>
  BY <1>7, <1>8 DEF RouteSteps
<1>9. CASE Operator
  BY <1>2, <1>3, <1>7, <1>8, <1>9 DEF Operator, Stop, Shutdown, NoShutdown, Cabling
<1>10. CASE \E d \in Device, n \in Net : Timeout(d, n) \/ Garbage(d, n)
  BY <1>4, <1>5, <1>7, <1>10 DEF Timeout, Garbage
<1>11. CASE \E p \in Device : Deliver(p)
  BY <1>6, <1>7, <1>11 DEF Deliver
<1>12. CASE \/ \E d \in Device : Tick(d) \/ SendRequest(d)
            \/ \E id \in TaskId : Trigger(id)
            \/ Return \/ Crash \/ UNCHANGED vars
  BY <1>8, <1>12 DEF Tick, SendRequest, Trigger, Return, Crash, vars
<1>13. QED
  BY <1>9, <1>10, <1>11, <1>12 DEF Next

\* No step closes a loop between two neighbours.
LEMMA NoLoopStep ==
  ASSUME TInv, NoTwoRouterLoop, RouteSteps, \A d \in Device : networks[d] \subseteq networks'[d]
  PROVE  NoTwoRouterLoop'
<1>1. SUFFICES ASSUME NEW d \in Device, NEW p \in Device, NEW n \in Net,
                      table'[d][n].from = p, table'[p][n].from = d
               PROVE  n \in networks[d] \cup networks[p] \/ n \in networks'[d] \cup networks'[p]
  BY DEF NoTwoRouterLoop
<1>2. NoRoute.from \notin Device /\ Direct.from \notin Device
  BY RipAssumption DEF NoRoute, Direct
\* One of the two routes is new; the other one is the same as before.
<1>3. ASSUME NEW a \in Device, NEW b \in Device, RouteStep(a, n),
             a # b => table'[b][n] = table[b][n], table'[a][n].from = b, table'[b][n].from = a
      PROVE  n \in networks[a] \cup networks[b]
  <2>1. CASE table'[a][n].from = table[a][n].from
    BY <1>3, <2>1 DEF NoTwoRouterLoop
  <2>2. CASE \E s \in Device : /\ a \in Nbrs[s]
                              /\ \E m \in 0..Infinity :
                                   /\ m + 1 < Infinity /\ Justified(s, a, n, m)
                                   /\ table'[a][n] = [metric |-> m + 1, from |-> s]
    <3>1. a \in Nbrs[b]
      BY <1>3, <2>2
    <3>2. a # b /\ table[b][n].from = a
      BY <1>3, <3>1, RipAssumption
    <3>3. PICK m \in 0..Infinity : m + 1 < Infinity /\ Justified(b, a, n, m)
      BY <1>3, <2>2
    <3>4. m # Infinity
      BY <3>3, RipAssumption
    <3>5. QED
      BY <3>2, <3>3, <3>4 DEF Justified
  <2>3. CASE table[a][n] # NoRoute /\ table'[a][n] = [table[a][n] EXCEPT !.metric = Infinity]
    <3>1. table[a][n] \in Route
      BY <2>3 DEF TInv, TypeOK
    <3>2. table'[a][n].from = table[a][n].from
      BY <2>3, <3>1 DEF Route
    <3>3. QED
      BY <2>1, <3>2
  <2>4. QED
    BY <1>2, <1>3, <2>1, <2>2, <2>3 DEF RouteStep
<1>4. CASE UNCHANGED table
  BY <1>1, <1>4 DEF NoTwoRouterLoop
<1>5. ASSUME NEW a \in Device, \A e \in Device \ {a} : table'[e] = table[e], \A m \in Net : RouteStep(a, m)
      PROVE  n \in networks[d] \cup networks[p]
  <2>1. CASE a = d
    BY <1>1, <1>3, <1>5, <2>1
  <2>2. CASE a = p
    BY <1>1, <1>3, <1>5, <2>2
  <2>3. CASE a \notin {d, p}
    BY <1>1, <1>5, <2>3 DEF NoTwoRouterLoop
  <2>4. QED
    BY <2>1, <2>2, <2>3
<1>6. QED
  BY <1>4, <1>5 DEF RouteSteps

\* No step makes a route shorter than the network.
LEMMA DistanceStep ==
  ASSUME TInv, OwnNetworks, OwnNetworks', MetricAboveDistance, RouteSteps
  PROVE  MetricAboveDistance'
<1> DEFINE Ok(d, n, r) == r # NoRoute => r.metric >= Dist[d][n] \/ r.metric = Infinity
<1>1. \A d \in Device, n \in Net : Ok(d, n, table[d][n]) /\ Dist[d][n] \in Nat
  BY DistAssumption DEF MetricAboveDistance
<1>2. ASSUME NEW d \in Device, NEW n \in Net, RouteStep(d, n) PROVE Ok(d, n, table'[d][n])
  <2>1. CASE table'[d][n] \in {table[d][n], NoRoute}
    BY <1>1, <2>1
  <2>2. CASE table'[d][n] = Direct /\ n \in networks'[d]
    <3>1. Dist[d][n] = 0
      BY <2>2, DistAssumption DEF OwnNetworks
    <3>2. QED
      BY <2>2, <3>1 DEF Direct
  <2>3. CASE table[d][n] # NoRoute /\ table'[d][n] = [table[d][n] EXCEPT !.metric = Infinity]
    <3>1. table[d][n] \in Route
      BY <2>3 DEF TInv, TypeOK
    <3>2. QED
      BY <2>3, <3>1 DEF Route
  <2>4. ASSUME NEW s \in Device, NEW m \in 0..Infinity, d \in Nbrs[s], m + 1 < Infinity,
               Justified(s, d, n, m), table'[d][n] = [metric |-> m + 1, from |-> s]
        PROVE  Ok(d, n, table'[d][n])
    <3>1. Dist[d][n] <= Dist[s][n] + 1 /\ Dist[d][n] \in Nat /\ Dist[s][n] \in Nat
      BY <2>4, DistAssumption
    <3>2. m # Infinity
      BY <2>4, RipAssumption
    <3>3. CASE n \in networks[s] /\ m = 0
      <4>1. Dist[s][n] = 0
        BY <3>3, DistAssumption DEF OwnNetworks
      <4>2. QED
        BY <2>4, <3>1, <3>3, <4>1
    <3>4. CASE Learned(table[s][n]) /\ m = table[s][n].metric
      <4>1. m >= Dist[s][n]
        BY <1>1, <3>2, <3>4 DEF Learned
      <4>2. QED
        BY <2>4, <3>1, <4>1
    <3>5. QED
      BY <2>4, <3>2, <3>3, <3>4 DEF Justified
  <2>5. QED
    BY <1>2, <2>1, <2>2, <2>3, <2>4 DEF RouteStep
<1>3. QED
  BY <1>1, <1>2 DEF RouteSteps, MetricAboveDistance

-----------------------------------------------------------------------------
(* The update loops and the expire coroutines, before any cable moves.     *)

LoopsLive == \A d \in Device : enabled[d] => task[LoopOf(d)] # NoTask

\* A coroutine that was cancelled while it runs: the route that cancelled it is
\* usable, or gone again.
CancelledFresh ==
    \A d \in Device, n \in Net :
        (run # Nobody /\ run.id = ExpireOf(d, n) /\ run.cancelled /\ Learned(table[d][n]))
            => table[d][n].metric < Infinity

TimersInv == LoopsLive /\ RoutesHaveTimers /\ CancelledFresh

RInv == /\ TInv /\ OwnNetworks
        /\ NoTwoRouterLoop /\ MetricAboveDistance
        /\ cablings = 0 => TimersInv

\* One route and its expire coroutine.
HasTimer(d, n) ==
    (enabled[d] /\ Learned(table[d][n])) =>
        LET id == ExpireOf(d, n)
        IN  /\ task[id] # NoTask
            /\ IF table[d][n].metric < Infinity
               THEN task[id].pc = "timeout" /\ (run # Nobody /\ run.id = id => run.cancelled)
               ELSE task[id].pc = "garbage" \/ (run # Nobody /\ run.id = id)
Fresh(d, n) ==
    (run # Nobody /\ run.id = ExpireOf(d, n) /\ run.cancelled /\ Learned(table[d][n]))
        => table[d][n].metric < Infinity

\* The timers, route by route.
LEMMA Timers == TimersInv <=> /\ LoopsLive
                              /\ \A d \in Device, n \in Net : HasTimer(d, n) /\ Fresh(d, n)
  BY DEF TimersInv, RoutesHaveTimers, CancelledFresh, HasTimer, Fresh

\* The same of the next state.
LEMMA TimersNext ==
  ASSUME LoopsLive', \A d \in Device, n \in Net : HasTimer(d, n)' /\ Fresh(d, n)'
  PROVE  TimersInv'
  BY DEF TimersInv, RoutesHaveTimers, CancelledFresh, HasTimer, Fresh

\* Commands and the update loops leave routes with their timers.
LEMMA QuietTimers ==
  ASSUME TimersInv, run = Nobody, run' = Nobody \/ run'.id[1] # "expire",
         \A d \in Device : enabled'[d] => \/ enabled[d] /\ task'[LoopOf(d)] = task[LoopOf(d)]
                                          \/ task'[LoopOf(d)] # NoTask,
         \A d \in Device, n \in Net :
            \/ ~(enabled'[d] /\ Learned(table'[d][n]))
            \/ /\ enabled[d] /\ table'[d][n] = table[d][n]
               /\ task'[ExpireOf(d, n)] = task[ExpireOf(d, n)]
  PROVE  TimersInv'
<1>1. LoopsLive'
  BY Timers DEF LoopsLive
<1>2. \A d \in Device, n \in Net : HasTimer(d, n)'
  BY Timers, Ids DEF HasTimer
<1>3. \A d \in Device, n \in Net : Fresh(d, n)'
  BY Ids DEF Fresh
<1>4. QED
  BY <1>1, <1>2, <1>3, TimersNext

\* A step that is not about a route and its coroutine.
LEMMA KeptTimer ==
  ASSUME NEW d \in Device, NEW n \in Net, HasTimer(d, n), Fresh(d, n),
         enabled'[d] = enabled[d], table'[d][n] = table[d][n],
         task'[ExpireOf(d, n)] = task[ExpireOf(d, n)],
         run = Nobody \/ run.id # ExpireOf(d, n), run' = Nobody \/ run'.id # ExpireOf(d, n)
  PROVE  HasTimer(d, n)' /\ Fresh(d, n)'
  BY DEF HasTimer, Fresh

\* A task that gets the event loop is not cancelled.
LEMMA RunsTask ==
  ASSUME NEW id \in TaskId, NEW pc \in Later(id), NEW stack \in Seq(GoodFrame), Runs(id, pc, stack)
  PROVE  run' # Nobody /\ run'.id = id /\ run'.cancelled = FALSE
<1>1. run' # Nobody
  BY RunsGood, TaskAssumption DEF GoodRun
<1>2. QED
  BY <1>1 DEF Runs

\* start() leaves no learned route behind.
LEMMA StartTimers ==
  ASSUME TInv, TimersInv, NEW d \in Device, NEW N \in SUBSET Own[d], Start(d, N) PROVE TimersInv'
<1> USE DEF Start
<1>1. run = Nobody /\ run' = Nobody
  OBVIOUS
<1>2. task' = [task EXCEPT ![LoopOf(d)] = Sleeping("interval"), ![CliOf(d)] = Sleeping("request")]
  OBVIOUS
<1>3. /\ task'[LoopOf(d)] = Sleeping("interval")
      /\ \A e \in Device : e # d => task'[LoopOf(e)] = task[LoopOf(e)]
      /\ \A e \in Device, n \in Net : task'[ExpireOf(e, n)] = task[ExpireOf(e, n)]
  <2>1. task \in [TaskId -> Coroutine \cup {NoTask}]
    BY DEF TInv, TypeOK
  <2>2. LoopOf(d) # CliOf(d)
    BY Ids
  <2>3. QED
    BY <1>2, <2>1, <2>2, Ids
<1>4. Sleeping("interval") # NoTask
  BY Sleepers DEF Pc
<1>5. \A e \in Device : e # d => enabled'[e] = enabled[e] /\ table'[e] = table[e]
  BY DEF TInv, TypeOK
<1>6. \A n \in Net : ~Learned(table'[d][n])
  BY DEF TInv, TypeOK, Learned, Direct, NoRoute
<1> HIDE DEF Start
<1>7. \A e \in Device : enabled'[e] => \/ enabled[e] /\ task'[LoopOf(e)] = task[LoopOf(e)]
                                       \/ task'[LoopOf(e)] # NoTask
  BY <1>3, <1>4, <1>5
<1>8. QED
  BY <1>1, <1>3, <1>5, <1>6, <1>7, QuietTimers

\* stop() and shutdown run in the command handler's task.
LEMMA OperatorTimers ==
  ASSUME TInv, TimersInv, NEW d \in Device,
         Stop(d) \/ \E p \in Nbrs[d] : Shutdown(d, p) \/ NoShutdown(d, p)
  PROVE  TimersInv'
<1>1. run = Nobody /\ UNCHANGED <<enabled, task>>
  BY DEF Stop, Shutdown, NoShutdown
<1>2. CASE Stop(d)
  <2>1. run'.id = CliOf(d) /\ UNCHANGED table
    BY <1>2 DEF Stop
  <2>2. QED
    BY <1>1, <2>1, Ids, QuietTimers
<1>3. ASSUME NEW p \in Nbrs[d], Shutdown(d, p) PROVE TimersInv'
  <2> DEFINE lost == {n \in Net : table[d][n].from = p}
  <2>1. \/ UNCHANGED <<table, run>>
        \/ /\ table' = [table EXCEPT ![d] = [n \in Net |-> IF n \in lost THEN NoRoute ELSE table[d][n]]]
           /\ run'.id = CliOf(d)
    BY <1>3 DEF Shutdown
  <2> HIDE DEF lost
  <2>2. \A e \in Device, n \in Net : table'[e][n] \in {table[e][n], NoRoute}
    BY <2>1 DEF TInv, TypeOK
  <2>3. run' = Nobody \/ run'.id = CliOf(d)
    BY <1>1, <2>1
  <2>4. ~Learned(NoRoute)
    BY DEF Learned
  <2>5. QED
    BY <1>1, <2>2, <2>3, <2>4, Ids, QuietTimers
<1>4. ASSUME NEW p \in Nbrs[d], NoShutdown(d, p) PROVE TimersInv'
  <2>1. UNCHANGED <<table, run>>
    BY <1>4 DEF NoShutdown
  <2>2. QED
    BY <1>1, <2>1, QuietTimers
<1>5. QED
  BY <1>2, <1>3, <1>4

\* The update loops and the requests touch no expire coroutine.
LEMMA WakeTimers ==
  ASSUME TInv, TimersInv, NEW d \in Device, Tick(d) \/ SendRequest(d) PROVE TimersInv'
<1>1. run = Nobody /\ UNCHANGED <<enabled, table>>
  BY DEF Tick, SendRequest
<1>2. run' = Nobody \/ run'.id \in {LoopOf(d), CliOf(d)}
  BY <1>1 DEF Tick, SendRequest, Runs
<1>3. \/ UNCHANGED task
      \/ ~enabled[d] /\ task' = [task EXCEPT ![LoopOf(d)] = NoTask]
  BY DEF Tick, SendRequest
<1>4. /\ \A e \in Device : enabled[e] => task'[LoopOf(e)] = task[LoopOf(e)]
      /\ \A e \in Device, n \in Net : task'[ExpireOf(e, n)] = task[ExpireOf(e, n)]
  <2>1. task \in [TaskId -> Coroutine \cup {NoTask}]
    BY DEF TInv, TypeOK
  <2>2. \A e \in Device : e # d => LoopOf(e) # LoopOf(d)
    BY Ids
  <2>3. \A e \in Device, n \in Net : ExpireOf(e, n) # LoopOf(d)
    BY Ids
  <2>4. QED
    BY <1>3, <2>1, <2>2, <2>3, Ids
<1>5. QED
  BY <1>1, <1>2, <1>4, Ids, QuietTimers

\* The coroutine goes with its route.
LEMMA GarbageTimers ==
  ASSUME TInv, TimersInv, NEW d \in Device, NEW n \in Net, Garbage(d, n) PROVE TimersInv'
<1>1. run = Nobody /\ run' = Nobody /\ UNCHANGED enabled
  BY DEF Garbage
<1>2. table' = [table EXCEPT ![d][n] = NoRoute] /\ task' = [task EXCEPT ![ExpireOf(d, n)] = NoTask]
  BY DEF Garbage
<1>3. \A e \in Device : task'[LoopOf(e)] = task[LoopOf(e)]
  BY <1>2, Ids DEF TInv, TypeOK
<1>4. \A e \in Device, m \in Net : <<e, m>> # <<d, n>> =>
         table'[e][m] = table[e][m] /\ task'[ExpireOf(e, m)] = task[ExpireOf(e, m)]
  BY <1>2, Ids DEF TInv, TypeOK
<1>5. ~Learned(table'[d][n])
  BY <1>2 DEF TInv, TypeOK, Learned
<1>6. QED
  BY <1>1, <1>3, <1>4, <1>5, QuietTimers, Timers DEF LoopsLive

\* A coroutine in its timeout goes on as garbage collection exactly when its route times out.
LEMMA TimeoutTimers ==
  ASSUME TInv, TimersInv, NEW d \in Device, NEW n \in Net, Timeout(d, n) PROVE TimersInv'
<1> DEFINE id == ExpireOf(d, n)
<1>1. /\ run = Nobody /\ UNCHANGED enabled /\ task[id] = Sleeping("timeout")
      /\ task \in [TaskId -> Coroutine \cup {NoTask}]
      /\ table \in [Device -> [Net -> Route \cup {NoRoute}]]
  BY DEF Timeout, TInv, TypeOK
<1>2. /\ task[id].pc = "timeout" /\ task[id] # NoTask
      /\ id \in TaskId /\ \A e \in Device : id # LoopOf(e) /\ LoopOf(e) \in TaskId
  <2>1. Sleeping("timeout").pc = "timeout"
    BY DEF Sleeping
  <2>2. Sleeping("timeout") # NoTask
    BY Sleepers DEF Pc
  <2>3. id \in TaskId /\ \A e \in Device : id # LoopOf(e) /\ LoopOf(e) \in TaskId
    BY Ids
  <2> HIDE DEF id
  <2>4. QED
    BY <1>1, <2>1, <2>2, <2>3
<1>3. \A e \in Device, m \in Net : <<e, m>> # <<d, n>> => ExpireOf(e, m) # id /\ ExpireOf(e, m) \in TaskId
  BY Ids
<1> HIDE DEF id
\* The route times out; the coroutine goes on as its garbage collection.
<1>4. CASE table[d][n] # NoRoute /\ table[d][n].metric < Infinity
  <2>1. table' = [table EXCEPT ![d][n].metric = Infinity]
    BY <1>4 DEF Timeout
  <2>2. /\ \A e \in Device, m \in Net : <<e, m>> # <<d, n>> => table'[e][m] = table[e][m]
        /\ table'[d][n].metric = Infinity
    BY <1>1, <1>4, <2>1 DEF Route
  <2>3. CASE enabled[d]
    <3>1. Runs(id, "garbage", <<Update(d)>>) /\ UNCHANGED task
      BY <1>4, <2>3 DEF Timeout, id
    <3>2. "garbage" \in Later(id) /\ <<Update(d)>> \in Seq(GoodFrame)
      BY Pcs, NewFrames DEF id
    <3>3. run' # Nobody /\ run'.id = id /\ run'.cancelled = FALSE
      BY <1>2, <3>1, <3>2, RunsTask
    <3>4. HasTimer(d, n)' /\ Fresh(d, n)'
      BY <1>2, <2>2, <3>1, <3>3, RipAssumption DEF HasTimer, Fresh, id
    <3>5. \A e \in Device, m \in Net : <<e, m>> # <<d, n>> => HasTimer(e, m)' /\ Fresh(e, m)'
      BY <1>1, <1>3, <2>2, <3>1, <3>3, KeptTimer, Timers
    <3>6. LoopsLive'
      BY <1>1, <3>1, Timers DEF LoopsLive
    <3>7. QED
      BY <3>4, <3>5, <3>6, TimersNext
  <2>4. CASE ~enabled[d]
    <3>1. UNCHANGED run /\ task' = [task EXCEPT ![id] = Sleeping("garbage")]
      BY <1>4, <2>4 DEF Timeout, id
    <3>2. HasTimer(d, n)' /\ Fresh(d, n)'
      BY <1>1, <2>4, <3>1 DEF HasTimer, Fresh
    <3>3. \A e \in Device, m \in Net : <<e, m>> # <<d, n>> => task'[ExpireOf(e, m)] = task[ExpireOf(e, m)]
      BY <1>1, <1>3, <3>1
    <3>4. \A e \in Device, m \in Net : <<e, m>> # <<d, n>> => HasTimer(e, m)' /\ Fresh(e, m)'
      BY <1>1, <2>2, <3>1, <3>3, KeptTimer, Timers
    <3>5. LoopsLive'
      BY <1>1, <1>2, <3>1, Timers DEF LoopsLive
    <3>6. QED
      BY <3>2, <3>4, <3>5, TimersNext
  <2>5. QED
    BY <2>3, <2>4
\* There is none, or it belongs to a router that was stopped: a learned route that
\* timed out before has its coroutine in garbage collection.
<1>5. CASE ~(table[d][n] # NoRoute /\ table[d][n].metric < Infinity)
  <2>1. task' = [task EXCEPT ![id] = NoTask] /\ UNCHANGED <<table, run>>
    BY <1>5 DEF Timeout, id
  <2>2. ~(enabled[d] /\ Learned(table[d][n]))
    BY <1>1, <1>2, <1>5, Timers DEF HasTimer, Learned, id
  <2>3. HasTimer(d, n)' /\ Fresh(d, n)'
    BY <1>1, <2>1, <2>2 DEF HasTimer, Fresh
  <2>4. \A e \in Device, m \in Net : <<e, m>> # <<d, n>> => task'[ExpireOf(e, m)] = task[ExpireOf(e, m)]
    BY <1>1, <1>3, <2>1
  <2>5. \A e \in Device, m \in Net : <<e, m>> # <<d, n>> => HasTimer(e, m)' /\ Fresh(e, m)'
    BY <1>1, <2>1, <2>4, KeptTimer, Timers
  <2>6. LoopsLive'
    BY <1>1, <1>2, <2>1, Timers DEF LoopsLive
  <2>7. QED
    BY <2>3, <2>5, <2>6, TimersNext
<1>6. QED
  BY <1>4, <1>5

\* An expire coroutine that sends is past its timeout.
LEMMA TriggerTimers == ASSUME TInv, TimersInv, NEW id \in TaskId, Trigger(id) PROVE TimersInv'
<1>1. run = Nobody /\ UNCHANGED <<enabled, table, task>>
  BY DEF Trigger
<1>2. run'.id = id /\ run'.cancelled = FALSE
  BY DEF Trigger, Runs
<1>3. run' # Nobody
  BY TriggerRuns, RunsTask
<1>4. task[id].pc \in Later(id)
  BY TriggerRuns
<1>5. LoopsLive'
  BY <1>1, Timers DEF LoopsLive
<1>6. ASSUME NEW d \in Device, NEW n \in Net PROVE HasTimer(d, n)' /\ Fresh(d, n)'
  <2>1. HasTimer(d, n) /\ Fresh(d, n)
    BY Timers
  <2>2. CASE id = ExpireOf(d, n)
    <3>1. task[id].pc = "garbage"
      BY <1>4, <2>2, Pcs
    <3>2. QED
      BY <1>1, <1>2, <1>3, <2>1, <2>2, <3>1 DEF HasTimer, Fresh
  <2>3. CASE id # ExpireOf(d, n)
    BY <1>1, <1>2, <2>1, <2>3, KeptTimer
  <2>4. QED
    BY <2>2, <2>3
<1>7. QED
  BY <1>5, <1>6, TimersNext

\* A response starts the timer of each route it makes the sender's, and cancels the coroutine
\* it replaces even when that one is sending the response.
LEMMA RespondTimers ==
  ASSUME TInv, TimersInv, Sending, NEW p \in Top(run.stack).todo, Respond(p), UNCHANGED enabled
  PROVE  TimersInv'
<1> DEFINE f == Top(run.stack)
<1>1. p \in Device /\ f \in Frame /\ run.id \in TaskId /\ run.pc \in Later(run.id)
  BY Loops DEF GoodFrame
<1>2. table' = [table EXCEPT ![p] = [n \in Net |-> After(table[p][n], f.dev, Entries(f, p, n))]]
  BY DEF Respond
<1>3. /\ \A d \in Device : d # p => table'[d] = table[d]
      /\ \A n \in Net : table'[p][n] = After(table[p][n], f.dev, Entries(f, p, n))
  BY <1>1, <1>2 DEF TInv, TypeOK
<1> HIDE DEF f
<1>4. \/ run' = Nobody
      \/ run' # Nobody /\ run'.id = run.id /\ run'.cancelled = Cancels(p)
  BY RespondTasks, TaskAssumption DEF GoodRun
<1>5. LoopsLive'
  <2>1. \A d \in Device : task[LoopOf(d)] # NoTask => task'[LoopOf(d)] # NoTask
    BY <1>1, Ids, RespondTasks DEF Reset
  <2>2. QED
    BY <2>1, Timers DEF LoopsLive
<1>6. ASSUME NEW n \in Reset(p) PROVE HasTimer(p, n)' /\ Fresh(p, n)'
  <2> DEFINE id == ExpireOf(p, n)
  <2>1. n \in Net /\ Resets(table[p][n], f.dev, Entries(f, p, n)) /\ id \in TaskId
    BY <1>1, Ids DEF Reset, f
  <2>2. run.id = id => Cancels(p)
    BY DEF Cancels
  <2>3. task'[id] = Sleeping("timeout")
    BY <2>1, <2>2, RespondTasks
  <2>4. task'[id] # NoTask /\ task'[id].pc = "timeout"
    <3>1. Sleeping("timeout") # NoTask
      BY Sleepers DEF Pc
    <3>2. QED
      BY <2>3, <3>1 DEF Sleeping
  <2>5. Learned(table'[p][n]) => table'[p][n].metric < Infinity
    <3>1. \/ table'[p][n] = NoRoute
          \/ \E m \in 0..Infinity : m + 1 < Infinity /\ table'[p][n] = [metric |-> m + 1, from |-> f.dev]
      BY <1>1, <1>3, <2>1, AfterCases DEF TInv
    <3>2. CASE table'[p][n] = NoRoute
      BY <3>2 DEF Learned
    <3>3. ASSUME NEW m \in 0..Infinity, m + 1 < Infinity, table'[p][n] = [metric |-> m + 1, from |-> f.dev]
          PROVE  table'[p][n].metric < Infinity
      BY <3>3
    <3>4. QED
      BY <3>1, <3>2, <3>3
  <2> HIDE DEF id
  <2>6. QED
    BY <1>4, <2>2, <2>4, <2>5 DEF HasTimer, Fresh, id
<1>7. ASSUME NEW d \in Device, NEW n \in Net, d # p \/ n \notin Reset(p)
      PROVE  HasTimer(d, n)' /\ Fresh(d, n)'
  <2> DEFINE id == ExpireOf(d, n)
  <2>1. HasTimer(d, n) /\ Fresh(d, n) /\ id \in TaskId
    BY Ids, Timers
  <2>2. \A m \in Reset(p) : id # ExpireOf(p, m)
    BY <1>1, <1>7, Ids DEF Reset
  <2>3. run.id = id => (Cancels(p) <=> run.cancelled)
    BY <2>2 DEF Cancels
  <2>4. IF id = run.id /\ ~Cancels(p) /\ run' = Nobody
        THEN task'[id].pc = run.pc /\ task'[id] # NoTask ELSE task'[id] = task[id]
    BY <2>1, <2>2, RespondTasks
  <2>5. table'[d][n] \in {table[d][n], NoRoute}
    <3>1. CASE d # p
      BY <1>3, <3>1
    <3>2. CASE d = p /\ n \notin Reset(p)
      <4>1. ~Resets(table[p][n], f.dev, Entries(f, p, n))
        BY <3>2 DEF Reset, f
      <4>2. QED
        BY <1>1, <1>3, <3>2, <4>1, AfterCases DEF TInv
    <3>3. QED
      BY <1>7, <3>1, <3>2
  <2>6. run.id = id => run.pc = "garbage"
    BY <1>1, Pcs
  <2>7. CASE table'[d][n] = NoRoute
    BY <2>7 DEF HasTimer, Fresh, Learned
  <2>8. CASE table'[d][n] = table[d][n] /\ ~Learned(table[d][n])
    BY <2>8 DEF HasTimer, Fresh
  <2>9. CASE table'[d][n] = table[d][n] /\ Learned(table[d][n]) /\ table[d][n].metric < Infinity
    BY <1>4, <2>1, <2>3, <2>4, <2>9 DEF HasTimer, Fresh, Sending
  <2>10. CASE table'[d][n] = table[d][n] /\ Learned(table[d][n]) /\ ~(table[d][n].metric < Infinity)
    BY <1>4, <2>1, <2>3, <2>4, <2>6, <2>10 DEF HasTimer, Fresh, Sending
  <2>11. QED
    BY <2>5, <2>7, <2>8, <2>9, <2>10
<1>8. Reset(p) \subseteq Net
  BY DEF Reset
<1>9. QED
  BY <1>1, <1>5, <1>6, <1>7, <1>8, TimersNext

\* Whatever is delivered, timers stay.
LEMMA DeliverTimers == ASSUME TInv, TimersInv, NEW p \in Device, Deliver(p) PROVE TimersInv'
<1>1. Sending /\ p \in Top(run.stack).todo /\ UNCHANGED enabled
  BY DEF Deliver, Sending
<1>2. CASE UNCHANGED <<table, task>> /\ \E stack \in Seq(GoodFrame) : run' = [run EXCEPT !.stack = stack]
  <2>1. GoodRun(run) /\ run # Nobody
    BY <1>1, Loops DEF Sending
  <2>2. run' # Nobody /\ run'.id = run.id /\ run'.cancelled = run.cancelled
    BY <1>2, <2>1, GoesOn
  <2>3. \A d \in Device, n \in Net : HasTimer(d, n)' /\ Fresh(d, n)'
    BY <1>1, <1>2, <2>1, <2>2, Timers DEF HasTimer, Fresh
  <2>4. LoopsLive'
    BY <1>1, <1>2, Timers DEF LoopsLive
  <2>5. QED
    BY <2>3, <2>4, TimersNext
<1>3. CASE Respond(p)
  BY <1>1, <1>3, RespondTimers
<1>4. QED
  BY <1>2, <1>3, DeliverCases

\* An expire coroutine goes back to sleep as garbage collection unless it was cancelled.
LEMMA ReturnTimers == ASSUME TInv, TimersInv, Return PROVE TimersInv'
<1>1. Sending /\ UNCHANGED table
  BY DEF Return, Sending
<1>2. /\ run.id \in TaskId /\ run.pc \in Later(run.id) /\ run # Nobody /\ enabled \in [Device -> BOOLEAN]
  BY <1>1, Loops DEF Sending, TInv, TypeOK
<1>3. run.pc \in {"stop", "done"} => \E e \in Device : run.id = CliOf(e) /\ run.id[2] = e
  BY <1>2, Ids, Pcs
<1>4. CASE run' # Nobody
  <2>1. /\ run'.id = run.id /\ run'.cancelled = run.cancelled /\ UNCHANGED <<enabled, task>>
    BY <1>4, ReturnTasks
  <2>2. \A d \in Device, n \in Net : HasTimer(d, n)' /\ Fresh(d, n)'
    BY <1>1, <1>2, <1>4, <2>1, Timers DEF HasTimer, Fresh
  <2>3. LoopsLive'
    BY <2>1, Timers DEF LoopsLive
  <2>4. QED
    BY <2>2, <2>3, TimersNext
<1>5. CASE run' = Nobody /\ run.pc \in {"stop", "done"}
  <2>1. PICK e \in Device : run.id = CliOf(e) /\ run.id[2] = e
    BY <1>3, <1>5
  <2>2. \A d \in Device : enabled'[d] => enabled[d] /\ (run.pc = "stop" => d # e)
    BY <1>2, <1>5, <2>1, ReturnTasks
  <2>3. \A d \in Device : enabled'[d] => task'[LoopOf(d)] = task[LoopOf(d)]
    BY <2>1, <2>2, Ids, ReturnTasks
  <2>4. \A d \in Device, n \in Net : enabled'[d] => task'[ExpireOf(d, n)] = task[ExpireOf(d, n)]
    BY <2>1, <2>2, Ids, ReturnTasks
  <2>5. LoopsLive'
    BY <2>2, <2>3, Timers DEF LoopsLive
  <2>6. \A d \in Device, n \in Net : run.id # ExpireOf(d, n)
    BY <2>1, Ids
  <2>7. \A d \in Device, n \in Net : HasTimer(d, n)' /\ Fresh(d, n)'
    BY <1>1, <1>5, <2>2, <2>4, <2>6, Timers DEF HasTimer, Fresh
  <2>8. QED
    BY <2>5, <2>7, TimersNext
<1>6. CASE run' = Nobody /\ run.pc \notin {"stop", "done"}
  <2>1. UNCHANGED enabled
    BY <1>6, ReturnTasks
  <2>2. \A id \in TaskId : id # run.id \/ run.cancelled => task'[id] = task[id]
    BY <1>6, ReturnTasks
  <2>3. ~run.cancelled => task'[run.id] = Sleeping(run.pc)
    BY <1>6, ReturnTasks
  <2>4. Sleeping(run.pc) # NoTask /\ Sleeping(run.pc).pc = run.pc
    <3>1. run.pc \in Pc
      BY <1>1, Loops
    <3>2. QED
      BY <3>1, Sleepers DEF Sleeping
  <2>5. LoopsLive'
    BY <2>1, <2>2, <2>3, <2>4, Ids, Timers DEF LoopsLive
  <2>6. ASSUME NEW d \in Device, NEW n \in Net PROVE HasTimer(d, n)' /\ Fresh(d, n)'
    <3>1. HasTimer(d, n) /\ Fresh(d, n) /\ ExpireOf(d, n) \in TaskId
      BY Ids, Timers
    <3>2. CASE run.id # ExpireOf(d, n)
      <4>1. task'[ExpireOf(d, n)] = task[ExpireOf(d, n)]
        BY <2>2, <3>1, <3>2
      <4>2. QED
        BY <1>1, <1>6, <2>1, <3>1, <3>2, <4>1, KeptTimer
    <3>3. CASE run.id = ExpireOf(d, n) /\ run.cancelled
      <4>1. task'[ExpireOf(d, n)] = task[ExpireOf(d, n)]
        BY <2>2, <3>1, <3>3
      <4>2. QED
        BY <1>1, <1>2, <1>6, <2>1, <3>1, <3>3, <4>1 DEF HasTimer, Fresh
    <3>4. CASE run.id = ExpireOf(d, n) /\ ~run.cancelled
      <4>1. task'[ExpireOf(d, n)] # NoTask /\ task'[ExpireOf(d, n)].pc = "garbage"
        BY <1>2, <2>3, <2>4, <3>4, Pcs
      <4>2. QED
        BY <1>1, <1>2, <1>6, <2>1, <3>1, <3>4, <4>1 DEF HasTimer, Fresh
    <3>5. QED
      BY <3>2, <3>3, <3>4
  <2>7. QED
    BY <2>5, <2>6, TimersNext
<1>7. QED
  BY <1>4, <1>5, <1>6

-----------------------------------------------------------------------------
(* The theorems.                                                           *)

\* Before a cable moves, every step keeps the loops and the timers.
LEMMA TimersStep == ASSUME TInv, cablings = 0 => TimersInv, [Next]_vars PROVE cablings' = 0 => TimersInv'
<1> SUFFICES ASSUME cablings' = 0 PROVE TimersInv'
  OBVIOUS
\* A cable that moves ends the promise, and no loop breaks before.
<1>1. ~\E d \in Device : Cabling(d)
  BY DEF Cabling, TInv, TypeOK
<1>2. cablings = 0
  BY <1>1 DEF Next, Operator, Start, Stop, Shutdown, NoShutdown, Tick, SendRequest, Timeout,
              Garbage, Trigger, Deliver, Return, Crash, vars
<1>3. TimersInv
  BY <1>2
<1>4. ~Crash
  BY <1>2, Loops DEF Crash, Sending, GoodFrame
<1>5. CASE UNCHANGED vars
  BY <1>3, <1>5 DEF TimersInv, LoopsLive, RoutesHaveTimers, CancelledFresh, vars
<1>6. CASE Operator
  BY <1>1, <1>3, <1>6, StartTimers, OperatorTimers DEF Operator
<1>7. CASE Next /\ ~Operator
  BY <1>3, <1>4, <1>7, WakeTimers, TimeoutTimers, GarbageTimers, TriggerTimers, DeliverTimers, ReturnTimers
     DEF Next
<1>8. QED
  BY <1>5, <1>6, <1>7

\* The invariant holds initially.
LEMMA InitRInv == Init => RInv
<1> SUFFICES ASSUME Init PROVE RInv
  OBVIOUS
<1>1. TInv /\ OwnNetworks
  BY InitTInv DEF Init, OwnNetworks
<1>2. NoTwoRouterLoop
  BY RipAssumption DEF Init, NoTwoRouterLoop, NoRoute
<1>3. MetricAboveDistance
  BY DEF Init, MetricAboveDistance
<1>4. TimersInv
  BY DEF Init, TimersInv, LoopsLive, RoutesHaveTimers, CancelledFresh
<1>5. QED
  BY <1>1, <1>2, <1>3, <1>4 DEF RInv

\* Every step keeps it.
LEMMA NextRInv == RInv /\ [Next]_vars => RInv'
<1> SUFFICES ASSUME RInv, [Next]_vars PROVE RInv'
  OBVIOUS
<1>1. TInv /\ TInv'
  BY NextTInv DEF RInv
<1>2. RouteSteps /\ OwnNetworks' /\ \A d \in Device : networks[d] \subseteq networks'[d]
  BY Steps DEF RInv
<1>3. NoTwoRouterLoop'
  BY <1>2, NoLoopStep DEF RInv
<1>4. MetricAboveDistance'
  BY <1>2, DistanceStep DEF RInv
<1>5. cablings' = 0 => TimersInv'
  BY TimersStep DEF RInv
<1>6. QED
  BY <1>1, <1>2, <1>3, <1>4, <1>5 DEF RInv

\* It holds always.
LEMMA SpecRInv == Spec => []RInv
  BY InitRInv, NextRInv, PTL DEF Spec

\* Split horizon keeps neighbours from routing to each other: whatever is lost, timed
\* out, restarted or nested, two of them never close a loop over a network of neither.
THEOREM NoTwoRouterLoops == Spec => []NoTwoRouterLoop
<1>1. RInv => NoTwoRouterLoop
  BY DEF RInv
<1>2. QED
  BY <1>1, SpecRInv, PTL

\* Bellman-Ford never undercuts the network, over any topology.
THEOREM MetricsAboveDistance == Spec => []MetricAboveDistance
<1>1. RInv => MetricAboveDistance
  BY DEF RInv
<1>2. QED
  BY <1>1, SpecRInv, PTL

\* Before a cable moves, no router is ever without its update loop, nor cancels it.
THEOREM UpdatesStayPeriodic == Spec => []UpdatesArePeriodic
<1>1. RInv => UpdatesArePeriodic
  <2> SUFFICES ASSUME RInv, cablings = 0, NEW d \in Device, enabled[d]
               PROVE  /\ task[LoopOf(d)] # NoTask
                      /\ run # Nobody /\ run.id = LoopOf(d) => ~run.cancelled
    BY DEF UpdatesArePeriodic, UpdateLoopsLive
  <2>1. task[LoopOf(d)] # NoTask
    BY DEF RInv, TimersInv, LoopsLive
  <2>2. run # Nobody /\ run.id = LoopOf(d) => ~run.cancelled
    BY Ids DEF RInv, TInv, TasksGood, GoodRun
  <2>3. QED
    BY <2>1, <2>2
<1>2. QED
  BY <1>1, SpecRInv, PTL

\* Before a cable moves, every learned route of a running router has its expire coroutine,
\* in the stage that its metric calls for.
THEOREM RoutesExpire == Spec => []LearnedRoutesExpire
<1>1. RInv => LearnedRoutesExpire
  BY DEF RInv, TimersInv, LearnedRoutesExpire
<1>2. QED
  BY <1>1, SpecRInv, PTL
=============================================================================
