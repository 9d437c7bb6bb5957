---------------------------- MODULE EigrpProofs ----------------------------
(***************************************************************************)
(* Proofs about Eigrp: the type invariant, that every route a router holds *)
(* came from a router that is its neighbour now, and that every adjacency  *)
(* has its hold timer once the calls have returned.                        *)
(***************************************************************************)
EXTENDS Eigrp, TLAPS, SequenceTheorems, FiniteSetTheorems, WellFoundedInduction

USE EigrpAssumption

\* A loop over peers is a stack of at most one frame.
LEMMA LoopType ==
    ASSUME NEW op \in {"hello", "update", "answer", "arm", "table"},
           NEW d \in Router, NEW peers \in SUBSET Router
    PROVE  Loop(op, d, peers) \in Seq(Frame)
<1>1. [op |-> op, by |-> d, to |-> peers] \in Frame
  BY DEF Frame
<1>2. <<[op |-> op, by |-> d, to |-> peers]>> \in Seq(Frame)
  BY <1>1
<1>3. <<>> \in Seq(Frame)
  OBVIOUS
<1>. QED
  BY <1>2, <1>3 DEF Loop

\* What is left of the stack when the innermost loop has dealt with p.
LEMMA RestType ==
    ASSUME TypeOK, ~Idle, NEW p \in Router
    PROVE  Rest(p) \in Seq(Frame)
<1>1. calls \in Seq(Frame) /\ calls # <<>>
  BY DEF TypeOK, Idle
<1>2. Head(calls) \in Frame /\ Tail(calls) \in Seq(Frame)
  BY <1>1
<1>3. /\ Top.op \in {"hello", "update", "answer", "arm", "table"}
      /\ Top.by \in Router /\ Top.to \ {p} \in SUBSET Router
  BY <1>2 DEF Top, Frame
<1>4. Loop(Top.op, Top.by, Top.to \ {p}) \in Seq(Frame)
  BY <1>3, LoopType
<1>. QED
  BY <1>2, <1>4 DEF Rest

\* Flushing a table keeps its shape and leaves no route over the peers.
LEMMA FlushedType ==
    ASSUME NEW table \in [Network -> Route], NEW peers
    PROVE  Flushed(table, peers) \in [Network -> Route]
  BY DEF Flushed, Unknown, Route

\* The part of the type invariant that an adjacency going down disturbs.
TablesTyped ==
    /\ nbr \in [Router -> SUBSET Router]
    /\ hold \in [Router -> SUBSET Router]
    /\ topo \in [Router -> [Network -> Route]]

LEMMA DownType ==
    ASSUME TypeOK, NEW d \in Router, NEW peers \in SUBSET Router, NEW back \in SUBSET Router,
           Down(d, peers, back)
    PROVE  TablesTyped'
<1>1. nbr' \in [Router -> SUBSET Router] /\ hold' \in [Router -> SUBSET Router]
  BY DEF TypeOK, Down
<1>2. topo' \in [Router -> [Network -> Route]]
  BY FlushedType DEF TypeOK, Down
<1>. QED
  BY <1>1, <1>2 DEF TablesTyped

\* A router that loses neighbours loses exactly the routes over them.
LEMMA DownKeepsRoutes ==
    ASSUME TypeOK, RoutesHaveNeighbors,
           NEW d \in Router, NEW peers \in SUBSET Router, NEW back \in SUBSET Router,
           Down(d, peers, back), UNCHANGED enabled
    PROVE  RoutesHaveNeighbors'
<1>. SUFFICES ASSUME NEW r \in Router
              PROVE /\ \A n \in Network : topo'[r][n].via \in nbr'[r] \cup {r, NoOne}
                    /\ ~enabled[r] => nbr'[r] = {} /\ \A n \in Network : topo'[r][n] = Unknown
  BY DEF RoutesHaveNeighbors
<1>. DEFINE lost == IF r = d THEN peers ELSE IF r \in back THEN {d} ELSE {}
<1>1. nbr'[r] = nbr[r] \ lost
  BY DEF Down, TypeOK
<1>2. \A n \in Network : topo'[r][n] = IF topo[r][n].via \in lost THEN Unknown ELSE topo[r][n]
  BY DEF Down, TypeOK, Flushed
<1>3. /\ \A n \in Network : topo[r][n].via \in nbr[r] \cup {r, NoOne}
      /\ ~enabled[r] => nbr[r] = {} /\ \A n \in Network : topo[r][n] = Unknown
  BY DEF RoutesHaveNeighbors
<1>. HIDE DEF lost
<1>. QED
  BY <1>1, <1>2, <1>3 DEF Unknown

-----------------------------------------------------------------------------

\* Every action keeps the shape of the state.
LEMMA EigrpTypeInit == Init => TypeOK
<1>. SUFFICES ASSUME Init PROVE TypeOK
  OBVIOUS
<1>1. Unknown \in Route
  BY DEF Unknown, Route
<1>2. (CHOOSE a \in AS : TRUE) \in AS /\ (CHOOSE k \in K : TRUE) \in K
  OBVIOUS
<1>. QED
  BY <1>1, <1>2 DEF Init, TypeOK

LEMMA EigrpTypeCall ==
    ASSUME TypeOK, NEW d \in Router, NEW p \in Router, Call(d, p)
    PROVE  TypeOK'
<1>. USE DEF TypeOK, config, tasks
<1>1. CASE HelloIgnored(d, p)
  BY <1>1, RestType DEF HelloIgnored, Runs
<1>2. CASE HelloKnown(d, p)
  BY <1>2, RestType DEF HelloKnown, Runs
<1>3. CASE NeighborUp(d, p)
  <2>1. calls' \in Seq(Frame)
    BY <1>3, RestType, LoopType DEF NeighborUp, Runs
  <2>. QED
    BY <1>3, <2>1 DEF NeighborUp
<1>4. CASE Answer(d, p)
  <2>1. calls' \in Seq(Frame)
    BY <1>4, RestType, LoopType DEF Answer, Runs
  <2>. QED
    BY <1>4, <2>1 DEF Answer
<1>5. CASE Arm(d, p)
  BY <1>5, RestType DEF Arm, Runs
<1>6. CASE Update(d, p)
  <2>. DEFINE news == IF Hears(p, d) THEN Learned(p, d) ELSE {}
  <2>1. calls' \in Seq(Frame)
    BY <1>6, RestType, LoopType DEF Update, Runs
  <2>2. \A n \in Network : Heard(d, n) \in Route
    BY DEF Heard, Route
  <2>3. topo' = [topo EXCEPT ![p] = [n \in Network |-> IF n \in news THEN Heard(d, n) ELSE @[n]]]
    BY <1>6 DEF Update
  <2>. HIDE DEF news
  <2>4. topo' \in [Router -> [Network -> Route]]
    BY <2>2, <2>3
  <2>. QED
    BY <1>6, <2>1, <2>4 DEF Update
<1>7. CASE Table(d)
  <2>1. calls' \in Seq(Frame)
    BY <1>7, RestType, LoopType DEF Table, Runs
  <2>. QED
    BY <1>7, <2>1 DEF Table
<1>. QED
  BY <1>1, <1>2, <1>3, <1>4, <1>5, <1>6, <1>7 DEF Call

LEMMA EigrpTypeBackground ==
    ASSUME TypeOK, NEW d \in Router,
           \/ HelloLoop(d) \/ Announce(d) \/ ResetNeighbors(d)
           \/ \E p \in Router : HoldTimer(d, p)
    PROVE  TypeOK'
<1>. USE DEF TypeOK, config, tasks
<1>0. Reachable(d) \in SUBSET Router
  BY DEF Reachable, Linked
<1>1. CASE HelloLoop(d)
  BY <1>0, <1>1, LoopType DEF HelloLoop
<1>2. CASE Announce(d)
  <2>1. calls' \in Seq(Frame)
    BY <1>0, <1>2, LoopType DEF Announce
  <2>2. starting' \in [Router -> Nat]
    BY <1>2 DEF Announce
  <2>. QED
    BY <1>2, <2>1, <2>2 DEF Announce
<1>3. CASE ResetNeighbors(d)
  <2>1. {p \in nbr[d] : d \in nbr[p]} \in SUBSET Router /\ nbr[d] \in SUBSET Router
    OBVIOUS
  <2>2. TablesTyped'
    <3>1. Down(d, nbr[d], {p \in nbr[d] : d \in nbr[p]})
      BY <1>3 DEF ResetNeighbors
    <3>. QED
      BY <2>1, <3>1, DownType
  <2>3. UNCHANGED <<enabled, asn, kval, nets, passive, shut, cable, starting, commands, calls>>
    BY <1>3 DEF ResetNeighbors
  <2>4. resetting' \subseteq Router
    BY <1>3 DEF ResetNeighbors
  <2>. QED
    BY <2>2, <2>3, <2>4 DEF TablesTyped
<1>4. CASE \E p \in Router : HoldTimer(d, p)
  <2>1. PICK p \in Router : HoldTimer(d, p)
    BY <1>4
  <2>2. TablesTyped'
    <3>1. Down(d, {p}, {}) /\ {p} \in SUBSET Router /\ {} \in SUBSET Router
      BY <2>1 DEF HoldTimer
    <3>. HIDE DEF TypeOK
    <3>. QED
      BY <3>1, DownType
  <2>3. UNCHANGED <<enabled, asn, kval, nets, passive, shut, cable, starting, resetting, commands, calls>>
    BY <2>1 DEF HoldTimer
  <2>. QED
    BY <2>2, <2>3 DEF TablesTyped
<1>. QED
  BY <1>1, <1>2, <1>3, <1>4

LEMMA EigrpTypeCommand == TypeOK /\ Command => TypeOK'
<1>. SUFFICES ASSUME TypeOK, NEW d \in Router,
                     \/ \E a \in AS, n \in Network : Start(d, a, n)
                     \/ Stop(d)
                     \/ \E k \in K : SetKValues(d, k)
                     \/ \E p \in Router : \/ SetPassive(d, p) \/ Shutdown(d, p)
                                          \/ NoShutdown(d, p) \/ PlugIn(d, p) \/ PullOut(d, p)
              PROVE  TypeOK'
  BY DEF Command
<1>0. ASSUME NEW kind, Commanded(kind) PROVE commands' \in 0 .. MaxCommands
  BY <1>0 DEF Commanded, TypeOK
<1>1. ASSUME NEW a \in AS, NEW n \in Network, Start(d, a, n) PROVE TypeOK'
  <2>1. topo' \in [Router -> [Network -> Route]]
    BY <1>1 DEF Start, Connected, Route, TypeOK
  <2>2. starting' \in [Router -> Nat]
    BY <1>1 DEF Start, TypeOK
  <2>3. commands' \in 0 .. MaxCommands
    BY <1>0, <1>1 DEF Start
  <2>4. /\ enabled' = [enabled EXCEPT ![d] = TRUE]
        /\ asn' = [asn EXCEPT ![d] = a]
        /\ nets' = [nets EXCEPT ![d] = @ \cup {n}]
        /\ UNCHANGED <<kval, passive, shut, cable, resetting, nbr, hold, calls>>
    BY <1>1 DEF Start
  <2>. QED
    BY <2>1, <2>2, <2>3, <2>4 DEF TypeOK
<1>2. CASE Stop(d)
  <2>1. topo' \in [Router -> [Network -> Route]]
    BY <1>2 DEF Stop, Unknown, Route, TypeOK
  <2>2. commands' \in 0 .. MaxCommands
    BY <1>0, <1>2 DEF Stop
  <2>. QED
    BY <1>2, <2>1, <2>2 DEF Stop, TypeOK
<1>3. ASSUME NEW k \in K, SetKValues(d, k) PROVE TypeOK'
  <2>1. commands' \in 0 .. MaxCommands
    BY <1>0, <1>3 DEF SetKValues
  <2>. QED
    BY <1>3, <2>1 DEF SetKValues, TypeOK
<1>4. ASSUME NEW p \in Router, SetPassive(d, p) PROVE TypeOK'
  <2>1. commands' \in 0 .. MaxCommands
    BY <1>0, <1>4 DEF SetPassive
  <2>. QED
    BY <1>4, <2>1 DEF SetPassive, TypeOK
<1>5. ASSUME NEW p \in Router, Shutdown(d, p) PROVE TypeOK'
  <2>1. commands' \in 0 .. MaxCommands
    BY <1>0, <1>5 DEF Shutdown
  <2>2. TablesTyped'
    <3>1. CASE enabled[d]
      <4>1. Down(d, {p}, {p})
        BY <1>5, <3>1 DEF Shutdown
      <4>. QED
        BY <4>1, DownType
    <3>2. CASE ~enabled[d]
      BY <1>5, <3>2 DEF Shutdown, TypeOK, TablesTyped
    <3>. QED
      BY <3>1, <3>2
  <2>3. /\ UNCHANGED <<enabled, asn, kval, nets, passive, cable, starting, resetting, calls>>
        /\ shut' = [shut EXCEPT ![d] = @ \cup {p}]
    BY <1>5 DEF Shutdown
  <2>. QED
    BY <2>1, <2>2, <2>3 DEF TypeOK, TablesTyped
<1>6. ASSUME NEW p \in Router, NoShutdown(d, p) PROVE TypeOK'
  <2>1. commands' \in 0 .. MaxCommands
    BY <1>0, <1>6 DEF NoShutdown
  <2>2. calls' \in Seq(Frame)
    BY <1>6, LoopType DEF NoShutdown
  <2>. QED
    BY <1>6, <2>1, <2>2 DEF NoShutdown, TypeOK
<1>7. ASSUME NEW p \in Router, PlugIn(d, p) \/ PullOut(d, p) PROVE TypeOK'
  <2>1. commands' \in 0 .. MaxCommands
    BY <1>0, <1>7 DEF PlugIn, PullOut
  <2>2. cable' \subseteq SUBSET Router
    <3>1. CASE PlugIn(d, p)
      <4>1. cable' = cable \cup {{d, p}} /\ {d, p} \in SUBSET Router
        BY <3>1 DEF PlugIn
      <4>. QED
        BY <4>1 DEF TypeOK
    <3>2. CASE PullOut(d, p)
      BY <3>2 DEF PullOut, TypeOK
    <3>. QED
      BY <1>7, <3>1, <3>2
  <2>. QED
    BY <1>7, <2>1, <2>2 DEF PlugIn, PullOut, TypeOK
<1>. QED
  BY <1>1, <1>2, <1>3, <1>4, <1>5, <1>6, <1>7

LEMMA EigrpTypeStep == TypeOK /\ [Next]_vars => TypeOK'
<1>1. ASSUME TypeOK, Next PROVE TypeOK'
  BY <1>1, EigrpTypeCall, EigrpTypeBackground, EigrpTypeCommand DEF Next, Background
<1>2. ASSUME TypeOK, UNCHANGED vars PROVE TypeOK'
  BY <1>2 DEF vars, config, tasks, TypeOK
<1>. QED
  BY <1>1, <1>2

\* The state keeps the shape the engine gives it.
THEOREM EigrpTypeCorrect == Spec => []TypeOK
  BY EigrpTypeInit, EigrpTypeStep, PTL DEF Spec

-----------------------------------------------------------------------------

\* Every step keeps the routes with their neighbours.
LEMMA EigrpRoutesStep ==
    TypeOK /\ RoutesHaveNeighbors /\ [Next]_vars => RoutesHaveNeighbors'
<1>. SUFFICES ASSUME TypeOK, RoutesHaveNeighbors, [Next]_vars PROVE RoutesHaveNeighbors'
  OBVIOUS
<1>1. ASSUME UNCHANGED <<topo, nbr, enabled>> PROVE RoutesHaveNeighbors'
  BY <1>1 DEF RoutesHaveNeighbors
<1>2. ASSUME NEW d \in Router, NEW p \in Router, Call(d, p) PROVE RoutesHaveNeighbors'
  <2>1. CASE HelloIgnored(d, p) \/ HelloKnown(d, p) \/ Answer(d, p) \/ Arm(d, p) \/ Table(d)
    BY <1>1, <2>1 DEF HelloIgnored, HelloKnown, Answer, Arm, Table, config
  <2>2. CASE NeighborUp(d, p)
    <3>1. /\ UNCHANGED <<topo, enabled>> /\ enabled[p]
          /\ nbr' = [nbr EXCEPT ![p] = @ \cup {d}]
      BY <2>2 DEF NeighborUp, Matches, config
    <3>. QED
      BY <3>1 DEF RoutesHaveNeighbors, TypeOK
  <2>3. CASE Update(d, p)
    <3>. DEFINE news == IF Hears(p, d) THEN Learned(p, d) ELSE {}
    <3>1. /\ UNCHANGED <<nbr, enabled>>
          /\ topo' = [topo EXCEPT ![p] =
                        [n \in Network |-> IF n \in news THEN Heard(d, n) ELSE @[n]]]
      BY <2>3 DEF Update, config
    <3>2. news # {} => d \in nbr[p] /\ enabled[p]
      BY DEF Hears
    <3>3. \A n : Heard(d, n).via = d
      BY DEF Heard
    <3>. HIDE DEF news
    <3>. QED
      BY <3>1, <3>2, <3>3 DEF RoutesHaveNeighbors, TypeOK
  <2>. QED
    BY <1>2, <2>1, <2>2, <2>3 DEF Call
<1>3. ASSUME NEW d \in Router, HelloLoop(d) \/ Announce(d) PROVE RoutesHaveNeighbors'
  BY <1>1, <1>3 DEF HelloLoop, Announce, config
<1>4. ASSUME NEW d \in Router, ResetNeighbors(d) PROVE RoutesHaveNeighbors'
  <2>1. /\ Down(d, nbr[d], {p \in nbr[d] : d \in nbr[p]})
        /\ UNCHANGED enabled
    BY <1>4 DEF ResetNeighbors, config
  <2>2. {p \in nbr[d] : d \in nbr[p]} \in SUBSET Router /\ nbr[d] \in SUBSET Router
    BY DEF TypeOK
  <2>. QED
    BY <2>1, <2>2, DownKeepsRoutes
<1>5. ASSUME NEW d \in Router, NEW p \in Router, HoldTimer(d, p) PROVE RoutesHaveNeighbors'
  <2>1. Down(d, {p}, {}) /\ UNCHANGED enabled
    BY <1>5 DEF HoldTimer, config
  <2>. QED
    BY <2>1, DownKeepsRoutes
<1>6. ASSUME NEW d \in Router, NEW a \in AS, NEW n \in Network, Start(d, a, n)
      PROVE RoutesHaveNeighbors'
  <2>1. /\ UNCHANGED nbr
        /\ enabled' = [enabled EXCEPT ![d] = TRUE]
        /\ topo' = [topo EXCEPT ![d] = Connected(d, @, nets'[d])]
    BY <1>6 DEF Start
  <2>2. \A m \in Network : topo'[d][m] = topo[d][m] \/ topo'[d][m].via = d
    BY <2>1 DEF Connected, TypeOK
  <2>. QED
    BY <2>1, <2>2 DEF RoutesHaveNeighbors, TypeOK
<1>7. ASSUME NEW d \in Router, Stop(d) PROVE RoutesHaveNeighbors'
  BY <1>7 DEF Stop, RoutesHaveNeighbors, TypeOK, Unknown
<1>8. ASSUME NEW d \in Router, NEW p \in Router, Shutdown(d, p) PROVE RoutesHaveNeighbors'
  <2>1. CASE enabled[d]
    <3>1. Down(d, {p}, {p}) /\ UNCHANGED enabled
      BY <1>8, <2>1 DEF Shutdown
    <3>. QED
      BY <3>1, DownKeepsRoutes
  <2>2. CASE ~enabled[d]
    BY <1>1, <1>8, <2>2 DEF Shutdown
  <2>. QED
    BY <2>1, <2>2
<1>9. ASSUME NEW d \in Router, NEW p \in Router, NEW k \in K,
             \/ SetKValues(d, k) \/ SetPassive(d, p) \/ NoShutdown(d, p)
             \/ PlugIn(d, p) \/ PullOut(d, p)
      PROVE RoutesHaveNeighbors'
  BY <1>1, <1>9 DEF SetKValues, SetPassive, NoShutdown, PlugIn, PullOut
<1>10. CASE UNCHANGED vars
  BY <1>1, <1>10 DEF vars, config
<1>11. K # {}
  OBVIOUS
<1>. QED
  BY <1>2, <1>3, <1>4, <1>5, <1>6, <1>7, <1>8, <1>9, <1>10, <1>11
     DEF Next, Command, Background

\* A route dies with the adjacency it came over.
THEOREM EigrpRoutesHaveNeighbors == Spec => []RoutesHaveNeighbors
<1>1. Init => RoutesHaveNeighbors
  BY DEF Init, RoutesHaveNeighbors, Unknown
<1>. QED
  BY <1>1, EigrpTypeInit, EigrpTypeStep, EigrpRoutesStep, PTL DEF Spec

-----------------------------------------------------------------------------
(* Adjacencies and their hold timers.  A new neighbour has no timer until   *)
(* the calls its hello started have returned, so the invariant speaks of    *)
(* what is on the stack.                                                    *)

\* A loop on the stack still has to do op for d towards p.
Pending(stack, op, d, p) ==
    \E i \in 1 .. Len(stack) : stack[i].op = op /\ stack[i].by = d /\ p \in stack[i].to

\* A loop has to do what it was started for.
LEMMA PendingLoop ==
    ASSUME NEW op, NEW d, NEW peers, NEW o, NEW r, NEW p
    PROVE  Pending(Loop(op, d, peers), o, r, p) <=> o = op /\ r = d /\ p \in peers
<1>1. CASE peers = {}
  BY <1>1 DEF Pending, Loop
<1>2. CASE peers # {}
  <2>1. Loop(op, d, peers) = <<[op |-> op, by |-> d, to |-> peers]>>
    BY <1>2 DEF Loop
  <2>2. QED
    BY <2>1 DEF Pending
<1>3. QED
  BY <1>1, <1>2

\* A loop pushed on a stack adds to what the stack has to do.
LEMMA PendingConcat ==
    ASSUME NEW s \in Seq(Frame), NEW t \in Seq(Frame), NEW o, NEW r, NEW p
    PROVE  Pending(s \o t, o, r, p) <=> Pending(s, o, r, p) \/ Pending(t, o, r, p)
<1>1. Len(s \o t) = Len(s) + Len(t) /\ Len(s) \in Nat /\ Len(t) \in Nat
  OBVIOUS
<1>2. \A i \in 1 .. Len(s) : i \in 1 .. Len(s \o t) /\ (s \o t)[i] = s[i]
  BY <1>1
<1>3. \A i \in 1 .. Len(t) : Len(s) + i \in 1 .. Len(s \o t) /\ (s \o t)[Len(s) + i] = t[i]
  BY <1>1
<1>4. \A i \in 1 .. Len(s \o t) : i \in 1 .. Len(s) \/ \E j \in 1 .. Len(t) : i = Len(s) + j
  <2>1. SUFFICES ASSUME NEW i \in 1 .. Len(s \o t), i \notin 1 .. Len(s)
                 PROVE  \E j \in 1 .. Len(t) : i = Len(s) + j
    OBVIOUS
  <2>2. i - Len(s) \in 1 .. Len(t) /\ i = Len(s) + (i - Len(s))
    BY <1>1, <2>1
  <2>3. QED
    BY <2>2
<1> DEFINE st == s \o t
<1> HIDE DEF st
<1>5. \A i \in 1 .. Len(s) : i \in 1 .. Len(st) /\ st[i] = s[i]
  BY <1>2 DEF st
<1>6. \A i \in 1 .. Len(t) : Len(s) + i \in 1 .. Len(st) /\ st[Len(s) + i] = t[i]
  BY <1>3 DEF st
<1>7. \A i \in 1 .. Len(st) : i \in 1 .. Len(s) \/ \E j \in 1 .. Len(t) : i = Len(s) + j
  BY <1>4 DEF st
<1>8. Pending(s, o, r, p) => Pending(st, o, r, p)
  BY <1>5 DEF Pending
<1>9. Pending(t, o, r, p) => Pending(st, o, r, p)
  <2>1. SUFFICES ASSUME NEW i \in 1 .. Len(t), t[i].op = o, t[i].by = r, p \in t[i].to
                 PROVE  Pending(st, o, r, p)
    BY DEF Pending
  <2>2. Len(s) + i \in 1 .. Len(st) /\ st[Len(s) + i] = t[i]
    BY <1>6
  <2>3. QED
    BY <2>1, <2>2 DEF Pending
<1>10. Pending(st, o, r, p) => Pending(s, o, r, p) \/ Pending(t, o, r, p)
  <2>1. SUFFICES ASSUME NEW i \in 1 .. Len(st), st[i].op = o, st[i].by = r, p \in st[i].to
                 PROVE  Pending(s, o, r, p) \/ Pending(t, o, r, p)
    BY DEF Pending
  <2>2. CASE i \in 1 .. Len(s)
    BY <1>5, <2>1, <2>2 DEF Pending
  <2>3. CASE \E j \in 1 .. Len(t) : i = Len(s) + j
    <3>1. PICK j \in 1 .. Len(t) : i = Len(s) + j
      BY <2>3
    <3>2. st[i] = t[j]
      BY <1>6, <3>1
    <3>3. QED
      BY <2>1, <3>2 DEF Pending
  <2>4. QED
    BY <1>7, <2>2, <2>3
<1>11. QED
  BY <1>8, <1>9, <1>10 DEF st

\* A step of the innermost loop leaves everything to be done but that step.
LEMMA PendingRest ==
    ASSUME TypeOK, ~Idle, NEW p \in Router, NEW o, NEW r, NEW x
    PROVE  /\ Pending(Rest(p), o, r, x) => Pending(calls, o, r, x)
           /\ Pending(calls, o, r, x) =>
                 \/ Pending(Rest(p), o, r, x)
                 \/ o = Top.op /\ r = Top.by /\ x = p
<1>1. calls \in Seq(Frame) /\ calls # <<>>
  BY DEF TypeOK, Idle
<1>2. Top \in Frame /\ Tail(calls) \in Seq(Frame) /\ <<Top>> \in Seq(Frame) /\ calls = <<Top>> \o Tail(calls)
  BY <1>1, HeadTailProperties DEF Top
<1>3. Loop(Top.op, Top.by, Top.to \ {p}) \in Seq(Frame)
  BY <1>2, LoopType DEF Frame
<1>4. Pending(<<Top>>, o, r, x) <=> o = Top.op /\ r = Top.by /\ x \in Top.to
  BY DEF Pending
<1>5. Pending(Rest(p), o, r, x) <=>
          \/ o = Top.op /\ r = Top.by /\ x \in Top.to \ {p}
          \/ Pending(Tail(calls), o, r, x)
  <2> DEFINE loop == Loop(Top.op, Top.by, Top.to \ {p})
  <2>1. Pending(loop, o, r, x) <=> o = Top.op /\ r = Top.by /\ x \in Top.to \ {p}
    BY PendingLoop
  <2>2. loop \in Seq(Frame) /\ Rest(p) = loop \o Tail(calls)
    BY <1>3 DEF Rest
  <2> HIDE DEF loop
  <2>3. Pending(loop \o Tail(calls), o, r, x) <=>
            Pending(loop, o, r, x) \/ Pending(Tail(calls), o, r, x)
    BY <1>2, <2>2, PendingConcat
  <2>4. QED
    BY <2>1, <2>2, <2>3
<1>6. Pending(calls, o, r, x) <=> Pending(<<Top>>, o, r, x) \/ Pending(Tail(calls), o, r, x)
  <2>1. Pending(<<Top>> \o Tail(calls), o, r, x) <=>
            Pending(<<Top>>, o, r, x) \/ Pending(Tail(calls), o, r, x)
    BY <1>2, PendingConcat
  <2>2. calls = <<Top>> \o Tail(calls)
    BY <1>2
  <2>3. QED
    BY <2>1, <2>2, Zenon
<1>7. QED
  BY <1>4, <1>5, <1>6

\* A timer that runs or is about to be started belongs to a neighbour, and
\* every neighbour has one or the other.
TimersFollow ==
    \A d, p \in Router :
        /\ p \in hold[d] => p \in nbr[d]
        /\ Pending(calls, "arm", d, p) => p \in nbr[d]
        /\ p \in nbr[d] => p \in hold[d] \/ Pending(calls, "arm", d, p)

\* When no call is in progress, TimersFollow is NeighborsExpire.
LEMMA IdleTimers ==
    ASSUME TypeOK, Idle
    PROVE  TimersFollow <=> hold = nbr
<1>1. \A d, p \in Router : ~Pending(calls, "arm", d, p)
  BY DEF Idle, Pending
<1>2. hold \in [Router -> SUBSET Router] /\ nbr \in [Router -> SUBSET Router]
  BY DEF TypeOK
<1>3. ASSUME TimersFollow PROVE hold = nbr
  <2>1. ASSUME NEW d \in Router PROVE hold[d] = nbr[d]
    <3>1. hold[d] \subseteq Router /\ nbr[d] \subseteq Router
      BY <1>2
    <3>2. \A p \in Router : p \in hold[d] <=> p \in nbr[d]
      BY <1>1, <1>3 DEF TimersFollow
    <3>3. QED
      BY <3>1, <3>2
  <2>2. QED
    BY <1>2, <2>1
<1>4. ASSUME hold = nbr PROVE TimersFollow
  BY <1>1, <1>4 DEF TimersFollow
<1>5. QED
  BY <1>3, <1>4

\* A call keeps them together: nobody loses a neighbour while calls are in
\* progress.
LEMMA TimersCall ==
    ASSUME TypeOK, TimersFollow, NEW d \in Router, NEW p \in Router, Call(d, p)
    PROVE  TimersFollow'
<1>1. nbr \in [Router -> SUBSET Router] /\ hold \in [Router -> SUBSET Router]
  BY DEF TypeOK
<1>2. ~Idle
  BY DEF Call, HelloIgnored, HelloKnown, NeighborUp, Answer, Arm, Update, Table, Runs
<1>3. \A q \in Router : Rest(q) \in Seq(Frame)
  BY <1>2, RestType
\* A step that starts no timer and no adjacency, whatever else it calls.
<1>4. ASSUME NEW q \in Router, NEW op \in {"hello", "update"}, NEW r \in Router,
             NEW peers \in SUBSET Router,
             Top.op # "arm", calls' = Loop(op, r, peers) \o Rest(q) \/ calls' = Rest(q),
             UNCHANGED nbr,
             \A x \in Router : hold[x] \subseteq hold'[x] /\ hold'[x] \subseteq nbr[x]
      PROVE  TimersFollow'
  <2>1. \A x, y \in Router : Pending(calls', "arm", x, y) <=> Pending(Rest(q), "arm", x, y)
    <3>1. CASE calls' = Rest(q)
      BY <3>1
    <3>2. CASE calls' = Loop(op, r, peers) \o Rest(q)
      <4>1. Loop(op, r, peers) \in Seq(Frame)
        BY LoopType
      <4>2. \A x, y \in Router : ~Pending(Loop(op, r, peers), "arm", x, y)
        BY PendingLoop
      <4>3. QED
        BY <1>3, <3>2, <4>1, <4>2, PendingConcat
    <3>3. QED
      BY <1>4, <3>1, <3>2
  <2>2. \A x, y \in Router : Pending(Rest(q), "arm", x, y) <=> Pending(calls, "arm", x, y)
    BY <1>2, <1>4, PendingRest
  <2>3. QED
    BY <1>1, <1>4, <2>1, <2>2 DEF TimersFollow
<1>5. CASE HelloIgnored(d, p)
  <2>1. Top.op = "hello" /\ calls' = Rest(p) /\ UNCHANGED <<nbr, hold>>
    BY <1>5 DEF HelloIgnored, Runs
  <2>2. QED
    BY <1>1, <1>4, <2>1 DEF TimersFollow
<1>6. CASE HelloKnown(d, p)
  <2>1. /\ Top.op = "hello" /\ calls' = Rest(p) /\ UNCHANGED nbr
        /\ d \in nbr[p] /\ hold' = [hold EXCEPT ![p] = @ \cup {d}]
    BY <1>6 DEF HelloKnown, Runs
  <2>2. \A x \in Router : hold[x] \subseteq hold'[x] /\ hold'[x] \subseteq nbr[x]
    BY <1>1, <2>1 DEF TimersFollow
  <2>3. QED
    BY <1>4, <2>1, <2>2
<1>7. CASE NeighborUp(d, p)
  <2>1. /\ Top.op = "hello" /\ UNCHANGED hold
        /\ nbr' = [nbr EXCEPT ![p] = @ \cup {d}]
        /\ calls' = Loop("update", p, {d}) \o Loop("answer", p, {d})
                    \o Loop("arm", p, {d}) \o Rest(p)
    BY <1>7 DEF NeighborUp, Runs
  <2> DEFINE s1 == Loop("update", p, {d})
             s2 == Loop("answer", p, {d})
             s3 == Loop("arm", p, {d})
  <2>2. s1 \in Seq(Frame) /\ s2 \in Seq(Frame) /\ s3 \in Seq(Frame)
    BY LoopType
  <2>3. \A x, y \in Router :
            /\ ~Pending(s1, "arm", x, y) /\ ~Pending(s2, "arm", x, y)
            /\ Pending(s3, "arm", x, y) <=> x = p /\ y = d
    BY PendingLoop
  <2> HIDE DEF s1, s2, s3
  <2>4. s1 \o s2 \in Seq(Frame) /\ (s1 \o s2) \o s3 \in Seq(Frame)
    BY <2>2
  <2>5. calls' = ((s1 \o s2) \o s3) \o Rest(p)
    BY <2>1 DEF s1, s2, s3
  <2>6. ASSUME NEW x \in Router, NEW y \in Router
        PROVE  Pending(calls', "arm", x, y) <=> (x = p /\ y = d) \/ Pending(Rest(p), "arm", x, y)
    <3>1. ~Pending(s1 \o s2, "arm", x, y)
      BY <2>2, <2>3, PendingConcat
    <3>2. Pending((s1 \o s2) \o s3, "arm", x, y) <=> (x = p /\ y = d)
      BY <2>2, <2>3, <2>4, <3>1, PendingConcat
    <3>3. Pending(((s1 \o s2) \o s3) \o Rest(p), "arm", x, y) <=>
              Pending((s1 \o s2) \o s3, "arm", x, y) \/ Pending(Rest(p), "arm", x, y)
      BY <1>3, <2>4, PendingConcat
    <3>4. QED
      BY <2>5, <3>2, <3>3
  <2>7. \A x, y \in Router : Pending(Rest(p), "arm", x, y) <=> Pending(calls, "arm", x, y)
    BY <1>2, <2>1, PendingRest
  <2>8. \A x, y \in Router : y \in nbr'[x] <=> y \in nbr[x] \/ (x = p /\ y = d)
    BY <1>1, <2>1
  <2>9. QED
    BY <2>1, <2>6, <2>7, <2>8 DEF TimersFollow
<1>8. CASE Answer(d, p)
  <2>1. /\ Top.op = "answer" /\ UNCHANGED <<nbr, hold>>
        /\ calls' = Loop("hello", d, IF d \in nbr[p] THEN {} ELSE {p}) \o Rest(p)
    BY <1>8 DEF Answer, Runs
  <2>2. (IF d \in nbr[p] THEN {} ELSE {p}) \in SUBSET Router
    OBVIOUS
  <2>3. \A x \in Router : hold[x] \subseteq hold'[x] /\ hold'[x] \subseteq nbr[x]
    BY <1>1, <2>1 DEF TimersFollow
  <2>4. QED
    BY <1>4, <2>1, <2>2, <2>3
<1>9. CASE Arm(d, p)
  <2>1. /\ Top.op = "arm" /\ Top.by = d /\ p \in Top.to /\ UNCHANGED nbr
        /\ hold' = [hold EXCEPT ![d] = @ \cup {p}] /\ calls' = Rest(p)
    BY <1>9 DEF Arm, Runs
  <2>2. Pending(calls, "arm", d, p)
    <3>1. calls \in Seq(Frame) /\ calls # <<>>
      BY <1>2 DEF TypeOK, Idle
    <3>2. 1 \in 1 .. Len(calls) /\ calls[1] = Top
      BY <3>1 DEF Top
    <3>3. QED
      BY <2>1, <3>2 DEF Pending
  <2>3. p \in nbr[d]
    BY <2>2 DEF TimersFollow
  <2>4. \A x, y \in Router : y \in hold'[x] <=> y \in hold[x] \/ (x = d /\ y = p)
    BY <1>1, <2>1
  <2>5. \A x, y \in Router :
            /\ Pending(calls', "arm", x, y) => Pending(calls, "arm", x, y)
            /\ Pending(calls, "arm", x, y) => Pending(calls', "arm", x, y) \/ (x = d /\ y = p)
    BY <1>2, <2>1, PendingRest
  <2>6. QED
    BY <2>1, <2>3, <2>4, <2>5 DEF TimersFollow
<1>10. CASE Update(d, p)
  <2> DEFINE news == IF Hears(p, d) THEN Learned(p, d) ELSE {}
  <2>1. /\ Top.op = "update" /\ UNCHANGED <<nbr, hold>>
        /\ calls' = Loop("update", p, IF news = {} THEN {} ELSE nbr[p]) \o Rest(p)
    BY <1>10 DEF Update, Runs
  <2>2. (IF news = {} THEN {} ELSE nbr[p]) \in SUBSET Router
    BY <1>1
  <2>3. \A x \in Router : hold[x] \subseteq hold'[x] /\ hold'[x] \subseteq nbr[x]
    BY <1>1, <2>1 DEF TimersFollow
  <2> HIDE DEF news
  <2>4. QED
    BY <1>4, <2>1, <2>2, <2>3
<1>11. CASE Table(d)
  <2>1. /\ Top.op = "table" /\ UNCHANGED <<nbr, hold>>
        /\ calls' = Loop("update", d, nbr[d]) \o Rest(d)
    BY <1>11 DEF Table, Runs
  <2>2. nbr[d] \in SUBSET Router
    BY <1>1
  <2>3. \A x \in Router : hold[x] \subseteq hold'[x] /\ hold'[x] \subseteq nbr[x]
    BY <1>1, <2>1 DEF TimersFollow
  <2>4. QED
    BY <1>4, <2>1, <2>2, <2>3
<1>12. QED
  BY <1>5, <1>6, <1>7, <1>8, <1>9, <1>10, <1>11 DEF Call

\* An adjacency that goes down takes its timer with it, at either end.
LEMMA DownTimers ==
    ASSUME TypeOK, hold = nbr, NEW d \in Router, NEW peers, NEW back, Down(d, peers, back)
    PROVE  hold' = nbr'
  BY DEF Down

\* What the event loop and the operator start finds every neighbour with its
\* timer, and keeps it so.
LEMMA TimersOther ==
    ASSUME TypeOK, TypeOK', TimersFollow, NEW d \in Router, NEW p \in Router,
           \/ HelloLoop(d) \/ Announce(d) \/ ResetNeighbors(d) \/ HoldTimer(d, p)
           \/ \E a \in AS, n \in Network : Start(d, a, n)
           \/ Stop(d)
           \/ \E k \in K : SetKValues(d, k)
           \/ SetPassive(d, p) \/ Shutdown(d, p) \/ NoShutdown(d, p)
           \/ PlugIn(d, p) \/ PullOut(d, p)
    PROVE  TimersFollow'
<1>1. Idle
  BY DEF HelloLoop, Announce, ResetNeighbors, HoldTimer, Start, Stop, SetKValues, SetPassive,
         Shutdown, NoShutdown, PlugIn, PullOut, Commanded
<1>2. hold = nbr
  BY <1>1, IdleTimers
\* No loop that is started from outside starts a timer by itself.
<1>3. ASSUME \A x, y \in Router : ~Pending(calls', "arm", x, y), hold' = nbr'
      PROVE  TimersFollow'
  BY <1>3 DEF TimersFollow
<1>4. ASSUME UNCHANGED calls, hold' = nbr' PROVE TimersFollow'
  <2>1. \A x, y \in Router : ~Pending(calls', "arm", x, y)
    BY <1>1, <1>4 DEF Idle, Pending
  <2>2. QED
    BY <1>3, <1>4, <2>1
<1>5. Reachable(d) \in SUBSET Router
  BY DEF Reachable, Linked
<1>6. CASE HelloLoop(d)
  <2>1. calls' = Loop("hello", d, Reachable(d)) /\ UNCHANGED <<nbr, hold>>
    BY <1>6 DEF HelloLoop
  <2>2. \A x, y \in Router : ~Pending(calls', "arm", x, y)
    BY <2>1, PendingLoop
  <2>3. QED
    BY <1>2, <1>3, <2>1, <2>2
<1>7. CASE Announce(d)
  <2>1. /\ UNCHANGED <<nbr, hold>>
        /\ \/ calls' = Loop("hello", d, Reachable(d)) \o Loop("table", d, {d})
           \/ calls' = <<>>
    BY <1>7 DEF Announce
  <2>2. CASE calls' = Loop("hello", d, Reachable(d)) \o Loop("table", d, {d})
    <3>1. Loop("hello", d, Reachable(d)) \in Seq(Frame) /\ Loop("table", d, {d}) \in Seq(Frame)
      BY <1>5, LoopType
    <3>2. ASSUME NEW x \in Router, NEW y \in Router PROVE ~Pending(calls', "arm", x, y)
      <4>1. ~Pending(Loop("hello", d, Reachable(d)), "arm", x, y) /\ ~Pending(Loop("table", d, {d}), "arm", x, y)
        BY PendingLoop
      <4>2. ~Pending(Loop("hello", d, Reachable(d)) \o Loop("table", d, {d}), "arm", x, y)
        BY <3>1, <4>1, PendingConcat
      <4>3. QED
        BY <2>2, <4>2
    <3>3. QED
      BY <1>2, <1>3, <2>1, <3>2
  <2>3. CASE calls' = <<>>
    <3>1. \A x, y \in Router : ~Pending(calls', "arm", x, y)
      BY <2>3 DEF Pending
    <3>2. QED
      BY <1>2, <1>3, <2>1, <3>1
  <2>4. QED
    BY <2>1, <2>2, <2>3
<1>8. CASE ResetNeighbors(d)
  <2>1. Down(d, nbr[d], {q \in nbr[d] : d \in nbr[q]}) /\ UNCHANGED calls
    BY <1>8 DEF ResetNeighbors
  <2>2. hold' = nbr'
    BY <1>2, <2>1, DownTimers
  <2>3. QED
    BY <1>4, <2>1, <2>2
<1>9. CASE HoldTimer(d, p)
  <2>1. Down(d, {p}, {}) /\ UNCHANGED calls
    BY <1>9 DEF HoldTimer
  <2>2. hold' = nbr'
    BY <1>2, <2>1, DownTimers
  <2>3. QED
    BY <1>4, <2>1, <2>2
<1>10. CASE \/ \E a \in AS, n \in Network : Start(d, a, n)
            \/ \E k \in K : SetKValues(d, k)
            \/ SetPassive(d, p) \/ PlugIn(d, p) \/ PullOut(d, p)
  <2>1. UNCHANGED <<nbr, hold, calls>>
    BY <1>10 DEF Start, SetKValues, SetPassive, PlugIn, PullOut
  <2>2. QED
    BY <1>2, <1>4, <2>1
<1>11. CASE Stop(d)
  <2>1. UNCHANGED calls /\ hold' = nbr'
    BY <1>2, <1>11 DEF Stop
  <2>2. QED
    BY <1>4, <2>1
<1>12. CASE Shutdown(d, p)
  <2>1. UNCHANGED calls
    BY <1>12 DEF Shutdown
  <2>2. hold' = nbr'
    <3>1. CASE enabled[d]
      BY <1>2, <1>12, <3>1, DownTimers DEF Shutdown
    <3>2. CASE ~enabled[d]
      BY <1>2, <1>12, <3>2 DEF Shutdown
    <3>3. QED
      BY <3>1, <3>2
  <2>3. QED
    BY <1>4, <2>1, <2>2
<1>13. CASE NoShutdown(d, p)
  <2>1. /\ UNCHANGED <<nbr, hold>>
        /\ \/ calls' = Loop("hello", d, {p}) \o Loop("hello", p, {d})
           \/ calls' = <<>>
    BY <1>13 DEF NoShutdown
  <2>2. CASE calls' = Loop("hello", d, {p}) \o Loop("hello", p, {d})
    <3>1. Loop("hello", d, {p}) \in Seq(Frame) /\ Loop("hello", p, {d}) \in Seq(Frame)
      BY LoopType
    <3>2. ASSUME NEW x \in Router, NEW y \in Router PROVE ~Pending(calls', "arm", x, y)
      <4>1. ~Pending(Loop("hello", d, {p}), "arm", x, y) /\ ~Pending(Loop("hello", p, {d}), "arm", x, y)
        BY PendingLoop
      <4>2. ~Pending(Loop("hello", d, {p}) \o Loop("hello", p, {d}), "arm", x, y)
        BY <3>1, <4>1, PendingConcat
      <4>3. QED
        BY <2>2, <4>2
    <3>3. QED
      BY <1>2, <1>3, <2>1, <3>2
  <2>3. CASE calls' = <<>>
    <3>1. \A x, y \in Router : ~Pending(calls', "arm", x, y)
      BY <2>3 DEF Pending
    <3>2. QED
      BY <1>2, <1>3, <2>1, <3>1
  <2>4. QED
    BY <2>1, <2>2, <2>3
<1>14. QED
  BY <1>6, <1>7, <1>8, <1>9, <1>10, <1>11, <1>12, <1>13

\* Once the calls have returned, every adjacency has the hold timer that can
\* end it, however the calls nested, and no timer outlives its adjacency.
THEOREM EigrpNeighborsExpire == Spec => []NeighborsExpire
<1> DEFINE I == TypeOK /\ TimersFollow
<1>1. Init => I
  <2>1. Init => TimersFollow
    BY DEF Init, TimersFollow, Pending
  <2>2. QED
    BY <2>1, EigrpTypeInit
<1>2. I /\ [Next]_vars => I'
  <2>1. SUFFICES ASSUME TypeOK, TimersFollow, [Next]_vars PROVE TypeOK' /\ TimersFollow'
    OBVIOUS
  <2>2. TypeOK'
    BY <2>1, EigrpTypeStep
  <2>3. CASE UNCHANGED vars
    <3>1. TimersFollow'
      BY <2>1, <2>3 DEF vars, TimersFollow, Pending
    <3>2. QED
      BY <2>2, <3>1
  <2>4. CASE \E d, p \in Router : Call(d, p)
    BY <2>1, <2>2, <2>4, TimersCall
  <2>5. CASE \/ Command
            \/ \E d \in Router : \/ HelloLoop(d) \/ Announce(d) \/ ResetNeighbors(d)
                               \/ \E p \in Router : HoldTimer(d, p)
    <3>1. PICK d \in Router, p \in Router :
              \/ HelloLoop(d) \/ Announce(d) \/ ResetNeighbors(d) \/ HoldTimer(d, p)
              \/ \E a \in AS, n \in Network : Start(d, a, n)
              \/ Stop(d)
              \/ \E k \in K : SetKValues(d, k)
              \/ SetPassive(d, p) \/ Shutdown(d, p) \/ NoShutdown(d, p)
              \/ PlugIn(d, p) \/ PullOut(d, p)
      BY <2>5 DEF Command
    <3>2. QED
      BY <2>1, <2>2, <3>1, TimersOther
  <2>6. QED
    BY <2>1, <2>3, <2>4, <2>5 DEF Next, Background
<1>3. I => NeighborsExpire
  BY IdleTimers DEF NeighborsExpire
<1>4. QED
  BY <1>1, <1>2, <1>3, PTL DEF Spec

-----------------------------------------------------------------------------
(* Balls: the routers that at most so many cables away.  A recursion on     *)
(* numbers is reasoned about through the least number at which it fails.    *)

\* The least element that every nonempty set of naturals has.
LEMMA LeastNatural ==
    ASSUME NEW T \in SUBSET Nat, T # {}
    PROVE  \E x \in T : \A y \in T : x <= y
<1>. DEFINE R == OpToRel(<, Nat)
<1>1. IsWellFoundedOn(R, Nat)
  BY NatLessThanWellFounded
<1>2. \A x, y \in Nat : <<y, x>> \in R <=> y < x
  BY DEF OpToRel
<1>. HIDE DEF R
<1>3. PICK x \in T : \A y \in T : ~(<<y, x>> \in R)
  BY <1>1, WFMin
<1>4. ASSUME NEW y \in T PROVE x <= y
  <2>1. x \in Nat /\ y \in Nat /\ ~(<<y, x>> \in R)
    BY <1>3, <1>4
  <2>2. ~(y < x)
    BY <1>2, <2>1
  <2>. QED
    BY <2>1, <2>2
<1>. QED
  BY <1>4

\* f[j] is the ball of radius j around d, for the radii up to i.
Balls(d, i, f) == f = [j \in 0 .. i |-> IF j = 0 THEN {d} ELSE Around(f[j - 1])]

LEMMA BallsExist ==
    ASSUME NEW d, NEW i \in Nat
    PROVE  \E f : Balls(d, i, f)
<1>. DEFINE Bad == {n \in Nat : ~\E f : Balls(d, n, f)}
<1>1. SUFFICES ASSUME Bad # {} PROVE FALSE
  <2>1. i \notin Bad => \E f : Balls(d, i, f)
    OBVIOUS
  <2>. HIDE DEF Bad
  <2>. QED
    BY <2>1
<1>2. PICK m \in Bad : \A y \in Bad : m <= y
  BY <1>1, LeastNatural
<1>3. m # 0
  <2>1. Balls(d, 0, [j \in 0 .. 0 |-> {d}])
    BY DEF Balls
  <2>. QED
    BY <1>2, <2>1
<1>4. m - 1 \in Nat /\ m - 1 \notin Bad
  BY <1>2, <1>3
<1>5. PICK h : Balls(d, m - 1, h)
  BY <1>4
<1>. DEFINE f == [j \in 0 .. m |-> IF j = m THEN Around(h[m - 1]) ELSE h[j]]
<1>6. ASSUME NEW j \in 0 .. m PROVE f[j] = IF j = 0 THEN {d} ELSE Around(f[j - 1])
  <2>1. CASE j = 0
    BY <1>3, <1>4, <1>5, <2>1 DEF Balls
  <2>2. CASE j # 0 /\ j # m
    <3>1. j \in 0 .. m - 1 /\ j - 1 \in 0 .. m /\ j - 1 # m
      BY <1>4, <2>2
    <3>2. f[j] = h[j] /\ f[j - 1] = h[j - 1]
      BY <2>2, <3>1
    <3>3. h[j] = Around(h[j - 1])
      BY <1>5, <2>2, <3>1 DEF Balls
    <3>. QED
      BY <2>2, <3>2, <3>3
  <2>3. CASE j = m
    <3>1. j - 1 \in 0 .. m /\ j - 1 # m
      BY <1>3, <1>4, <2>3
    <3>2. f[j] = Around(h[m - 1]) /\ f[j - 1] = h[m - 1]
      BY <2>3, <3>1
    <3>. QED
      BY <1>3, <2>3, <3>2
  <2>. QED
    BY <2>1, <2>2, <2>3
<1>7. f = [j \in 0 .. m |-> IF j = 0 THEN {d} ELSE Around(f[j - 1])]
  BY <1>6
<1>8. Balls(d, m, f)
  BY <1>7 DEF Balls
<1>. QED
  BY <1>2, <1>8

\* The balls around a router are the same however far they are computed.
LEMMA BallsAgree ==
    ASSUME NEW d, NEW i \in Nat, NEW k \in Nat, NEW f, NEW g, Balls(d, i, f), Balls(d, k, g),
           NEW j \in 0 .. i, j \in 0 .. k
    PROVE  f[j] = g[j]
<1>. DEFINE Bad == {n \in Nat : n \in 0 .. i /\ n \in 0 .. k /\ f[n] # g[n]}
<1>1. SUFFICES ASSUME Bad # {} PROVE FALSE
  <2>1. j \notin Bad => f[j] = g[j]
    OBVIOUS
  <2>. HIDE DEF Bad
  <2>. QED
    BY <2>1
<1>2. PICK m \in Bad : \A y \in Bad : m <= y
  BY <1>1, LeastNatural
<1>3. m # 0
  BY <1>2 DEF Balls
<1>4. m - 1 \in Nat /\ m - 1 \notin Bad
  BY <1>2, <1>3
<1>5. f[m - 1] = g[m - 1]
  BY <1>2, <1>4
<1>6. f[m] = Around(f[m - 1]) /\ g[m] = Around(g[m - 1])
  BY <1>2, <1>3 DEF Balls
<1>. QED
  BY <1>2, <1>5, <1>6

\* What the recursion computes: a ball with a radius one larger is the ball
\* and all that a cable joins to it.
LEMMA BallStep ==
    ASSUME NEW d
    PROVE  /\ Ball(d, 0) = {d}
           /\ \A i \in Nat : Ball(d, i + 1) = Around(Ball(d, i))
<1>. DEFINE F(i) == CHOOSE f : Balls(d, i, f)
<1>1. \A i \in Nat : Balls(d, i, F(i))
  BY BallsExist
<1>2. \A i : Ball(d, i) = F(i)[i]
  BY DEF Ball, Balls
<1>. HIDE DEF F
<1>3. Ball(d, 0) = {d}
  BY <1>1, <1>2 DEF Balls
<1>4. ASSUME NEW i \in Nat PROVE Ball(d, i + 1) = Around(Ball(d, i))
  <2>1. i + 1 \in Nat /\ i \in 0 .. i /\ i \in 0 .. i + 1 /\ i + 1 \in 0 .. i + 1
    BY <1>4
  <2>2. Balls(d, i, F(i)) /\ Balls(d, i + 1, F(i + 1))
    BY <1>1, <2>1
  <2>3. F(i)[i] = F(i + 1)[i]
    BY <2>1, <2>2, BallsAgree
  <2>4. F(i + 1)[i + 1] = Around(F(i + 1)[i])
    BY <2>1, <2>2 DEF Balls
  <2>. QED
    BY <1>2, <2>1, <2>3, <2>4
<1>. QED
  BY <1>3, <1>4

\* A radius that is not zero.
LEMMA BallBefore ==
    ASSUME NEW d, NEW i \in Nat, i # 0
    PROVE  i - 1 \in Nat /\ Ball(d, i) = Around(Ball(d, i - 1))
<1>1. i - 1 \in Nat /\ (i - 1) + 1 = i
  OBVIOUS
<1>. QED
  BY <1>1, BallStep

\* Balls are sets of routers and grow with their radius.
LEMMA BallGrows ==
    ASSUME NEW d \in Router, NEW i \in Nat
    PROVE  /\ Ball(d, i) \subseteq Router
           /\ Ball(d, i) \subseteq Ball(d, i + 1)
           /\ d \in Ball(d, i)
<1>1. Ball(d, i) \subseteq Router
  <2>1. CASE i = 0
    BY <2>1, BallStep
  <2>2. CASE i # 0
    BY <2>2, BallBefore DEF Around
  <2>. QED
    BY <2>1, <2>2
<1>2. Ball(d, i) \subseteq Ball(d, i + 1)
  <2>1. Ball(d, i + 1) = Around(Ball(d, i))
    BY BallStep
  <2>. QED
    BY <1>1, <2>1 DEF Around
<1>. DEFINE Bad == {n \in Nat : d \notin Ball(d, n)}
<1>3. SUFFICES ASSUME Bad # {} PROVE FALSE
  <2>1. i \notin Bad => d \in Ball(d, i)
    OBVIOUS
  <2>. HIDE DEF Bad
  <2>. QED
    BY <1>1, <1>2, <2>1
<1>4. PICK m \in Bad : \A y \in Bad : m <= y
  BY <1>3, LeastNatural
<1>5. m # 0
  BY <1>4, BallStep
<1>6. m - 1 \in Nat /\ d \in Ball(d, m - 1)
  BY <1>4, <1>5
<1>7. Ball(d, m) = Around(Ball(d, m - 1))
  BY <1>4, <1>5, BallBefore
<1>. QED
  BY <1>4, <1>6, <1>7 DEF Around

\* A cable more reaches what its far end reaches.
LEMMA BallOverCable ==
    ASSUME NEW x \in Router, NEW y \in Router, {x, y} \in Wiring,
           NEW i \in Nat, NEW z, z \in Ball(y, i)
    PROVE  z \in Ball(x, i + 1)
<1>. DEFINE Bad == {n \in Nat : ~(Ball(y, n) \subseteq Ball(x, n + 1))}
<1>1. SUFFICES ASSUME Bad # {} PROVE FALSE
  <2>1. i \notin Bad => z \in Ball(x, i + 1)
    OBVIOUS
  <2>. HIDE DEF Bad
  <2>. QED
    BY <2>1
<1>2. PICK m \in Bad : \A n \in Bad : m <= n
  BY <1>1, LeastNatural
<1>3. m # 0
  <2>1. Ball(y, 0) = {y} /\ Ball(x, 0) = {x} /\ Ball(x, 0 + 1) = Around(Ball(x, 0))
    BY BallStep
  <2>2. {y, x} \in Wiring
    <3>1. {y, x} = {x, y}
      OBVIOUS
    <3>. QED
      BY <3>1
  <2>3. y \in Ball(x, 0 + 1)
    BY <2>1, <2>2 DEF Around
  <2>. QED
    BY <1>2, <2>1, <2>3
<1>4. m - 1 \in Nat /\ m - 1 \notin Bad
  BY <1>2, <1>3
<1>5. Ball(y, m - 1) \subseteq Ball(x, m)
  BY <1>2, <1>4
<1>6. Ball(y, m) = Around(Ball(y, m - 1)) /\ Ball(x, m + 1) = Around(Ball(x, m))
  BY <1>2, <1>3, BallBefore, BallStep
<1>7. Ball(y, m) \subseteq Ball(x, m + 1)
  BY <1>5, <1>6 DEF Around
<1>. QED
  BY <1>2, <1>7

\* Whoever is reached across a cable that divides the network is reached
\* from its far end, by a cable less.
LEMMA BallAcross ==
    ASSUME NEW d \in Router, NEW p \in Router, NEW S \in SUBSET Router, Divides(S, d, p),
           NEW x \in S, NEW i \in Nat, NEW y, y \notin S, y \in Ball(x, i)
    PROVE  i # 0 /\ i - 1 \in Nat /\ y \in Ball(p, i - 1)
<1>. DEFINE Bad == {n \in Nat : \E r \in Ball(x, n) : r \notin S /\ ~(n # 0 /\ r \in Ball(p, n - 1))}
<1>0. i # 0 => i - 1 \in Nat
  OBVIOUS
<1>1. SUFFICES ASSUME Bad # {} PROVE FALSE
  <2>1. i \notin Bad => i # 0 /\ y \in Ball(p, i - 1)
    OBVIOUS
  <2>. HIDE DEF Bad
  <2>. QED
    BY <1>0, <2>1
<1>2. PICK m \in Bad : \A n \in Bad : m <= n
  BY <1>1, LeastNatural
<1>3. m # 0
  BY <1>2, BallStep
<1>4. m - 1 \in Nat /\ m - 1 \notin Bad
  BY <1>2, <1>3
<1>5. Ball(x, m) = Around(Ball(x, m - 1))
  BY <1>2, <1>3, BallBefore
<1>6. \A q \in Ball(x, m - 1) : q \notin S => m - 1 # 0 /\ q \in Ball(p, (m - 1) - 1)
  BY <1>4
<1>7. ASSUME NEW r \in Ball(x, m), r \notin S PROVE r \in Ball(p, m - 1)
  <2>1. r \in Router
    BY <1>5, <1>7 DEF Around
  <2>2. PICK q \in Ball(x, m - 1) : r = q \/ {r, q} \in Wiring
    BY <1>5, <1>7 DEF Around
  <2>3. CASE q \notin S
    <3>1. m - 1 # 0 /\ q \in Ball(p, (m - 1) - 1)
      BY <1>6, <2>2, <2>3
    <3>2. Ball(p, m - 1) = Around(Ball(p, (m - 1) - 1))
      BY <1>4, <3>1, BallBefore
    <3>. QED
      BY <2>1, <2>2, <3>1, <3>2 DEF Around
  <2>4. CASE q \in S
    <3>1. {q, r} \in Wiring
      <4>1. r # q /\ {r, q} = {q, r}
        BY <1>7, <2>4
      <4>. QED
        BY <2>2, <4>1
    <3>2. r = p
      BY <1>7, <2>1, <2>4, <3>1 DEF Divides
    <3>. QED
      BY <1>4, <3>2, BallGrows
  <2>. QED
    BY <2>3, <2>4
<1>. QED
  BY <1>2, <1>3, <1>7

\* k cables lead from d to o, and no fewer do.
IsDistance(d, o, k) == k \in Nat /\ o \in Ball(d, k) /\ (k > 0 => o \notin Ball(d, k - 1))

\* A ball holds every ball with a smaller radius.
LEMMA BallMonotone ==
    ASSUME NEW d \in Router, NEW i \in Nat, NEW j \in Nat, i <= j
    PROVE  Ball(d, i) \subseteq Ball(d, j)
<1>. DEFINE Bad == {n \in Nat : i <= n /\ ~(Ball(d, i) \subseteq Ball(d, n))}
<1>1. SUFFICES ASSUME Bad # {} PROVE FALSE
  <2>1. j \notin Bad => Ball(d, i) \subseteq Ball(d, j)
    OBVIOUS
  <2>. HIDE DEF Bad
  <2>. QED
    BY <2>1
<1>2. PICK m \in Bad : \A n \in Bad : m <= n
  BY <1>1, LeastNatural
<1>3. m # i
  BY <1>2
<1>4. m - 1 \in Nat /\ i <= m - 1 /\ m - 1 \notin Bad /\ (m - 1) + 1 = m
  BY <1>2, <1>3
<1>5. Ball(d, m - 1) \subseteq Ball(d, m)
  <2>1. Ball(d, m - 1) \subseteq Ball(d, (m - 1) + 1)
    BY <1>4, BallGrows
  <2>. QED
    BY <1>4, <2>1
<1>. QED
  BY <1>2, <1>4, <1>5

\* A ball that no cable leads out of does not grow any more.
LEMMA BallStays ==
    ASSUME NEW d \in Router, NEW i \in Nat, NEW j \in Nat, i <= j, Ball(d, i + 1) = Ball(d, i)
    PROVE  Ball(d, j) = Ball(d, i)
<1>. DEFINE Bad == {n \in Nat : i <= n /\ Ball(d, n) # Ball(d, i)}
<1>1. SUFFICES ASSUME Bad # {} PROVE FALSE
  <2>1. j \notin Bad => Ball(d, j) = Ball(d, i)
    OBVIOUS
  <2>. HIDE DEF Bad
  <2>. QED
    BY <2>1
<1>2. PICK m \in Bad : \A n \in Bad : m <= n
  BY <1>1, LeastNatural
<1>3. m # i
  BY <1>2
<1>4. m # 0 /\ m - 1 \in Nat /\ i <= m - 1 /\ m - 1 \notin Bad
  BY <1>2, <1>3
<1>5. Ball(d, m) = Around(Ball(d, m - 1)) /\ Ball(d, i + 1) = Around(Ball(d, i))
  BY <1>2, <1>4, BallBefore, BallStep
<1>6. Ball(d, m - 1) = Ball(d, i)
  BY <1>4
<1>. QED
  BY <1>2, <1>5, <1>6

\* Every router is fewer cables away than there are routers: each radius up
\* to the distance adds a router to the ball.
LEMMA DistanceBound ==
    ASSUME NEW d \in Router, NEW o, NEW k, IsDistance(d, o, k)
    PROVE  k \in 0 .. Cardinality(Router)
<1>. DEFINE Bad == {n \in Nat : n <= k /\ ~(Cardinality(Ball(d, n)) >= n + 1)}
<1>1. k \in Nat
  BY DEF IsDistance
<1>2. \A n \in Nat : /\ IsFiniteSet(Ball(d, n)) /\ Cardinality(Ball(d, n)) \in Nat
                     /\ Cardinality(Ball(d, n)) <= Cardinality(Router)
  <2>. SUFFICES ASSUME NEW n \in Nat
                PROVE  /\ IsFiniteSet(Ball(d, n)) /\ Cardinality(Ball(d, n)) \in Nat
                       /\ Cardinality(Ball(d, n)) <= Cardinality(Router)
    OBVIOUS
  <2>1. Ball(d, n) \subseteq Router
    BY BallGrows
  <2>2. IsFiniteSet(Router)
    OBVIOUS
  <2>3. IsFiniteSet(Ball(d, n)) /\ Cardinality(Ball(d, n)) <= Cardinality(Router)
    BY <2>1, <2>2, FS_Subset
  <2>4. Cardinality(Ball(d, n)) \in Nat
    BY <2>3, FS_CardinalityType
  <2>. QED
    BY <2>3, <2>4
<1>3. Cardinality(Router) \in Nat
  BY FS_CardinalityType
<1>4. SUFFICES ASSUME Bad # {} PROVE FALSE
  <2>1. k \notin Bad => Cardinality(Ball(d, k)) >= k + 1
    BY <1>1
  <2>. HIDE DEF Bad
  <2>. QED
    BY <1>1, <1>2, <1>3, <2>1
<1>5. PICK m \in Bad : \A n \in Bad : m <= n
  BY <1>4, LeastNatural
<1>6. m # 0
  <2>1. Cardinality(Ball(d, 0)) = 1
    <3>1. Ball(d, 0) = {d}
      BY BallStep
    <3>2. Cardinality({d}) = 1
      BY FS_Singleton
    <3>. QED
      BY <3>1, <3>2, Zenon
  <2>. QED
    BY <1>5, <2>1
<1>7. m - 1 \in Nat /\ m - 1 \notin Bad /\ m \in Nat /\ m <= k /\ (m - 1) + 1 = m
  BY <1>1, <1>5, <1>6
<1>8. Cardinality(Ball(d, m - 1)) >= m
  BY <1>1, <1>7
<1>9. Ball(d, m - 1) # Ball(d, m)
  <2>. SUFFICES ASSUME Ball(d, m) = Ball(d, m - 1) PROVE FALSE
    OBVIOUS
  <2>1. k - 1 \in Nat /\ m - 1 <= k - 1 /\ m - 1 <= k /\ k > 0
    BY <1>1, <1>6, <1>7
  <2>2. Ball(d, (m - 1) + 1) = Ball(d, m - 1)
    BY <1>7
  <2>3. Ball(d, k - 1) = Ball(d, m - 1) /\ Ball(d, k) = Ball(d, m - 1)
    BY <1>1, <1>7, <2>1, <2>2, BallStays
  <2>. QED
    BY <2>1, <2>3 DEF IsDistance
<1>10. Ball(d, m - 1) \subseteq Ball(d, m)
  BY <1>7, BallMonotone
<1>11. Cardinality(Ball(d, m - 1)) < Cardinality(Ball(d, m))
  <2>1. IsFiniteSet(Ball(d, m))
    BY <1>2, <1>7
  <2>2. /\ Cardinality(Ball(d, m - 1)) <= Cardinality(Ball(d, m))
        /\ Cardinality(Ball(d, m)) # Cardinality(Ball(d, m - 1))
    BY <1>9, <1>10, <2>1, FS_Subset
  <2>3. Cardinality(Ball(d, m)) \in Nat /\ Cardinality(Ball(d, m - 1)) \in Nat
    BY <1>2, <1>7
  <2>. QED
    BY <2>2, <2>3
<1>12. Cardinality(Ball(d, m)) >= m + 1
  <2>1. Cardinality(Ball(d, m)) \in Nat /\ Cardinality(Ball(d, m - 1)) \in Nat
    BY <1>2, <1>7
  <2>. QED
    BY <1>7, <1>8, <1>11, <2>1
<1>. QED
  BY <1>5, <1>12

\* The distance that the property speaks of is that number of cables.
LEMMA DistanceIs ==
    ASSUME NEW d \in Router, NEW o, NEW k, IsDistance(d, o, k)
    PROVE  Distance(d, o) = k
<1>. DEFINE D == CHOOSE i \in 0 .. Cardinality(Router) :
                     o \in Ball(d, i) /\ (i > 0 => o \notin Ball(d, i - 1))
<1>1. k \in 0 .. Cardinality(Router) /\ o \in Ball(d, k) /\ (k > 0 => o \notin Ball(d, k - 1))
  BY DistanceBound DEF IsDistance
<1>2. /\ D \in 0 .. Cardinality(Router)
      /\ o \in Ball(d, D) /\ (D > 0 => o \notin Ball(d, D - 1))
  BY <1>1
<1>3. Distance(d, o) = D
  BY DEF Distance
<1>4. Cardinality(Router) \in Nat
  BY FS_CardinalityType
<1>. HIDE DEF D
<1>5. D \in Nat /\ k \in Nat
  BY <1>1, <1>2, <1>4
<1>6. ~(D < k)
  <2>. SUFFICES ASSUME D < k PROVE FALSE
    OBVIOUS
  <2>1. k > 0 /\ k - 1 \in Nat /\ D <= k - 1
    BY <1>5
  <2>2. Ball(d, D) \subseteq Ball(d, k - 1)
    BY <1>5, <2>1, BallMonotone
  <2>. QED
    BY <1>1, <1>2, <2>1, <2>2
<1>7. ~(k < D)
  <2>. SUFFICES ASSUME k < D PROVE FALSE
    OBVIOUS
  <2>1. D > 0 /\ D - 1 \in Nat /\ k <= D - 1
    BY <1>5
  <2>2. Ball(d, k) \subseteq Ball(d, D - 1)
    BY <1>5, <2>1, BallMonotone
  <2>. QED
    BY <1>1, <1>2, <2>1, <2>2
<1>. QED
  BY <1>3, <1>5, <1>6, <1>7

-----------------------------------------------------------------------------
(* Where there is no ring, a route leads to its network over one cable, and *)
(* what a router tells of it is told away from the network.                 *)

\* The cable from d to p is the way from d to o.
Toward(d, p, o) == {d, p} \in Wiring /\ \E S \in SUBSET Router : Divides(S, d, p) /\ o \notin S

\* A router that learns a network from d, which did not learn it from that
\* router, is one cable further away from it than d.
LEMMA TowardLearned ==
    ASSUME NoRing, NEW d \in Router, NEW p \in Router, {d, p} \in Wiring,
           NEW o \in Router, NEW k, IsDistance(d, o, k),
           d = o \/ \E q \in Router : q # p /\ Toward(d, q, o)
    PROVE  Toward(p, d, o) /\ IsDistance(p, o, k + 1)
<1>0. k \in Nat /\ o \in Ball(d, k) /\ {p, d} \in Wiring
  <2>1. {p, d} = {d, p}
    OBVIOUS
  <2>. QED
    BY <2>1 DEF IsDistance
<1>1. PICK S \in SUBSET Router : Divides(S, p, d)
  BY <1>0 DEF NoRing
<1>2. p \in S /\ d \notin S
  BY <1>1 DEF Divides
<1>3. o \notin S
  <2>. SUFFICES ASSUME o \in S PROVE FALSE
    OBVIOUS
  <2>1. PICK q \in Router : q # p /\ Toward(d, q, o)
    BY <1>2
  <2>2. PICK T \in SUBSET Router : Divides(T, d, q) /\ o \notin T
    BY <2>1 DEF Toward
  <2>3. d \in T /\ q \notin T /\ {d, q} \in Wiring
    BY <2>1, <2>2 DEF Divides, Toward
  <2>4. p \in T
    BY <2>1, <2>2, <2>3 DEF Divides
  <2>. DEFINE R == Router \ S
  <2>5. Divides(R, d, p)
    <3>1. d \in R /\ p \notin R
      BY <1>2
    <3>2. ASSUME NEW x \in R, NEW y \in Router \ R, {x, y} \in Wiring PROVE x = d /\ y = p
      <4>1. y \in S /\ x \in Router \ S /\ {y, x} \in Wiring
        <5>1. {y, x} = {x, y}
          OBVIOUS
        <5>. QED
          BY <3>2, <5>1
      <4>. QED
        BY <1>1, <4>1 DEF Divides
    <3>. QED
      BY <3>1, <3>2 DEF Divides
  <2>6. R \in SUBSET Router /\ d \in R /\ o \notin R
    BY <1>2
  <2>. HIDE DEF R
  <2>7. k # 0 /\ k - 1 \in Nat /\ o \in Ball(p, k - 1)
    BY <1>0, <2>5, <2>6, BallAcross
  <2>8. k - 1 # 0 /\ (k - 1) - 1 \in Nat /\ o \in Ball(q, (k - 1) - 1)
    BY <2>2, <2>4, <2>7, BallAcross
  <2>9. o \in Ball(d, ((k - 1) - 1) + 1)
    BY <2>3, <2>8, BallOverCable
  <2>10. ((k - 1) - 1) + 1 = k - 1 /\ k > 0
    BY <1>0, <2>7
  <2>. QED
    BY <2>9, <2>10 DEF IsDistance
<1>4. Toward(p, d, o)
  BY <1>0, <1>1, <1>3 DEF Toward
<1>5. o \in Ball(p, k + 1)
  BY <1>0, BallOverCable
<1>6. o \notin Ball(p, k)
  <2>. SUFFICES ASSUME o \in Ball(p, k) PROVE FALSE
    OBVIOUS
  <2>1. k # 0 /\ k - 1 \in Nat /\ o \in Ball(d, k - 1)
    BY <1>0, <1>1, <1>2, <1>3, BallAcross
  <2>. QED
    BY <1>0, <2>1 DEF IsDistance
<1>7. k + 1 \in Nat /\ (k + 1) - 1 = k
  BY <1>0
<1>. QED
  BY <1>4, <1>5, <1>6, <1>7 DEF IsDistance

-----------------------------------------------------------------------------
(* Adjacencies, and the hellos that bring them up, follow the cables.       *)

\* Every hello that a stack still has to say goes over a cable.
Wires(stack) ==
    \A x, y \in Router :
        Pending(stack, "hello", x, y) \/ Pending(stack, "answer", x, y) => {x, y} \in Wiring

Wired ==
    /\ cable \subseteq Wiring
    /\ \A d, p \in Router : d \in nbr[p] => {d, p} \in Wiring
    /\ Wires(calls)

LEMMA WiresLoop ==
    ASSUME NEW op, NEW d, NEW peers, op \in {"hello", "answer"} => \A p \in peers : {d, p} \in Wiring
    PROVE  Wires(Loop(op, d, peers))
<1>. SUFFICES ASSUME NEW x \in Router, NEW y \in Router,
                     \/ Pending(Loop(op, d, peers), "hello", x, y)
                     \/ Pending(Loop(op, d, peers), "answer", x, y)
              PROVE  {x, y} \in Wiring
  BY DEF Wires
<1>1. op \in {"hello", "answer"} /\ x = d /\ y \in peers
  BY PendingLoop
<1>. QED
  BY <1>1

LEMMA WiresConcat ==
    ASSUME NEW s \in Seq(Frame), NEW t \in Seq(Frame), Wires(s), Wires(t)
    PROVE  Wires(s \o t)
  BY PendingConcat DEF Wires

LEMMA WiresRest ==
    ASSUME TypeOK, ~Idle, Wires(calls), NEW p \in Router
    PROVE  Wires(Rest(p)) /\ Rest(p) \in Seq(Frame)
<1>1. \A x, y \in Router : /\ Pending(Rest(p), "hello", x, y) => Pending(calls, "hello", x, y)
                           /\ Pending(Rest(p), "answer", x, y) => Pending(calls, "answer", x, y)
  BY PendingRest
<1>2. Wires(Rest(p))
  BY <1>1 DEF Wires
<1>. QED
  BY <1>2, RestType

\* The innermost loop over hellos speaks over a cable.
LEMMA WiresTop ==
    ASSUME TypeOK, Wires(calls), NEW op \in {"hello", "answer"}, NEW d \in Router, NEW p \in Router,
           Runs(op, d, p)
    PROVE  {d, p} \in Wiring
<1>1. calls \in Seq(Frame) /\ calls # <<>>
  BY DEF TypeOK, Runs, Idle
<1>2. 1 \in 1 .. Len(calls) /\ calls[1] = Top
  BY <1>1 DEF Top
<1>3. Pending(calls, op, d, p)
  BY <1>2 DEF Pending, Runs
<1>. QED
  BY <1>3 DEF Wires

LEMMA WiredCall ==
    ASSUME TypeOK, Wired, NEW d \in Router, NEW p \in Router, Call(d, p)
    PROVE  Wired'
<1>1. nbr \in [Router -> SUBSET Router] /\ cable' = cable
  BY DEF TypeOK, Call, HelloIgnored, HelloKnown, NeighborUp, Answer, Arm, Update, Table, config
<1>2. ~Idle /\ Wires(calls) /\ {d, p} = {p, d}
  BY DEF Wired, Call, HelloIgnored, HelloKnown, NeighborUp, Answer, Arm, Update, Table, Runs
<1>3. \A q \in Router : Wires(Rest(q)) /\ Rest(q) \in Seq(Frame)
  BY <1>2, WiresRest
<1>4. ASSUME UNCHANGED nbr, Wires(calls') PROVE Wired'
  BY <1>1, <1>4 DEF Wired, Wires
\* A loop pushed on the rest of the stack.
<1>5. ASSUME NEW op \in {"hello", "update", "answer", "arm", "table"}, NEW r \in Router,
             NEW peers \in SUBSET Router, NEW q \in Router,
             op \in {"hello", "answer"} => \A x \in peers : {r, x} \in Wiring
      PROVE  /\ Wires(Loop(op, r, peers) \o Rest(q))
             /\ Loop(op, r, peers) \o Rest(q) \in Seq(Frame)
  <2>1. Loop(op, r, peers) \in Seq(Frame) /\ Wires(Loop(op, r, peers))
    BY <1>5, LoopType, WiresLoop
  <2>2. Rest(q) \in Seq(Frame) /\ Wires(Rest(q))
    BY <1>3
  <2>. QED
    BY <2>1, <2>2, WiresConcat
<1>6. CASE HelloIgnored(d, p) \/ HelloKnown(d, p) \/ Arm(d, p)
  <2>1. UNCHANGED nbr /\ calls' = Rest(p)
    BY <1>6 DEF HelloIgnored, HelloKnown, Arm
  <2>. QED
    BY <1>3, <1>4, <2>1
<1>7. CASE NeighborUp(d, p)
  <2>. DEFINE up == Loop("update", p, {d})
              answer == Loop("answer", p, {d})
              arm == Loop("arm", p, {d})
  <2>1. /\ nbr' = [nbr EXCEPT ![p] = @ \cup {d}]
        /\ calls' = up \o answer \o arm \o Rest(p)
        /\ Runs("hello", d, p)
    BY <1>7 DEF NeighborUp
  <2>2. {d, p} \in Wiring /\ {p, d} \in Wiring
    BY <1>2, <2>1, WiresTop
  <2>3. up \in Seq(Frame) /\ answer \in Seq(Frame) /\ arm \in Seq(Frame)
    BY LoopType
  <2>4. Wires(up) /\ Wires(answer) /\ Wires(arm)
    BY <2>2, WiresLoop
  <2>. HIDE DEF up, answer, arm
  <2>5. up \o answer \in Seq(Frame) /\ Wires(up \o answer)
    <3>1. up \o answer \in Seq(Frame)
      BY <2>3
    <3>2. Wires(up \o answer)
      BY <2>3, <2>4, WiresConcat
    <3>. QED
      BY <3>1, <3>2
  <2>6. (up \o answer) \o arm \in Seq(Frame) /\ Wires((up \o answer) \o arm)
    <3>1. (up \o answer) \o arm \in Seq(Frame)
      BY <2>3, <2>5
    <3>2. Wires((up \o answer) \o arm)
      BY <2>3, <2>4, <2>5, WiresConcat
    <3>. QED
      BY <3>1, <3>2
  <2>7. Wires(((up \o answer) \o arm) \o Rest(p))
    BY <1>3, <2>6, WiresConcat
  <2>8. Wires(calls')
    BY <2>1, <2>7
  <2>9. \A x, y \in Router : x \in nbr'[y] => {x, y} \in Wiring
    BY <1>1, <2>1, <2>2 DEF Wired
  <2>. QED
    BY <1>1, <2>8, <2>9 DEF Wired, Wires
<1>8. CASE Answer(d, p)
  <2>. DEFINE peers == IF d \in nbr[p] THEN {} ELSE {p}
  <2>1. UNCHANGED nbr /\ calls' = Loop("hello", d, peers) \o Rest(p) /\ Runs("answer", d, p)
    BY <1>8 DEF Answer
  <2>2. peers \in SUBSET Router /\ \A x \in peers : {d, x} \in Wiring
    BY <1>2, <2>1, WiresTop
  <2>. HIDE DEF peers
  <2>. QED
    BY <1>4, <1>5, <2>1, <2>2
<1>9. CASE Update(d, p)
  <2>. DEFINE peers == IF (IF Hears(p, d) THEN Learned(p, d) ELSE {}) = {} THEN {} ELSE nbr[p]
  <2>1. UNCHANGED nbr /\ calls' = Loop("update", p, peers) \o Rest(p)
    BY <1>9 DEF Update
  <2>2. peers \in SUBSET Router
    BY <1>1
  <2>. HIDE DEF peers
  <2>. QED
    BY <1>4, <1>5, <2>1, <2>2
<1>10. CASE Table(d)
  <2>1. UNCHANGED nbr /\ calls' = Loop("update", d, nbr[d]) \o Rest(d) /\ nbr[d] \in SUBSET Router
    BY <1>1, <1>10 DEF Table
  <2>. QED
    BY <1>4, <1>5, <2>1
<1>. QED
  BY <1>6, <1>7, <1>8, <1>9, <1>10 DEF Call

LEMMA WiredOther ==
    ASSUME TypeOK, Wired, NEW d \in Router, NEW p \in Router,
           \/ HelloLoop(d) \/ Announce(d) \/ ResetNeighbors(d) \/ HoldTimer(d, p)
           \/ \E a \in AS, n \in Network : Start(d, a, n)
           \/ Stop(d)
           \/ \E k \in K : SetKValues(d, k)
           \/ SetPassive(d, p) \/ Shutdown(d, p) \/ NoShutdown(d, p)
           \/ PlugIn(d, p) \/ PullOut(d, p)
    PROVE  Wired'
<1>1. Reachable(d) \in SUBSET Router /\ \A q \in Reachable(d) : {d, q} \in Wiring
  BY DEF Reachable, Linked, Wired
<1>2. Wires(<<>>)
  BY DEF Wires, Pending
\* Adjacencies only go down and no call is started.
<1>3. ASSUME \A x \in Router : nbr'[x] \subseteq nbr[x], UNCHANGED <<cable, calls>> PROVE Wired'
  BY <1>3 DEF Wired, Wires
<1>4. ASSUME UNCHANGED <<cable, nbr>>, Wires(calls') PROVE Wired'
  BY <1>4 DEF Wired, Wires
<1>5. CASE HelloLoop(d)
  <2>1. UNCHANGED <<cable, nbr>> /\ calls' = Loop("hello", d, Reachable(d))
    BY <1>5 DEF HelloLoop, config
  <2>2. Wires(Loop("hello", d, Reachable(d)))
    BY <1>1, WiresLoop
  <2>. QED
    BY <1>4, <2>1, <2>2
<1>6. CASE Announce(d)
  <2>1. /\ UNCHANGED <<cable, nbr>>
        /\ \/ calls' = Loop("hello", d, Reachable(d)) \o Loop("table", d, {d})
           \/ calls' = <<>>
    BY <1>6 DEF Announce, config
  <2>2. Loop("hello", d, Reachable(d)) \in Seq(Frame) /\ Loop("table", d, {d}) \in Seq(Frame)
    BY <1>1, LoopType
  <2>3. Wires(Loop("hello", d, Reachable(d))) /\ Wires(Loop("table", d, {d}))
    BY <1>1, WiresLoop
  <2>4. Wires(Loop("hello", d, Reachable(d)) \o Loop("table", d, {d}))
    BY <2>2, <2>3, WiresConcat
  <2>. QED
    BY <1>2, <1>4, <2>1, <2>4
<1>7. CASE ResetNeighbors(d) \/ HoldTimer(d, p) \/ Stop(d) \/ Shutdown(d, p)
  <2>1. UNCHANGED <<cable, calls>>
    BY <1>7 DEF ResetNeighbors, HoldTimer, Stop, Shutdown, config
  <2>2. ASSUME NEW peers, NEW back, Down(d, peers, back)
        PROVE  \A x \in Router : nbr'[x] \subseteq nbr[x]
    BY <2>2 DEF Down
  <2>3. CASE ResetNeighbors(d) \/ HoldTimer(d, p)
    BY <1>3, <2>1, <2>2, <2>3 DEF ResetNeighbors, HoldTimer
  <2>4. CASE Stop(d)
    <3>1. \A x \in Router : nbr'[x] \subseteq nbr[x]
      BY <2>4 DEF Stop, TypeOK
    <3>. QED
      BY <1>3, <2>1, <3>1
  <2>5. CASE Shutdown(d, p)
    <3>1. Down(d, {p}, {p}) \/ UNCHANGED nbr
      BY <2>5 DEF Shutdown
    <3>2. \A x \in Router : nbr'[x] \subseteq nbr[x]
      BY <2>2, <3>1
    <3>. QED
      BY <1>3, <2>1, <3>2
  <2>. QED
    BY <1>7, <2>3, <2>4, <2>5
<1>8. CASE \/ \E a \in AS, n \in Network : Start(d, a, n)
           \/ \E k \in K : SetKValues(d, k)
           \/ SetPassive(d, p)
  <2>1. UNCHANGED <<cable, nbr, calls>>
    BY <1>8 DEF Start, SetKValues, SetPassive
  <2>. QED
    BY <1>4, <2>1 DEF Wired
<1>9. CASE NoShutdown(d, p)
  <2>1. /\ UNCHANGED <<cable, nbr>>
        /\ \/ calls' = Loop("hello", d, {p}) \o Loop("hello", p, {d})
           \/ calls' = <<>>
        /\ p \in Linked(d)
    BY <1>9 DEF NoShutdown
  <2>2. {d, p} \in Wiring /\ {p, d} = {d, p}
    BY <2>1 DEF Linked, Wired
  <2>3. Loop("hello", d, {p}) \in Seq(Frame) /\ Loop("hello", p, {d}) \in Seq(Frame)
    BY LoopType
  <2>4. Wires(Loop("hello", d, {p})) /\ Wires(Loop("hello", p, {d}))
    BY <2>2, WiresLoop
  <2>5. Wires(Loop("hello", d, {p}) \o Loop("hello", p, {d}))
    BY <2>3, <2>4, WiresConcat
  <2>. QED
    BY <1>2, <1>4, <2>1, <2>5
<1>10. CASE PlugIn(d, p) \/ PullOut(d, p)
  <2>1. UNCHANGED <<nbr, calls>> /\ cable' \subseteq Wiring
    BY <1>10 DEF PlugIn, PullOut, Wired
  <2>. QED
    BY <2>1 DEF Wired, Wires
<1>. QED
  BY <1>5, <1>6, <1>7, <1>8, <1>9, <1>10

LEMMA WiredInit == Init => Wired
  BY DEF Init, Wired, Wires, Pending

LEMMA WiredStep ==
    ASSUME TypeOK, Wired, [Next]_vars
    PROVE  Wired'
<1>1. CASE UNCHANGED vars
  BY <1>1 DEF vars, config, Wired, Wires
<1>2. CASE \E d, p \in Router : Call(d, p)
  BY <1>2, WiredCall
<1>3. CASE \/ Command
           \/ \E d \in Router : \/ HelloLoop(d) \/ Announce(d) \/ ResetNeighbors(d)
                              \/ \E p \in Router : HoldTimer(d, p)
  <2>1. PICK d \in Router, p \in Router :
            \/ HelloLoop(d) \/ Announce(d) \/ ResetNeighbors(d) \/ HoldTimer(d, p)
            \/ \E a \in AS, n \in Network : Start(d, a, n)
            \/ Stop(d)
            \/ \E k \in K : SetKValues(d, k)
            \/ SetPassive(d, p) \/ Shutdown(d, p) \/ NoShutdown(d, p)
            \/ PlugIn(d, p) \/ PullOut(d, p)
    BY <1>3 DEF Command
  <2>. QED
    BY <2>1, WiredOther
<1>. QED
  BY <1>1, <1>2, <1>3 DEF Next, Background

-----------------------------------------------------------------------------
(* The routes in the topology tables, as triples: a router, a network and   *)
(* the router's route to it.  A set of them that the engine's ways to get   *)
(* a route never lead out of holds every route there ever is.               *)

\* In the set are no route at all, the route of a network statement, and what
\* a router hears of a route in the set from the far end of a cable.
Closed(Good) ==
    /\ \A d \in Router, n \in Network : <<d, n, Unknown>> \in Good
    /\ \A n \in Network : <<OwnerOf[n], n, [via |-> OwnerOf[n], fd |-> 1]>> \in Good
    /\ \A d, p \in Router, n \in Network, route \in Route :
           {d, p} \in Wiring /\ route.via \notin {NoOne, p} /\ <<d, n, route>> \in Good =>
               <<p, n, [via |-> d, fd |-> route.fd + 1]>> \in Good

\* The topology tables hold such routes only.
RoutesIn(Good) ==
    /\ \A d \in Router, n \in Network : <<d, n, topo[d][n]>> \in Good
    /\ \A d \in Router : \A n \in nets[d] : OwnerOf[n] = d

\* Losing routes breaks nothing.
LEMMA DownRoutes ==
    ASSUME NEW Good, Closed(Good), TypeOK, RoutesIn(Good),
           NEW d \in Router, NEW peers, NEW back, Down(d, peers, back), UNCHANGED nets
    PROVE  RoutesIn(Good)'
<1>1. \A r \in Router, n \in Network : topo'[r][n] = topo[r][n] \/ topo'[r][n] = Unknown
  BY DEF Down, Flushed
<1>2. \A r \in Router, n \in Network : <<r, n, topo'[r][n]>> \in Good
  BY <1>1 DEF RoutesIn, Closed
<1>. QED
  BY <1>2 DEF RoutesIn

LEMMA RoutesInit ==
    ASSUME NEW Good, Closed(Good), Init
    PROVE  RoutesIn(Good)
  BY DEF Closed, Init, RoutesIn

\* Whichever way a router gets a route, it is one of the set.
LEMMA RoutesStep ==
    ASSUME NEW Good, Closed(Good), TypeOK, Wired, RoutesIn(Good), [Next]_vars
    PROVE  RoutesIn(Good)'
<1>1. ASSUME UNCHANGED <<topo, nets>> PROVE RoutesIn(Good)'
  BY <1>1 DEF RoutesIn
<1>2. ASSUME NEW d \in Router, NEW p \in Router, Call(d, p) PROVE RoutesIn(Good)'
  <2>1. CASE \/ HelloIgnored(d, p) \/ HelloKnown(d, p) \/ NeighborUp(d, p)
             \/ Answer(d, p) \/ Arm(d, p) \/ Table(d)
    BY <1>1, <2>1 DEF HelloIgnored, HelloKnown, NeighborUp, Answer, Arm, Table, config
  <2>2. CASE Update(d, p)
    <3>. DEFINE news == IF Hears(p, d) THEN Learned(p, d) ELSE {}
    <3>1. /\ UNCHANGED nets
          /\ topo' = [topo EXCEPT ![p] =
                        [n \in Network |-> IF n \in news THEN Heard(d, n) ELSE @[n]]]
      BY <2>2 DEF Update, config
    <3>2. ASSUME NEW n \in news PROVE <<p, n, Heard(d, n)>> \in Good
      <4>1. d \in nbr[p] /\ n \in Entries(d, p)
        BY <3>2 DEF Hears, Learned
      <4>2. {d, p} \in Wiring /\ n \in Network
        BY <4>1 DEF Wired, Entries
      <4>3. <<d, n, topo[d][n]>> \in Good
        BY <4>2 DEF RoutesIn
      <4>4. topo[d][n] \in Route /\ topo[d][n].via \notin {NoOne, p}
        BY <4>1, <4>2 DEF TypeOK, Entries
      <4>. QED
        BY <4>2, <4>3, <4>4 DEF Closed, Heard
    <3>. HIDE DEF news
    <3>3. ASSUME NEW r \in Router, NEW n \in Network PROVE <<r, n, topo'[r][n]>> \in Good
      <4>1. <<r, n, topo[r][n]>> \in Good
        BY DEF RoutesIn
      <4>2. topo'[r][n] = IF r = p /\ n \in news THEN Heard(d, n) ELSE topo[r][n]
        BY <3>1 DEF TypeOK
      <4>. QED
        BY <3>2, <4>1, <4>2
    <3>. QED
      BY <3>1, <3>3 DEF RoutesIn
  <2>. QED
    BY <1>2, <2>1, <2>2 DEF Call
<1>3. ASSUME NEW d \in Router, HelloLoop(d) \/ Announce(d) PROVE RoutesIn(Good)'
  BY <1>1, <1>3 DEF HelloLoop, Announce, config
<1>4. ASSUME NEW d \in Router, ResetNeighbors(d) PROVE RoutesIn(Good)'
  BY <1>4, DownRoutes DEF ResetNeighbors, config
<1>5. ASSUME NEW d \in Router, NEW p \in Router, HoldTimer(d, p) PROVE RoutesIn(Good)'
  BY <1>5, DownRoutes DEF HoldTimer, config
<1>6. ASSUME NEW d \in Router, NEW a \in AS, NEW m \in Network, Start(d, a, m)
      PROVE  RoutesIn(Good)'
  <2>1. /\ OwnerOf[m] = d
        /\ nets' = [nets EXCEPT ![d] = @ \cup {m}]
        /\ topo' = [topo EXCEPT ![d] = Connected(d, @, nets'[d])]
    BY <1>6 DEF Start
  <2>2. \A r \in Router : \A n \in nets'[r] : OwnerOf[n] = r
    BY <2>1 DEF RoutesIn, TypeOK
  <2>3. ASSUME NEW r \in Router, NEW n \in Network PROVE <<r, n, topo'[r][n]>> \in Good
    <3>1. <<r, n, topo[r][n]>> \in Good
      BY DEF RoutesIn
    <3>2. topo'[r][n] = IF r = d /\ n \in nets'[d] THEN [via |-> d, fd |-> 1] ELSE topo[r][n]
      BY <2>1 DEF Connected, TypeOK
    <3>3. r = d /\ n \in nets'[d] => <<r, n, [via |-> d, fd |-> 1]>> \in Good
      BY <2>2 DEF Closed
    <3>. QED
      BY <3>1, <3>2, <3>3
  <2>. QED
    BY <2>2, <2>3 DEF RoutesIn
<1>7. ASSUME NEW d \in Router, Stop(d) PROVE RoutesIn(Good)'
  <2>1. UNCHANGED nets /\ topo' = [topo EXCEPT ![d] = [n \in Network |-> Unknown]]
    BY <1>7 DEF Stop
  <2>2. \A r \in Router, n \in Network : topo'[r][n] = topo[r][n] \/ topo'[r][n] = Unknown
    BY <2>1 DEF TypeOK
  <2>3. \A r \in Router, n \in Network : <<r, n, topo'[r][n]>> \in Good
    BY <2>2 DEF RoutesIn, Closed
  <2>. QED
    BY <2>1, <2>3 DEF RoutesIn
<1>8. ASSUME NEW d \in Router, NEW p \in Router, Shutdown(d, p) PROVE RoutesIn(Good)'
  <2>1. UNCHANGED nets /\ (Down(d, {p}, {p}) \/ UNCHANGED topo)
    BY <1>8 DEF Shutdown
  <2>. QED
    BY <1>1, <2>1, DownRoutes
<1>9. ASSUME NEW d \in Router, NEW p \in Router, NEW k \in K,
             \/ SetKValues(d, k) \/ SetPassive(d, p) \/ NoShutdown(d, p)
             \/ PlugIn(d, p) \/ PullOut(d, p)
      PROVE RoutesIn(Good)'
  BY <1>1, <1>9 DEF SetKValues, SetPassive, NoShutdown, PlugIn, PullOut
<1>10. CASE UNCHANGED vars
  BY <1>1, <1>10 DEF vars, config
<1>11. K # {}
  OBVIOUS
<1>. QED
  BY <1>2, <1>3, <1>4, <1>5, <1>6, <1>7, <1>8, <1>9, <1>10, <1>11
     DEF Next, Command, Background

-----------------------------------------------------------------------------

\* A route of d to network n: none, its own, or one over the only cable
\* towards the network, with the distance that there is.
Shortest(d, n, route) ==
    \/ route.via = NoOne
    \/ route.via = d /\ OwnerOf[n] = d /\ route.fd = 1
    \/ /\ route.via \in Router /\ Toward(d, route.via, OwnerOf[n])
       /\ \E k \in Nat : route.fd = k + 1 /\ IsDistance(d, OwnerOf[n], k)
ShortestRoutes == {t \in Router \X Network \X Route : Shortest(t[1], t[2], t[3])}

\* What a router hears from the far end of a cable is such a route.
LEMMA ShortestClosed == NoRing => Closed(ShortestRoutes)
<1>. SUFFICES ASSUME NoRing PROVE Closed(ShortestRoutes)
  OBVIOUS
<1>1. ASSUME NEW d \in Router, NEW n \in Network PROVE <<d, n, Unknown>> \in ShortestRoutes
  BY DEF ShortestRoutes, Shortest, Unknown, Route
<1>2. ASSUME NEW n \in Network
      PROVE  <<OwnerOf[n], n, [via |-> OwnerOf[n], fd |-> 1]>> \in ShortestRoutes
  BY DEF ShortestRoutes, Shortest, Route
<1>3. ASSUME NEW d \in Router, NEW p \in Router, NEW n \in Network, NEW route \in Route,
             {d, p} \in Wiring, route.via \notin {NoOne, p}, <<d, n, route>> \in ShortestRoutes
      PROVE  <<p, n, [via |-> d, fd |-> route.fd + 1]>> \in ShortestRoutes
  <2>. DEFINE o == OwnerOf[n]  heard == [via |-> d, fd |-> route.fd + 1]
  <2>1. o \in Router /\ heard \in Route
    BY DEF Route
  <2>2. PICK k \in Nat : /\ route.fd = k + 1 /\ IsDistance(d, o, k)
                         /\ d = o \/ \E q \in Router : q # p /\ Toward(d, q, o)
    <3>1. Shortest(d, n, route)
      BY <1>3 DEF ShortestRoutes
    <3>2. IsDistance(d, d, 0)
      BY BallStep DEF IsDistance
    <3>. QED
      BY <1>3, <3>1, <3>2 DEF Shortest
  <2>3. Toward(p, d, o) /\ IsDistance(p, o, k + 1)
    BY <1>3, <2>1, <2>2, TowardLearned
  <2>4. Shortest(p, n, heard)
    BY <2>2, <2>3 DEF Shortest
  <2>. QED
    BY <2>1, <2>4 DEF ShortestRoutes
<1>. QED
  BY <1>1, <1>2, <1>3 DEF Closed

\* Where no cable is part of a ring, every metric is the distance to the
\* network, for any number of routers: nothing is ever counted up, however
\* updates nest and whatever goes down between them.
THEOREM EigrpMetricsAreDistances ==
    ASSUME NoRing
    PROVE  Spec => []MetricIsDistance
<1>. DEFINE I == TypeOK /\ Wired /\ RoutesIn(ShortestRoutes)
<1>1. Init => I
  BY ShortestClosed, EigrpTypeInit, WiredInit, RoutesInit
<1>2. I /\ [Next]_vars => I'
  BY ShortestClosed, EigrpTypeStep, WiredStep, RoutesStep
<1>3. I => MetricIsDistance
  <2>. SUFFICES ASSUME RoutesIn(ShortestRoutes),
                       NEW d \in Router, NEW n \in Network, topo[d][n].via # NoOne
                PROVE  topo[d][n].fd = 1 + Distance(d, OwnerOf[n])
    BY DEF MetricIsDistance
  <2>1. OwnerOf[n] \in Router /\ Shortest(d, n, topo[d][n])
    BY DEF RoutesIn, ShortestRoutes
  <2>2. CASE OwnerOf[n] = d /\ topo[d][n].fd = 1
    <3>1. IsDistance(d, d, 0)
      BY BallStep DEF IsDistance
    <3>2. Distance(d, d) = 0
      BY <3>1, DistanceIs
    <3>. QED
      BY <2>2, <3>2
  <2>3. CASE \E k \in Nat : topo[d][n].fd = k + 1 /\ IsDistance(d, OwnerOf[n], k)
    <3>1. PICK k \in Nat : topo[d][n].fd = k + 1 /\ IsDistance(d, OwnerOf[n], k)
      BY <2>3
    <3>2. Distance(d, OwnerOf[n]) = k
      BY <2>1, <3>1, DistanceIs
    <3>. QED
      BY <3>1, <3>2
  <2>. QED
    BY <2>1, <2>2, <2>3 DEF Shortest
<1>. QED
  BY <1>1, <1>2, <1>3, PTL DEF Spec

-----------------------------------------------------------------------------
(* In a ring a metric may be counted up, but no way leads it below the      *)
(* distance: a route whose metric is k + 1 came over k cables.              *)

Walked(d, n, route) ==
    route.via # NoOne => \E k \in Nat : route.fd = k + 1 /\ OwnerOf[n] \in Ball(d, k)
WalkedRoutes == {t \in Router \X Network \X Route : Walked(t[1], t[2], t[3])}

LEMMA WalkedClosed == Closed(WalkedRoutes)
<1>1. ASSUME NEW d \in Router, NEW n \in Network PROVE <<d, n, Unknown>> \in WalkedRoutes
  BY DEF WalkedRoutes, Walked, Unknown, Route
<1>2. ASSUME NEW n \in Network
      PROVE  <<OwnerOf[n], n, [via |-> OwnerOf[n], fd |-> 1]>> \in WalkedRoutes
  <2>1. OwnerOf[n] \in Ball(OwnerOf[n], 0) /\ 1 = 0 + 1
    BY BallStep
  <2>. QED
    BY <2>1 DEF WalkedRoutes, Walked, Route
<1>3. ASSUME NEW d \in Router, NEW p \in Router, NEW n \in Network, NEW route \in Route,
             {d, p} \in Wiring, route.via \notin {NoOne, p}, <<d, n, route>> \in WalkedRoutes
      PROVE  <<p, n, [via |-> d, fd |-> route.fd + 1]>> \in WalkedRoutes
  <2>. DEFINE heard == [via |-> d, fd |-> route.fd + 1]
  <2>1. heard \in Route
    BY DEF Route
  <2>2. PICK k \in Nat : route.fd = k + 1 /\ OwnerOf[n] \in Ball(d, k)
    BY <1>3 DEF WalkedRoutes, Walked
  <2>3. {p, d} \in Wiring
    <3>1. {p, d} = {d, p}
      OBVIOUS
    <3>. QED
      BY <1>3, <3>1
  <2>4. OwnerOf[n] \in Ball(p, k + 1)
    BY <2>2, <2>3, BallOverCable
  <2>5. Walked(p, n, heard)
    BY <2>2, <2>4 DEF Walked
  <2>. QED
    BY <2>1, <2>5 DEF WalkedRoutes
<1>. QED
  BY <1>1, <1>2, <1>3 DEF Closed

\* Whoever is in a ball is at a distance, at most the radius of the ball.
LEMMA DistanceWithin ==
    ASSUME NEW d \in Router, NEW i \in Nat, NEW o \in Ball(d, i)
    PROVE  IsDistance(d, o, Distance(d, o)) /\ Distance(d, o) <= i
<1>. DEFINE T == {n \in Nat : o \in Ball(d, n)}
<1>1. PICK k \in T : \A n \in T : k <= n
  <2>1. T \in SUBSET Nat /\ T # {}
    OBVIOUS
  <2>. HIDE DEF T
  <2>. QED
    BY <2>1, LeastNatural
<1>2. k > 0 => k - 1 \notin T /\ k - 1 \in Nat
  BY <1>1
<1>3. IsDistance(d, o, k) /\ k <= i
  BY <1>1, <1>2 DEF IsDistance
<1>. QED
  BY <1>3, DistanceIs

\* Every route leads to a router that the cables do reach, and its metric is
\* never less than the number of cables to it and one for its network.
MetricCoversDistance ==
    \A d \in Router, n \in Network :
        topo[d][n].via # NoOne =>
            /\ IsDistance(d, OwnerOf[n], Distance(d, OwnerOf[n]))
            /\ topo[d][n].fd >= 1 + Distance(d, OwnerOf[n])

\* However the routers are wired, in rings too, no update, flush or restart
\* makes a metric less than the distance to the network.
THEOREM EigrpMetricsCoverDistances == Spec => []MetricCoversDistance
<1>. DEFINE I == TypeOK /\ Wired /\ RoutesIn(WalkedRoutes)
<1>1. Init => I
  BY WalkedClosed, EigrpTypeInit, WiredInit, RoutesInit
<1>2. I /\ [Next]_vars => I'
  BY WalkedClosed, EigrpTypeStep, WiredStep, RoutesStep
<1>3. I => MetricCoversDistance
  <2>. SUFFICES ASSUME RoutesIn(WalkedRoutes),
                       NEW d \in Router, NEW n \in Network, topo[d][n].via # NoOne
                PROVE  /\ IsDistance(d, OwnerOf[n], Distance(d, OwnerOf[n]))
                       /\ topo[d][n].fd >= 1 + Distance(d, OwnerOf[n])
    BY DEF MetricCoversDistance
  <2>1. Walked(d, n, topo[d][n])
    BY DEF RoutesIn, WalkedRoutes
  <2>2. PICK k \in Nat : topo[d][n].fd = k + 1 /\ OwnerOf[n] \in Ball(d, k)
    BY <2>1 DEF Walked
  <2>3. IsDistance(d, OwnerOf[n], Distance(d, OwnerOf[n])) /\ Distance(d, OwnerOf[n]) <= k
    BY <2>2, DistanceWithin
  <2>4. Distance(d, OwnerOf[n]) \in Nat
    BY <2>3 DEF IsDistance
  <2>. QED
    BY <2>2, <2>3, <2>4
<1>. QED
  BY <1>1, <1>2, <1>3, PTL DEF Spec
=============================================================================
