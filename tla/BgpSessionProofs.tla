-------------------------- MODULE BgpSessionProofs --------------------------
(***************************************************************************)
(* Proofs about BgpSession, for any routers, passwords, numbers of         *)
(* concurrent opening coroutines and bounds: half-open sessions and stale  *)
(* routes on Established sessions only exist while a coroutine is under    *)
(* way that ends them, and no fresh route is left to a session nobody opens.*)
(***************************************************************************)
EXTENDS BgpSession, TLAPS

-----------------------------------------------------------------------------
(* The inductive invariant.                                                *)

Handshake == {"connect", "opensent", "openconfirm"}

\* A coroutine works on an existing session between two routers.
TasksHaveSessions ==
    \A t \in Task : open[t] # NoTask =>
        /\ open[t].dev # open[t].nbr
        /\ session[open[t].dev][open[t].nbr] # "none"

\* Only a router that runs BGP has sessions, and only a peer with a session
\* towards d has a route at d.
SessionsNeedBgp == \A d, n \in Device : session[d][n] # "none" => enabled[d]
RoutesNeedSession == \A d, n \in Device : ribIn[d][n] # "none" => session[n][d] # "none"

\* The peer of an Established end is not refused.
NotRefused == \A d, n \in Device : session[d][n] = "Established" => session[n][d] # "Active"

\* If it is Idle it was never up, and has a coroutine waiting to open it.
IdlePeer == \A d, n \in Device :
    (session[d][n] = "Established" /\ session[n][d] = "Idle")
        => /\ ribIn[d][n] = "none"
           /\ \E t \in Running(n, d) : open[t].pc \in {"delay"} \cup Handshake

\* If it is in between, it has a coroutine in the handshake.
HandshakingPeer == \A d, n \in Device :
    (session[d][n] = "Established" /\ session[n][d] \in {"Connect", "OpenSent", "OpenConfirm"})
        => \E t \in Running(n, d) : open[t].pc \in Handshake

\* A fresh route of a session that is not refused has a peer whose end is
\* Established, or a coroutine that has not finished opening: one that only
\* has updates left to send would not do, for after a second teardown they
\* settle nothing.
FreshHasOpening == \A d, n \in Device :
    (ribIn[d][n] = "fresh" /\ session[d][n] \notin {"none", "Active"})
        => \/ session[n][d] = "Established"
           \/ \E t \in RunningEither(d, n) : open[t].pc \in {"delay"} \cup Handshake

IInv == /\ TypeOK /\ TasksHaveSessions /\ SessionsNeedBgp /\ RoutesNeedSession
        /\ NotRefused /\ IdlePeer /\ HandshakingPeer /\ StaleIsTransient /\ FreshHasOpening

\* The invariant contains the absence of half-open sessions.
LEMMA IInvNoHalfOpen == IInv => NoHalfOpenSession
<1> SUFFICES ASSUME IInv, NEW d \in Device, NEW n \in Device,
                    session[d][n] = "Established",
                    session[n][d] \notin {"Established", "none"}
             PROVE  \E t \in Running(n, d) : open[t].pc \notin {"update1", "update2"}
  BY DEF NoHalfOpenSession
<1>1. session[n][d] \in {"Idle", "Connect", "OpenSent", "OpenConfirm"}
  BY DEF IInv, TypeOK, States, NotRefused
<1>2. CASE session[n][d] = "Idle"
  BY <1>2 DEF IInv, IdlePeer, Handshake
<1>3. CASE session[n][d] # "Idle"
  BY <1>1, <1>3 DEF IInv, HandshakingPeer, Handshake
<1>4. QED
  BY <1>2, <1>3

\* Initially there is no session.
LEMMA InitIInv == Init => IInv
<1> SUFFICES ASSUME Init PROVE IInv
  OBVIOUS
<1>1. TypeOK
  BY PasswordAssumption DEF Init, TypeOK, States
<1>2. QED
  BY <1>1 DEF Init, IInv, TasksHaveSessions, SessionsNeedBgp, RoutesNeedSession,
              NotRefused, IdlePeer, HandshakingPeer, StaleIsTransient, FreshHasOpening

\* What _propagate_bgp does to one entry of rib_in.
LEMMA PropagatedEntry ==
  ASSUME NEW rib, NEW s, NEW net, NEW d \in Device, NEW n \in Device
  PROVE  Propagated(rib, s, net)[d][n] =
             IF enabled[n] /\ s[n][d] = "Established"
             THEN IF net[n] THEN "fresh" ELSE "none"
             ELSE rib[d][n]
  BY DEF Propagated

\* A step that leaves sessions and coroutines alone and changes routes only by
\* withdrawing them or as propagation does keeps the invariant.
LEMMA RoutesOnly ==
  ASSUME IInv, TypeOK', UNCHANGED <<session, open>>,
         \A d \in Device : enabled[d] => enabled'[d],
         \A d, n \in Device : \/ ribIn'[d][n] = ribIn[d][n]
                              \/ ribIn'[d][n] = "none"
                              \/ ribIn'[d][n] = "fresh" /\ session[n][d] = "Established"
  PROVE  IInv'
<1>1. TasksHaveSessions' /\ SessionsNeedBgp' /\ NotRefused' /\ HandshakingPeer'
  BY DEF IInv, TasksHaveSessions, SessionsNeedBgp, NotRefused, HandshakingPeer, Running
<1>2. RoutesNeedSession'
  BY DEF IInv, RoutesNeedSession
<1>3. IdlePeer'
  BY DEF IInv, IdlePeer, Running
<1>4. StaleIsTransient'
  BY DEF IInv, StaleIsTransient, Running, RunningEither
<1>5. FreshHasOpening'
  BY DEF IInv, FreshHasOpening, Running, RunningEither
<1>6. QED
  BY <1>1, <1>2, <1>3, <1>4, <1>5 DEF IInv

\* What an assignment to one entry of a two-dimensional table does.
LEMMA SetEntry ==
  ASSUME NEW S, NEW f \in [Device -> [Device -> S]], NEW d \in Device, NEW n \in Device,
         NEW v \in S
  PROVE  /\ [f EXCEPT ![d][n] = v] \in [Device -> [Device -> S]]
         /\ \A x, y \in Device :
                [f EXCEPT ![d][n] = v][x][y] = IF x = d /\ y = n THEN v ELSE f[x][y]
<1>1. [f[d] EXCEPT ![n] = v] \in [Device -> S]
  OBVIOUS
<1>2. [f EXCEPT ![d][n] = v] = [f EXCEPT ![d] = [f[d] EXCEPT ![n] = v]]
  OBVIOUS
<1>3. QED
  BY <1>1, <1>2

\* The same for the sessions.
LEMMA SetSession ==
  ASSUME TypeOK, NEW d \in Device, NEW n \in Device, NEW v \in States,
         session' = [session EXCEPT ![d][n] = v]
  PROVE  /\ session' \in [Device -> [Device -> States]]
         /\ \A x, y \in Device : session'[x][y] = IF x = d /\ y = n THEN v ELSE session[x][y]
<1>1. session \in [Device -> [Device -> States]]
  BY DEF TypeOK
<1>2. QED
  BY <1>1, SetEntry

\* Setting both ends of a session, the other end only if it exists.
LEMMA SetBothSessions ==
  ASSUME TypeOK, NEW d \in Device, NEW n \in Device, d # n, NEW v \in States,
         session' = [session EXCEPT ![d][n] = v, ![n][d] = IF @ = "none" THEN @ ELSE v]
  PROVE  /\ session' \in [Device -> [Device -> States]]
         /\ \A x, y \in Device : {x, y} # {d, n} => session'[x][y] = session[x][y]
         /\ session'[d][n] = v
         /\ session'[n][d] = IF session[n][d] = "none" THEN "none" ELSE v
<1> DEFINE w == IF session[n][d] = "none" THEN "none" ELSE v
           s == [x \in Device |-> [y \in Device |->
                    IF x = d /\ y = n THEN v ELSE IF x = n /\ y = d THEN w ELSE session[x][y]]]
<1>1. session \in [Device -> [Device -> States]]
  BY DEF TypeOK
<1>2. session' = [session EXCEPT ![d] = [session[d] EXCEPT ![n] = v],
                                 ![n] = [session[n] EXCEPT ![d] = w]]
  BY <1>1
<1>3. \A x \in Device : session'[x] = s[x]
  BY <1>1, <1>2
<1>4. session' = s
  BY <1>1, <1>2, <1>3
<1>5. w \in States
  BY DEF States
<1> HIDE DEF w
<1>6. s \in [Device -> [Device -> States]]
  BY <1>1, <1>5
<1>7. \A x, y \in Device : {x, y} # {d, n} => s[x][y] = session[x][y]
  BY <1>1
<1>8. s[d][n] = v /\ s[n][d] = w
  BY <1>1
<1> HIDE DEF s
<1>9. /\ session' \in [Device -> [Device -> States]]
      /\ session'[d][n] = v /\ session'[n][d] = w
  BY <1>4, <1>6, <1>8, Zenon
<1>10. \A x, y \in Device : {x, y} # {d, n} => session'[x][y] = session[x][y]
  BY <1>4, <1>7, Zenon
<1>11. QED
  BY <1>9, <1>10, Zenon DEF w

\* Configuration commands that touch no session.
LEMMA ConfigIInv ==
  ASSUME IInv, NEW d \in Device, NEW n \in Device, NEW pw \in Password, NEW on \in BOOLEAN,
         \/ Start(d) \/ SetPassword(d, n, pw) \/ SetGracefulRestart(d, on) \/ SetLlgr(d, on)
  PROVE  IInv'
<1>1. TypeOK'
  <2>1. CASE Start(d)
    BY <2>1 DEF IInv, TypeOK, Start
  <2>2. CASE SetPassword(d, n, pw)
    <3>1. password' \in [Device -> [Device -> Password]]
      BY <2>2, SetEntry DEF IInv, TypeOK, SetPassword
    <3>2. QED
      BY <2>2, <3>1 DEF IInv, TypeOK, SetPassword, Configures
  <2>3. CASE SetGracefulRestart(d, on)
    BY <2>3 DEF IInv, TypeOK, SetGracefulRestart, Configures
  <2>4. CASE SetLlgr(d, on)
    BY <2>4 DEF IInv, TypeOK, SetLlgr, Configures
  <2>5. QED
    BY <2>1, <2>2, <2>3, <2>4
<1>2. UNCHANGED <<session, open, ribIn>> /\ \A x \in Device : enabled[x] => enabled'[x]
  BY DEF IInv, TypeOK, Start, SetPassword, SetGracefulRestart, SetLlgr
<1>3. QED
  BY <1>1, <1>2, RoutesOnly

\* A network statement.
LEMMA AdvertiseIInv ==
  ASSUME IInv, NEW d \in Device, AdvertiseNetwork(d)
  PROVE  IInv'
<1>1. network' \in [Device -> BOOLEAN]
  BY DEF IInv, TypeOK, AdvertiseNetwork
<1>2. Propagated(ribIn, session, network')
        \in [Device -> [Device -> {"none", "fresh", "stale"}]]
  BY <1>1 DEF IInv, TypeOK, Propagated
<1>3. TypeOK'
  BY <1>1, <1>2 DEF IInv, TypeOK, AdvertiseNetwork
<1>4. QED
  BY <1>3, PropagatedEntry, RoutesOnly DEF AdvertiseNetwork

-----------------------------------------------------------------------------
(* The opening coroutine.                                                  *)

\* A router gets a neighbour.
LEMMA AddNeighborIInv ==
  ASSUME IInv, NEW d \in Device, NEW n \in Peer(d), NEW t \in Task, AddNeighbor(d, n, t)
  PROVE  IInv'
<1> DEFINE new == IF session[d][n] = "none" THEN "Idle" ELSE session[d][n]
<1>1. n \in Device /\ n # d /\ new \in States
  BY DEF IInv, TypeOK, States, Peer
<1>2. session' = [session EXCEPT ![d][n] = new]
  BY DEF AddNeighbor
<1> HIDE DEF new
<1>3. /\ session' \in [Device -> [Device -> States]]
      /\ \A x, y \in Device : session'[x][y] = IF x = d /\ y = n THEN new ELSE session[x][y]
  BY <1>1, <1>2, SetSession DEF IInv
<1>4. /\ open' \in [Task -> Coroutine \cup {NoTask}]
      /\ open[t] = NoTask /\ open'[t] = [dev |-> d, nbr |-> n, pc |-> "delay"]
      /\ open'[t] # NoTask
      /\ \A u \in Task : u # t => open'[u] = open[u]
  BY <1>1, NoTaskAssumption DEF IInv, TypeOK, AddNeighbor, Coroutine, Pc
<1>5. TypeOK'
  BY <1>3, <1>4 DEF IInv, TypeOK, AddNeighbor, Configures
<1>6. TasksHaveSessions'
  <2> SUFFICES ASSUME NEW u \in Task, open'[u] # NoTask
               PROVE  /\ open'[u].dev # open'[u].nbr
                      /\ session'[open'[u].dev][open'[u].nbr] # "none"
    BY DEF TasksHaveSessions
  <2>1. CASE u = t
    BY <1>1, <1>3, <1>4, <2>1 DEF new
  <2>2. CASE u # t
    <3>1. open[u] \in Coroutine /\ open'[u] = open[u]
      BY <1>4, <2>2 DEF IInv, TypeOK
    <3>2. open[u].dev \in Device /\ open[u].nbr \in Device
      BY <3>1 DEF Coroutine
    <3>3. QED
      BY <1>3, <3>1, <3>2 DEF IInv, TasksHaveSessions, new
  <2>3. QED
    BY <2>1, <2>2
<1>7. SessionsNeedBgp' /\ RoutesNeedSession' /\ NotRefused'
  BY <1>1, <1>3 DEF IInv, SessionsNeedBgp, RoutesNeedSession, NotRefused, AddNeighbor, new
<1>8. \A x, y \in Device : Running(x, y) \subseteq Running(x, y)'
                           /\ \A u \in Running(x, y) : open'[u] = open[u]
  BY <1>4 DEF Running
<1>9. t \in Running(d, n)' /\ open'[t].pc = "delay"
  BY <1>4 DEF Running
<1>10. IdlePeer'
  <2> SUFFICES ASSUME NEW x \in Device, NEW y \in Device,
                      session'[x][y] = "Established", session'[y][x] = "Idle"
               PROVE  /\ ribIn'[x][y] = "none"
                      /\ \E u \in Running(y, x)' : open'[u].pc \in {"delay"} \cup Handshake
    BY DEF IdlePeer
  <2>1. CASE session[x][y] = "Established" /\ session[y][x] = "Idle"
    BY <1>8, <2>1 DEF IInv, IdlePeer, AddNeighbor
  <2>2. CASE y = d /\ x = n /\ session[d][n] = "none"
    BY <1>9, <2>2 DEF IInv, RoutesNeedSession, AddNeighbor
  <2>3. QED
    BY <1>1, <1>3, <2>1, <2>2 DEF new
<1>11. HandshakingPeer'
  <2> SUFFICES ASSUME NEW x \in Device, NEW y \in Device, session'[x][y] = "Established",
                      session'[y][x] \in {"Connect", "OpenSent", "OpenConfirm"}
               PROVE  \E u \in Running(y, x)' : open'[u].pc \in Handshake
    BY DEF HandshakingPeer
  <2>1. session[x][y] = "Established" /\ session[y][x] = session'[y][x]
    BY <1>3 DEF new
  <2>2. QED
    BY <1>8, <2>1 DEF IInv, HandshakingPeer
<1>12. StaleIsTransient'
  BY <1>1, <1>3, <1>8 DEF IInv, StaleIsTransient, RunningEither, AddNeighbor, new
<1>13. FreshHasOpening'
  <2> SUFFICES ASSUME NEW x \in Device, NEW y \in Device, ribIn'[x][y] = "fresh",
                      session'[x][y] \notin {"none", "Active"}
               PROVE  \/ session'[y][x] = "Established"
                      \/ \E u \in RunningEither(x, y)' : open'[u].pc \in {"delay"} \cup Handshake
    BY DEF FreshHasOpening
  <2>1. CASE x = d /\ y = n
    BY <1>9, <2>1 DEF RunningEither
  <2>2. CASE ~(x = d /\ y = n)
    <3>1. ribIn[x][y] = "fresh" /\ session[x][y] \notin {"none", "Active"}
      BY <1>3, <2>2 DEF AddNeighbor
    <3>2. CASE session[y][x] = "Established"
      BY <1>1, <1>3, <3>2 DEF new
    <3>3. CASE \E u \in RunningEither(x, y) : open[u].pc \in {"delay"} \cup Handshake
      BY <1>8, <3>3 DEF RunningEither
    <3>4. QED
      BY <3>1, <3>2, <3>3 DEF IInv, FreshHasOpening
  <2>3. QED
    BY <2>1, <2>2
<1>14. QED
  BY <1>5, <1>6, <1>7, <1>10, <1>11, <1>12, <1>13 DEF IInv

\* A step of the coroutine t on the session between d and n refuses the
\* session (at both ends), has it in the handshake, or establishes it (at
\* both ends).
OpeningStep(d, n, t) ==
    /\ open[t] # NoTask => open[t].dev = d /\ open[t].nbr = n
    /\ open'[t] # NoTask => open'[t].dev = d /\ open'[t].nbr = n
    /\ \A u \in Task : u # t => open'[u] = open[u]
    /\ UNCHANGED <<enabled, ribIn>>
    /\ \A x, y \in Device : {x, y} # {d, n} => session'[x][y] = session[x][y]
    /\ session[d][n] # "none"
    /\ session'[n][d] = "none" <=> session[n][d] = "none"
    /\ \/ session'[d][n] = "Active" /\ session'[n][d] \in {"none", "Active"}
       \/ /\ session'[d][n] \in {"Connect", "OpenSent", "OpenConfirm"}
          /\ session'[n][d] = session[n][d]
          /\ open'[t] # NoTask /\ open'[t].pc \in Handshake
       \/ /\ session'[d][n] = "Established"
          /\ session'[n][d] \in {"none", "Established"}
          /\ open'[t] # NoTask /\ open'[t].pc = "update1"

\* Such a step keeps the invariant.
LEMMA OpeningIInv ==
  ASSUME IInv, TypeOK', NEW d \in Device, NEW n \in Device, d # n, NEW t \in Task,
         OpeningStep(d, n, t)
  PROVE  IInv'
<1> USE DEF OpeningStep
<1>1. \A x, y \in Device : session'[x][y] = "none" <=> session[x][y] = "none"
  <2> TAKE x, y \in Device
  <2>1. CASE x = d /\ y = n
    BY <2>1
  <2>2. CASE x = n /\ y = d
    BY <2>2
  <2>3. CASE {x, y} # {d, n}
    BY <2>3
  <2>4. QED
    BY <2>1, <2>2, <2>3
<1>2. \A u \in Task : open'[u] # NoTask => open'[u].dev \in Device /\ open'[u].nbr \in Device
  BY DEF TypeOK, Coroutine
<1>3. TasksHaveSessions'
  BY <1>1, <1>2 DEF IInv, TasksHaveSessions
<1>4. SessionsNeedBgp' /\ RoutesNeedSession'
  BY <1>1 DEF IInv, SessionsNeedBgp, RoutesNeedSession
<1>5. \A x, y \in Device : ~(x = d /\ y = n) =>
         Running(x, y)' = Running(x, y) /\ \A u \in Running(x, y) : open'[u] = open[u]
  BY DEF Running
<1>6. open'[t] # NoTask => t \in Running(d, n)'
  BY DEF Running
<1>13. FreshHasOpening'
  <2> SUFFICES ASSUME NEW x \in Device, NEW y \in Device, ribIn'[x][y] = "fresh",
                      session'[x][y] \notin {"none", "Active"}
               PROVE  \/ session'[y][x] = "Established"
                      \/ \E u \in RunningEither(x, y)' : open'[u].pc \in {"delay"} \cup Handshake
    BY DEF FreshHasOpening
  <2>1. session[y][x] # "none" /\ ribIn[x][y] = "fresh"
    BY DEF IInv, RoutesNeedSession
  <2>2. session'[y][x] # "none"
    BY <1>1, <2>1
  <2>3. CASE {x, y} # {d, n}
    <3>1. session'[x][y] = session[x][y] /\ session'[y][x] = session[y][x]
      BY <2>3
    <3>2. ~(x = d /\ y = n) /\ ~(y = d /\ x = n)
      BY <2>3
    <3>3. \/ session[y][x] = "Established"
          \/ \E u \in RunningEither(x, y) : open[u].pc \in {"delay"} \cup Handshake
      BY <2>1, <3>1 DEF IInv, FreshHasOpening
    <3>4. QED
      BY <1>5, <3>1, <3>2, <3>3 DEF RunningEither
  <2>4. CASE x = d /\ y = n
    BY <1>6, <2>2, <2>4 DEF RunningEither
  <2>5. CASE x = n /\ y = d
    BY <1>6, <2>2, <2>5 DEF RunningEither
  <2>6. QED
    BY <2>3, <2>4, <2>5
<1> SUFFICES ASSUME NEW x \in Device, NEW y \in Device, session'[x][y] = "Established"
             PROVE  /\ session'[y][x] # "Active"
                    /\ session'[y][x] = "Idle" =>
                         /\ ribIn'[x][y] = "none"
                         /\ \E u \in Running(y, x)' : open'[u].pc \in {"delay"} \cup Handshake
                    /\ session'[y][x] \in {"Connect", "OpenSent", "OpenConfirm"} =>
                         \E u \in Running(y, x)' : open'[u].pc \in Handshake
                    /\ ribIn'[x][y] = "stale" =>
                         \E u \in RunningEither(x, y)' : open'[u].pc # "delay"
  BY <1>3, <1>4, <1>13 DEF IInv, NotRefused, IdlePeer, HandshakingPeer, StaleIsTransient
<1>7. CASE {x, y} # {d, n}
  <2>1. session[x][y] = "Established" /\ session'[y][x] = session[y][x]
    BY <1>7
  <2>2. session[y][x] # "Active"
    BY <2>1 DEF IInv, NotRefused
  <2>3. session[y][x] = "Idle" =>
           ribIn[x][y] = "none" /\ \E u \in Running(y, x) : open[u].pc \in {"delay"} \cup Handshake
    BY <2>1 DEF IInv, IdlePeer
  <2>4. session[y][x] \in {"Connect", "OpenSent", "OpenConfirm"} =>
           \E u \in Running(y, x) : open[u].pc \in Handshake
    BY <2>1 DEF IInv, HandshakingPeer
  <2>5. ribIn[x][y] = "stale" => \E u \in RunningEither(x, y) : open[u].pc # "delay"
    BY <2>1 DEF IInv, StaleIsTransient
  <2>6. ~(x = d /\ y = n) /\ ~(y = d /\ x = n)
    BY <1>7
  <2>7. QED
    BY <1>5, <2>1, <2>2, <2>3, <2>4, <2>5, <2>6 DEF RunningEither
<1>8. CASE x = d /\ y = n
  BY <1>6, <1>8 DEF RunningEither
<1>9. CASE x = n /\ y = d
  BY <1>6, <1>9 DEF RunningEither, Handshake
<1>10. QED
  BY <1>7, <1>8, <1>9

\* _open_session up to its first sleep.
LEMMA BeginOpenIInv ==
  ASSUME IInv, NEW d \in Device, NEW n \in Peer(d), NEW t \in Task,
         session[d][n] \notin {"none", "Established"},
         open[t] # NoTask => open[t].dev = d /\ open[t].nbr = n,
         BeginOpen(d, n, t), UNCHANGED <<enabled, ribIn>>,
         TypeOK /\ session' \in [Device -> [Device -> States]]
                /\ open' \in [Task -> Coroutine \cup {NoTask}] => TypeOK'
  PROVE  IInv'
<1>1. n \in Device /\ n # d /\ TypeOK
  BY DEF Peer, IInv
<1>2. CASE /\ ~enabled[n]
           /\ session' = [session EXCEPT ![d][n] = "Active"]
           /\ open' = [open EXCEPT ![t] = NoTask]
  <2>1. /\ session' \in [Device -> [Device -> States]]
        /\ \A x, y \in Device : session'[x][y] = IF x = d /\ y = n THEN "Active" ELSE session[x][y]
    <3>1. "Active" \in States
      BY DEF States
    <3>2. QED
      BY <1>1, <1>2, <3>1, SetSession
  <2>2. open' \in [Task -> Coroutine \cup {NoTask}] /\ open'[t] = NoTask
        /\ \A u \in Task : u # t => open'[u] = open[u]
    BY <1>1, <1>2 DEF TypeOK
  <2>3. session[n][d] = "none"
    BY <1>1, <1>2 DEF IInv, SessionsNeedBgp
  <2>4. TypeOK'
    BY <1>1, <2>1, <2>2
  <2>5. \A x, y \in Device : {x, y} # {d, n} => session'[x][y] = session[x][y]
    BY <2>1
  <2>6. session'[d][n] = "Active" /\ session'[n][d] = "none"
    BY <1>1, <2>1, <2>3
  <2>7. OpeningStep(d, n, t)
    BY <1>1, <2>2, <2>3, <2>4, <2>5, <2>6 DEF OpeningStep
  <2>8. QED
    BY <1>1, <2>4, <2>3, <2>7, OpeningIInv
<1>3. CASE /\ session' = [session EXCEPT ![d][n] = "Active",
                                         ![n][d] = IF @ = "none" THEN @ ELSE "Active"]
           /\ open' = [open EXCEPT ![t] = NoTask]
  <2>1. /\ session' \in [Device -> [Device -> States]]
        /\ \A x, y \in Device : {x, y} # {d, n} => session'[x][y] = session[x][y]
        /\ session'[d][n] = "Active"
        /\ session'[n][d] = IF session[n][d] = "none" THEN "none" ELSE "Active"
    <3>1. "Active" \in States
      BY DEF States
    <3>2. QED
      BY <1>1, <1>3, <3>1, SetBothSessions
  <2>2. open' \in [Task -> Coroutine \cup {NoTask}] /\ open'[t] = NoTask
        /\ \A u \in Task : u # t => open'[u] = open[u]
    BY <1>1, <1>3 DEF TypeOK
  <2>3. TypeOK'
    BY <1>1, <2>1, <2>2
  <2>4. OpeningStep(d, n, t)
    BY <1>1, <2>1, <2>2 DEF OpeningStep
  <2>5. QED
    BY <1>1, <2>3, <2>4, OpeningIInv
<1>4. CASE /\ session' = [session EXCEPT ![d][n] = "Connect"]
           /\ open' = [open EXCEPT ![t] = [dev |-> d, nbr |-> n, pc |-> "connect"]]
  <2>1. /\ session' \in [Device -> [Device -> States]]
        /\ \A x, y \in Device : session'[x][y] = IF x = d /\ y = n THEN "Connect" ELSE session[x][y]
    <3>1. "Connect" \in States
      BY DEF States
    <3>2. QED
      BY <1>1, <1>4, <3>1, SetSession
  <2>2. /\ open' \in [Task -> Coroutine \cup {NoTask}]
        /\ open'[t] # NoTask /\ open'[t].dev = d /\ open'[t].nbr = n /\ open'[t].pc = "connect"
        /\ \A u \in Task : u # t => open'[u] = open[u]
    BY <1>1, <1>4, NoTaskAssumption DEF TypeOK, Coroutine, Pc
  <2>3. TypeOK'
    BY <1>1, <2>1, <2>2
  <2>4. \A x, y \in Device : {x, y} # {d, n} => session'[x][y] = session[x][y]
    BY <2>1
  <2>5. session'[d][n] = "Connect" /\ session'[n][d] = session[n][d]
    BY <1>1, <2>1
  <2>6. open'[t].pc \in Handshake
    BY <2>2 DEF Handshake
  <2>7. OpeningStep(d, n, t)
    BY <1>1, <2>2, <2>3, <2>4, <2>5, <2>6 DEF OpeningStep
  <2>8. QED
    BY <1>1, <2>4, <2>3, <2>7, OpeningIInv
<1>5. QED
  BY <1>2, <1>3, <1>4 DEF BeginOpen

\* A coroutine that ends without having anything left to do for a peer.
LEMMA TaskEndsIInv ==
  ASSUME IInv, TypeOK', NEW t \in Task, open[t] # NoTask,
         open' = [open EXCEPT ![t] = NoTask], UNCHANGED <<session, enabled, ribIn>>,
         open[t].pc = "delay", session[open[t].dev][open[t].nbr] = "Established"
  PROVE  IInv'
<1>1. open'[t] = NoTask /\ \A u \in Task : u # t => open'[u] = open[u]
  BY DEF IInv, TypeOK
<1>2. TasksHaveSessions' /\ SessionsNeedBgp' /\ RoutesNeedSession' /\ NotRefused'
  BY <1>1 DEF IInv, TasksHaveSessions, SessionsNeedBgp, RoutesNeedSession, NotRefused
<1>3. \A x, y \in Device : session[y][x] # "Established" =>
         Running(y, x)' = Running(y, x) /\ \A u \in Running(y, x) : open'[u] = open[u]
  BY <1>1 DEF Running
<1>4. IdlePeer'
  BY <1>3 DEF IInv, IdlePeer
<1>5. HandshakingPeer'
  BY <1>3 DEF IInv, HandshakingPeer
<1>6. \A x, y \in Device : \A u \in RunningEither(x, y) :
         open[u].pc # "delay" => u \in RunningEither(x, y)' /\ open'[u] = open[u]
  BY <1>1 DEF Running, RunningEither
<1>7. StaleIsTransient'
  BY <1>6 DEF IInv, StaleIsTransient
<1>8. FreshHasOpening'
  <2> SUFFICES ASSUME NEW x \in Device, NEW y \in Device, ribIn[x][y] = "fresh",
                      session[x][y] \notin {"none", "Active"}, session[y][x] # "Established"
               PROVE  \E u \in RunningEither(x, y)' : open'[u].pc \in {"delay"} \cup Handshake
    BY DEF FreshHasOpening
  <2>1. PICK u \in RunningEither(x, y) : open[u].pc \in {"delay"} \cup Handshake
    BY DEF IInv, FreshHasOpening
  <2>2. CASE u # t
    BY <1>1, <2>1, <2>2 DEF RunningEither, Running
  <2>3. CASE u = t
    <3>1. session[x][y] = "Established"
      BY <2>1, <2>3 DEF RunningEither, Running
    <3>2. session[y][x] \notin {"none", "Active", "Idle", "Established"}
      BY <3>1 DEF IInv, RoutesNeedSession, NotRefused, IdlePeer
    <3>3. session[y][x] \in {"Connect", "OpenSent", "OpenConfirm"}
      BY <3>2 DEF IInv, TypeOK, States
    <3>4. PICK w \in Running(y, x) : open[w].pc \in Handshake
      BY <3>1, <3>3 DEF IInv, HandshakingPeer
    <3>5. QED
      BY <1>3, <3>2, <3>4 DEF RunningEither
  <2>4. QED
    BY <2>2, <2>3
<1>9. QED
  BY <1>2, <1>4, <1>5, <1>7, <1>8 DEF IInv

\* What is known of a running coroutine.
LEMMA RunningTask ==
  ASSUME IInv, NEW t \in Task, open[t] # NoTask
  PROVE  /\ open[t] \in Coroutine
         /\ open[t].dev \in Device /\ open[t].nbr \in Peer(open[t].dev)
         /\ session[open[t].dev][open[t].nbr] # "none"
<1>1. open[t] \in Coroutine
  BY DEF IInv, TypeOK
<1>2. QED
  BY <1>1 DEF IInv, TasksHaveSessions, Coroutine, Peer

\* _delayed_open wakes up.
LEMMA DelayedOpenIInv ==
  ASSUME IInv, NEW t \in Task, DelayedOpen(t)
  PROVE  IInv'
<1> DEFINE d == open[t].dev
           n == open[t].nbr
<1>1. open[t] # NoTask /\ open[t].pc = "delay" /\ UNCHANGED <<enabled, ribIn>>
  BY DEF DelayedOpen
<1>2. d \in Device /\ n \in Peer(d) /\ session[d][n] # "none"
  BY <1>1, RunningTask
<1>3. TypeOK /\ session' \in [Device -> [Device -> States]]
             /\ open' \in [Task -> Coroutine \cup {NoTask}] => TypeOK'
  BY DEF DelayedOpen, TypeOK
<1>4. CASE session[d][n] = "Established"
  <2>1. open' = [open EXCEPT ![t] = NoTask] /\ UNCHANGED session
    BY <1>4 DEF DelayedOpen
  <2>2. TypeOK'
    BY <1>3, <2>1 DEF IInv, TypeOK
  <2>3. QED
    BY <1>1, <1>4, <2>1, <2>2, TaskEndsIInv
<1>5. CASE session[d][n] # "Established"
  <2>1. BeginOpen(d, n, t)
    BY <1>5 DEF DelayedOpen
  <2> HIDE DEF d, n
  <2>2. open[t] # NoTask => open[t].dev = d /\ open[t].nbr = n
    BY DEF d, n
  <2>3. QED
    BY <1>1, <1>2, <1>3, <1>5, <2>1, <2>2, BeginOpenIInv
<1>6. QED
  BY <1>4, <1>5

\* The loop over the handshake's states.
LEMMA StepIInv ==
  ASSUME IInv, NEW t \in Task,
         NEW from \in Handshake, NEW to \in Handshake, NEW st \in {"OpenSent", "OpenConfirm"},
         Step(t, from, st, to)
  PROVE  IInv'
<1> DEFINE d == open[t].dev
           n == open[t].nbr
<1>1. open[t] # NoTask /\ UNCHANGED <<enabled, ribIn>>
  BY DEF Step
<1>2. /\ open[t] \in Coroutine /\ d \in Device /\ n \in Device /\ d # n
      /\ session[d][n] # "none"
  BY <1>1, RunningTask DEF Peer
<1>3. /\ open' \in [Task -> Coroutine \cup {NoTask}]
      /\ open'[t] # NoTask /\ open'[t].dev = d /\ open'[t].nbr = n /\ open'[t].pc = to
      /\ \A u \in Task : u # t => open'[u] = open[u]
  <2>1. open' = [open EXCEPT ![t] = [open[t] EXCEPT !.pc = to]]
    BY DEF Step
  <2>2. [open[t] EXCEPT !.pc = to] \in Coroutine
    BY <1>2 DEF Coroutine, Handshake, Pc
  <2>3. QED
    BY <1>2, <2>1, <2>2, NoTaskAssumption DEF IInv, TypeOK, Coroutine
<1>4. /\ session' \in [Device -> [Device -> States]]
      /\ \A x, y \in Device : session'[x][y] = IF x = d /\ y = n THEN st ELSE session[x][y]
  <2>1. st \in States /\ TypeOK /\ session' = [session EXCEPT ![d][n] = st]
    BY DEF States, IInv, Step
  <2>2. QED
    BY <1>2, <2>1, SetSession
<1>5. TypeOK'
  BY <1>3, <1>4 DEF IInv, TypeOK, Step
<1>6. OpeningStep(d, n, t)
  BY <1>1, <1>2, <1>3, <1>4 DEF OpeningStep
<1>7. QED
  BY <1>2, <1>5, <1>6, OpeningIInv

\* The end of the handshake.
LEMMA EstablishIInv ==
  ASSUME IInv, NEW t \in Task, Establish(t)
  PROVE  IInv'
<1> DEFINE d == open[t].dev
           n == open[t].nbr
<1>1. open[t] # NoTask /\ UNCHANGED <<enabled, ribIn>>
  BY DEF Establish
<1>2. /\ open[t] \in Coroutine /\ d \in Device /\ n \in Device /\ d # n
      /\ session[d][n] # "none"
  BY <1>1, RunningTask DEF Peer
<1>3. /\ open' \in [Task -> Coroutine \cup {NoTask}]
      /\ open'[t] # NoTask /\ open'[t].dev = d /\ open'[t].nbr = n /\ open'[t].pc = "update1"
      /\ \A u \in Task : u # t => open'[u] = open[u]
  <2>1. open' = [open EXCEPT ![t] = [open[t] EXCEPT !.pc = "update1"]]
    BY DEF Establish
  <2>2. [open[t] EXCEPT !.pc = "update1"] \in Coroutine
    BY <1>2 DEF Coroutine, Pc
  <2>3. QED
    BY <1>2, <2>1, <2>2, NoTaskAssumption DEF IInv, TypeOK, Coroutine
<1>4. /\ session' \in [Device -> [Device -> States]]
      /\ \A x, y \in Device : {x, y} # {d, n} => session'[x][y] = session[x][y]
      /\ session'[d][n] = "Established"
      /\ session'[n][d] = IF session[n][d] = "none" THEN "none" ELSE "Established"
  <2>1. /\ "Established" \in States /\ TypeOK
        /\ session' = [session EXCEPT ![d][n] = "Established",
                                      ![n][d] = IF @ = "none" THEN @ ELSE "Established"]
    BY DEF States, IInv, Establish
  <2> HIDE DEF d, n
  <2>2. QED
    BY <1>2, <2>1, SetBothSessions
<1>5. TypeOK'
  BY <1>3, <1>4 DEF IInv, TypeOK, Establish
<1>6. OpeningStep(d, n, t)
  BY <1>1, <1>2, <1>3, <1>4 DEF OpeningStep
<1>7. QED
  BY <1>2, <1>5, <1>6, OpeningIInv

\* Propagation keeps rib_in a table of routes.
LEMMA PropagatedType ==
  ASSUME TypeOK, NEW rib \in [Device -> [Device -> {"none", "fresh", "stale"}]], NEW s
  PROVE  Propagated(rib, s, network) \in [Device -> [Device -> {"none", "fresh", "stale"}]]
  BY DEF TypeOK, Propagated

\* The updates that follow the handshake.  The last round leaves no stale
\* route on an Established session unless the peer is in a handshake of its own.
LEMMA SendUpdatesIInv ==
  ASSUME IInv, NEW t \in Task, SendUpdates(t)
  PROVE  IInv'
<1> DEFINE d == open[t].dev
           n == open[t].nbr
<1>1. /\ open[t] # NoTask /\ open[t].pc \in {"update1", "update2"}
      /\ UNCHANGED <<enabled, session>>
  BY DEF SendUpdates
<1>2. open[t] \in Coroutine /\ d \in Device /\ n \in Device /\ d # n
  BY <1>1, RunningTask DEF Peer
<1>3. \/ open[t].pc = "update1" /\ open' = [open EXCEPT ![t] = [open[t] EXCEPT !.pc = "update2"]]
      \/ open[t].pc = "update2" /\ open' = [open EXCEPT ![t] = NoTask]
  BY <1>1 DEF SendUpdates
<1>4. /\ open' \in [Task -> Coroutine \cup {NoTask}]
      /\ \A u \in Task : u # t => open'[u] = open[u]
      /\ \/ open'[t] = NoTask /\ open[t].pc = "update2"
         \/ /\ open'[t] # NoTask /\ open'[t].dev = d /\ open'[t].nbr = n
            /\ open'[t].pc = "update2"
  <2>1. [open[t] EXCEPT !.pc = "update2"] \in Coroutine
    BY <1>2 DEF Coroutine, Pc
  <2>2. CASE /\ open[t].pc = "update1"
             /\ open' = [open EXCEPT ![t] = [open[t] EXCEPT !.pc = "update2"]]
    BY <1>2, <2>1, <2>2, NoTaskAssumption DEF IInv, TypeOK, Coroutine
  <2>3. CASE open[t].pc = "update2" /\ open' = [open EXCEPT ![t] = NoTask]
    BY <2>3 DEF IInv, TypeOK
  <2>4. QED
    BY <1>3, <2>2, <2>3
<1>5. TypeOK'
  <2>1. ribIn' \in [Device -> [Device -> {"none", "fresh", "stale"}]]
    BY PropagatedType DEF SendUpdates, IInv, TypeOK
  <2>2. QED
    BY <1>4, <2>1 DEF IInv, TypeOK, SendUpdates
<1>6. ASSUME NEW x \in Device, NEW y \in Device
      PROVE  \/ ribIn'[x][y] = ribIn[x][y]
             \/ ribIn'[x][y] = "none"
             \/ ribIn'[x][y] = "fresh" /\ session[y][x] = "Established"
  <2>1. CASE ribIn' = ribIn
    BY <2>1
  <2>2. CASE ribIn' = Propagated(ribIn, session, network)
    BY <2>2, PropagatedEntry
  <2>3. QED
    BY <2>1, <2>2 DEF SendUpdates
<1>7. TasksHaveSessions' /\ SessionsNeedBgp' /\ RoutesNeedSession' /\ NotRefused'
  <2>1. TasksHaveSessions'
    BY <1>1, <1>4 DEF IInv, TasksHaveSessions
  <2>2. SessionsNeedBgp' /\ NotRefused'
    BY <1>1 DEF IInv, SessionsNeedBgp, NotRefused
  <2>3. RoutesNeedSession'
    BY <1>1, <1>6 DEF IInv, RoutesNeedSession
  <2>4. QED
    BY <2>1, <2>2, <2>3
<1>8. \A x, y \in Device : \A u \in Running(x, y) :
         open[u].pc \notin {"update1", "update2"} => u \in Running(x, y)' /\ open'[u] = open[u]
  BY <1>1, <1>4 DEF Running
<1>9. IdlePeer'
  BY <1>1, <1>6, <1>8 DEF IInv, IdlePeer, Handshake
<1>10. HandshakingPeer'
  BY <1>1, <1>8 DEF IInv, HandshakingPeer, Handshake
<1>11. StaleIsTransient'
  <2> SUFFICES ASSUME NEW x \in Device, NEW y \in Device,
                      ribIn'[x][y] = "stale", session[x][y] = "Established"
               PROVE  \E u \in RunningEither(x, y)' : open'[u].pc # "delay"
    BY <1>1 DEF StaleIsTransient
  <2>1. ribIn[x][y] = "stale"
    BY <1>6
  <2>2. PICK u \in RunningEither(x, y) : open[u].pc # "delay"
    BY <2>1 DEF IInv, StaleIsTransient
  <2>3. CASE u # t
    BY <1>4, <2>2, <2>3 DEF RunningEither, Running
  <2>4. CASE u = t /\ open'[t] # NoTask
    BY <1>4, <2>2, <2>4 DEF RunningEither, Running
  <2>5. CASE u = t /\ open'[t] = NoTask
    <3>1. (x = d /\ y = n) \/ (x = n /\ y = d)
      BY <2>2, <2>5 DEF RunningEither, Running
    <3>2. ribIn' = Propagated(ribIn, session, network)
      BY <3>1 DEF SendUpdates
    <3>3. ~(enabled[y] /\ session[y][x] = "Established")
      BY <3>2, PropagatedEntry
    <3>4. session[y][x] \notin {"Established", "none", "Active", "Idle"}
      BY <2>1, <3>3
         DEF IInv, SessionsNeedBgp, RoutesNeedSession, NotRefused, IdlePeer
    <3>5. session[y][x] \in {"Connect", "OpenSent", "OpenConfirm"}
      BY <3>4 DEF IInv, TypeOK, States
    <3>6. \E w \in Running(y, x) : open[w].pc \in Handshake
      BY <3>5 DEF IInv, HandshakingPeer
    <3>7. QED
      BY <1>8, <3>6 DEF Handshake, RunningEither
  <2>6. QED
    BY <2>3, <2>4, <2>5
<1>12. FreshHasOpening'
  <2> SUFFICES ASSUME NEW x \in Device, NEW y \in Device, ribIn'[x][y] = "fresh",
                      session[x][y] \notin {"none", "Active"}, session[y][x] # "Established"
               PROVE  \E u \in RunningEither(x, y)' : open'[u].pc \in {"delay"} \cup Handshake
    BY <1>1 DEF FreshHasOpening
  <2>1. ribIn[x][y] = "fresh"
    BY <1>6
  <2>2. PICK u \in RunningEither(x, y) : open[u].pc \in {"delay"} \cup Handshake
    BY <2>1 DEF IInv, FreshHasOpening
  <2>3. QED
    BY <1>8, <2>2 DEF RunningEither, Handshake
<1>13. QED
  BY <1>5, <1>7, <1>9, <1>10, <1>11, <1>12 DEF IInv

-----------------------------------------------------------------------------
(* Loss and return of the link, and expiry.                                *)

\* session_down, whoever calls it.
LEMMA SessionDownIInv ==
  ASSUME IInv, NEW d \in Device, NEW n \in Peer(d), SessionDown(d, n),
         UNCHANGED <<enabled, open>>,
         TypeOK /\ session' \in [Device -> [Device -> States]]
                /\ ribIn' \in [Device -> [Device -> {"none", "fresh", "stale"}]]
                /\ timers' \in [Device -> [Device -> SUBSET Nat]]
                /\ downs' \in [Device -> [Device -> Nat]] => TypeOK'
  PROVE  IInv'
<1> DEFINE ends == DownEnds(d, n)
           down == [x \in Device |-> [y \in Device |->
                       IF <<x, y>> \in ends THEN "Idle" ELSE session[x][y]]]
           kept == [x \in Device |-> [y \in Device |->
                       IF <<x, y>> \in ends THEN AfterDown(x, y) ELSE ribIn[x][y]]]
<1>1. n \in Device /\ d # n /\ TypeOK
  BY DEF Peer, IInv
<1>2. \A x, y \in Device :
         <<x, y>> \in ends <=> /\ (x = d /\ y = n) \/ (x = n /\ y = d)
                              /\ session[x][y] = "Established"
  <2> TAKE x, y \in Device
  <2>1. <<x, y>> \in ends <=> /\ <<x, y>> \in {<<d, n>>, <<n, d>>}
                              /\ session[<<x, y>>[1]][<<x, y>>[2]] = "Established"
    BY Zenon DEF DownEnds
  <2>2. <<x, y>>[1] = x /\ <<x, y>>[2] = y
    OBVIOUS
  <2>3. <<x, y>> \in {<<d, n>>, <<n, d>>} <=> (x = d /\ y = n) \/ (x = n /\ y = d)
    OBVIOUS
  <2>4. QED
    BY <2>1, <2>2, <2>3, Zenon
<1> HIDE DEF ends
<1>3. session' = down /\ ribIn' = IF ends = {} THEN ribIn ELSE Propagated(kept, down, network)
  BY DEF SessionDown, ends
<1>4. down \in [Device -> [Device -> States]]
  BY <1>1 DEF TypeOK, States
<1>5. kept \in [Device -> [Device -> {"none", "fresh", "stale"}]]
  BY <1>1 DEF TypeOK, AfterDown
<1>6. \A x, y \in Device :
         session'[x][y] = IF <<x, y>> \in ends THEN "Idle" ELSE session[x][y]
  BY <1>3
<1>7. ASSUME NEW x \in Device, NEW y \in Device
      PROVE  \/ ribIn'[x][y] = ribIn[x][y] /\ <<x, y>> \notin ends
             \/ ribIn'[x][y] = "none"
             \/ ribIn'[x][y] = "fresh" /\ session'[y][x] = "Established"
             \/ ribIn[x][y] # "none" /\ <<x, y>> \in ends /\ ribIn'[x][y] = "stale"
  <2>1. CASE ends = {}
    BY <1>3, <2>1, Zenon
  <2>2. CASE ends # {}
    <3>1. ribIn'[x][y] = IF enabled[y] /\ down[y][x] = "Established"
                         THEN IF network[y] THEN "fresh" ELSE "none"
                         ELSE kept[x][y]
      <4> HIDE DEF down, kept
      <4>1. QED
        BY <1>3, <2>2, PropagatedEntry
    <3>2. kept[x][y] = IF <<x, y>> \in ends THEN AfterDown(x, y) ELSE ribIn[x][y]
      OBVIOUS
    <3>3. down[y][x] = session'[y][x]
      BY <1>3, Zenon
    <3> HIDE DEF down, kept
    <3>4. QED
      BY <3>1, <3>2, <3>3, Zenon DEF AfterDown
  <2>3. QED
    BY <2>1, <2>2
<1>8. TypeOK'
  <2>1. ribIn' \in [Device -> [Device -> {"none", "fresh", "stale"}]]
    <3> HIDE DEF down, kept
    <3>1. QED
      BY <1>1, <1>3, <1>5, PropagatedType DEF TypeOK
  <2>2. downs' \in [Device -> [Device -> Nat]]
    <3>1. downs' = [x \in Device |-> [y \in Device |->
                       IF <<x, y>> \in ends /\ Retains(x) THEN downs[x][y] + 1
                                                          ELSE downs[x][y]]]
      BY DEF SessionDown, ends
    <3>2. \A x, y \in Device : downs[x][y] \in Nat /\ downs[x][y] + 1 \in Nat
      BY <1>1 DEF TypeOK
    <3>3. QED
      BY <3>1, <3>2
  <2>3. timers' \in [Device -> [Device -> SUBSET Nat]]
    <3>1. timers' = [x \in Device |-> [y \in Device |->
                        IF <<x, y>> \in ends /\ gr[x] /\ ~llgr[x]
                        THEN timers[x][y] \cup {downs[x][y] + 1}
                        ELSE timers[x][y]]]
      BY DEF SessionDown, ends
    <3>2. \A x, y \in Device : timers[x][y] \in SUBSET Nat /\ downs[x][y] + 1 \in Nat
      BY <1>1 DEF TypeOK
    <3>3. QED
      BY <3>1, <3>2
  <2>4. QED
    BY <1>1, <1>3, <1>4, <2>1, <2>2, <2>3
<1>9. \A x, y \in Device : session'[x][y] = "none" <=> session[x][y] = "none"
  <2> TAKE x, y \in Device
  <2>1. session'[x][y] = IF <<x, y>> \in ends THEN "Idle" ELSE session[x][y]
    BY <1>6
  <2>2. <<x, y>> \in ends => session[x][y] = "Established"
    BY <1>2
  <2>3. QED
    BY <2>1, <2>2
<1>10. TasksHaveSessions'
  BY <1>1, <1>9 DEF IInv, TypeOK, TasksHaveSessions, Coroutine
<1>11. SessionsNeedBgp' /\ RoutesNeedSession'
  <2>1. SessionsNeedBgp'
    BY <1>9 DEF IInv, SessionsNeedBgp
  <2>2. ASSUME NEW x \in Device, NEW y \in Device, ribIn'[x][y] # "none"
        PROVE  session'[y][x] # "none"
    <3>1. ribIn[x][y] # "none" \/ session'[y][x] = "Established"
      BY <1>7, <2>2
    <3>2. QED
      BY <1>9, <3>1 DEF IInv, RoutesNeedSession
  <2>3. QED
    BY <2>1, <2>2 DEF RoutesNeedSession
<1>12. \A x, y \in Device : session'[x][y] = "Established" =>
          /\ session[x][y] = "Established" /\ session'[y][x] = session[y][x]
          /\ <<x, y>> \notin ends
  <2> TAKE x, y \in Device
  <2> HAVE session'[x][y] = "Established"
  <2>1. session[x][y] = "Established" /\ <<x, y>> \notin ends
    BY <1>6
  <2>2. ~((x = d /\ y = n) \/ (x = n /\ y = d))
    BY <1>2, <2>1
  <2>3. <<y, x>> \notin ends
    BY <1>2, <2>2
  <2>4. QED
    BY <1>6, <2>1, <2>3
<1>13. \A x, y \in Device : Running(x, y)' = Running(x, y)
  BY DEF Running
<1>14. NotRefused' /\ HandshakingPeer'
  <2> SUFFICES ASSUME NEW x \in Device, NEW y \in Device, session'[x][y] = "Established"
               PROVE  /\ session'[y][x] # "Active"
                      /\ session'[y][x] \in {"Connect", "OpenSent", "OpenConfirm"} =>
                            \E u \in Running(y, x)' : open'[u].pc \in Handshake
    BY DEF NotRefused, HandshakingPeer
  <2>1. session[x][y] = "Established" /\ session'[y][x] = session[y][x]
    BY <1>12
  <2>2. session[y][x] # "Active"
    BY <2>1 DEF IInv, NotRefused
  <2>3. session[y][x] \in {"Connect", "OpenSent", "OpenConfirm"} =>
           \E u \in Running(y, x) : open[u].pc \in Handshake
    BY <2>1 DEF IInv, HandshakingPeer
  <2>4. QED
    BY <1>13, <2>1, <2>2, <2>3
<1>15. IdlePeer'
  <2> SUFFICES ASSUME NEW x \in Device, NEW y \in Device,
                      session'[x][y] = "Established", session'[y][x] = "Idle"
               PROVE  /\ ribIn'[x][y] = "none"
                      /\ \E u \in Running(y, x)' : open'[u].pc \in {"delay"} \cup Handshake
    BY DEF IdlePeer
  <2>1. session[x][y] = "Established" /\ session[y][x] = "Idle"
    BY <1>12
  <2>2. ribIn[x][y] = "none" /\ \E u \in Running(y, x) : open[u].pc \in {"delay"} \cup Handshake
    BY <2>1 DEF IInv, IdlePeer
  <2>3. ribIn'[x][y] = "none"
    BY <1>7, <2>2
  <2>4. QED
    BY <1>13, <2>2, <2>3
<1>16. StaleIsTransient'
  <2> SUFFICES ASSUME NEW x \in Device, NEW y \in Device,
                      ribIn'[x][y] = "stale", session'[x][y] = "Established"
               PROVE  \E u \in RunningEither(x, y)' : open'[u].pc # "delay"
    BY DEF StaleIsTransient
  <2>1. session[x][y] = "Established" /\ <<x, y>> \notin ends
    BY <1>12
  <2>2. ribIn[x][y] = "stale"
    BY <1>7, <2>1
  <2>3. QED
    BY <1>13, <2>1, <2>2 DEF IInv, StaleIsTransient, RunningEither
<1>17. FreshHasOpening'
  <2> SUFFICES ASSUME NEW x \in Device, NEW y \in Device, ribIn'[x][y] = "fresh",
                      session'[x][y] \notin {"none", "Active"}, session'[y][x] # "Established"
               PROVE  \E u \in RunningEither(x, y) : open[u].pc \in {"delay"} \cup Handshake
    BY <1>13 DEF FreshHasOpening, RunningEither
  <2>1. ribIn[x][y] = "fresh" /\ <<x, y>> \notin ends
    BY <1>7
  <2>2. session[x][y] \notin {"none", "Active"}
    BY <1>6, <2>1
  <2>3. CASE session[y][x] # "Established"
    BY <2>1, <2>2, <2>3 DEF IInv, FreshHasOpening
  <2>4. CASE session[y][x] = "Established"
    <3>1. <<y, x>> \in ends
      BY <1>6, <2>4
    <3>2. session[x][y] # "Established"
      BY <1>2, <2>1, <3>1
    <3>3. session[x][y] \in {"Idle", "Connect", "OpenSent", "OpenConfirm"}
      BY <1>1, <2>2, <3>2 DEF TypeOK, States
    <3>4. \E u \in Running(x, y) : open[u].pc \in {"delay"} \cup Handshake
      BY <2>4, <3>3 DEF IInv, IdlePeer, HandshakingPeer
    <3>5. QED
      BY <3>4 DEF RunningEither
  <2>5. QED
    BY <2>3, <2>4
<1>18. QED
  BY <1>8, <1>10, <1>11, <1>14, <1>15, <1>16, <1>17 DEF IInv

\* "shutdown".
LEMMA ShutdownIInv ==
  ASSUME IInv, NEW d \in Device, NEW n \in Peer(d), Shutdown(d, n)
  PROVE  IInv'
<1>1. n \in Device /\ TypeOK
  BY DEF Peer, IInv
<1>2. shut' \in [Device -> [Device -> BOOLEAN]] /\ shuts' \in [Device -> [Device -> Nat]]
  <2>1. shut' = [shut EXCEPT ![d][n] = TRUE]
        /\ shuts' = [shuts EXCEPT ![d][n] = shuts[d][n] + 1]
    BY DEF Shutdown
  <2>2. shut \in [Device -> [Device -> BOOLEAN]] /\ shuts \in [Device -> [Device -> Nat]]
    BY <1>1 DEF TypeOK
  <2>3. shuts[d][n] + 1 \in Nat
    BY <1>1, <2>2
  <2>4. shuts' \in [Device -> [Device -> Nat]]
    BY <1>1, <2>1, <2>2, <2>3, SetEntry
  <2>5. shut' \in [Device -> [Device -> BOOLEAN]]
    BY <1>1, <2>1, <2>2, SetEntry
  <2>6. QED
    BY <2>4, <2>5
<1>3. TypeOK /\ session' \in [Device -> [Device -> States]]
             /\ ribIn' \in [Device -> [Device -> {"none", "fresh", "stale"}]]
             /\ timers' \in [Device -> [Device -> SUBSET Nat]]
             /\ downs' \in [Device -> [Device -> Nat]] => TypeOK'
  BY <1>2 DEF Shutdown, TypeOK
<1>4. CASE enabled[d] /\ session[d][n] # "none"
  BY <1>3, <1>4, SessionDownIInv DEF Shutdown
<1>5. CASE ~(enabled[d] /\ session[d][n] # "none")
  <2>1. UNCHANGED <<session, ribIn, downs, timers, enabled, open>>
    BY <1>5 DEF Shutdown
  <2>2. TypeOK'
    BY <1>1, <1>3, <2>1 DEF TypeOK
  <2>3. QED
    BY <2>1, <2>2, RoutesOnly
<1>6. QED
  BY <1>4, <1>5

\* "no shutdown".
LEMMA NoShutdownIInv ==
  ASSUME IInv, NEW d \in Device, NEW n \in Peer(d), NEW t \in Task, NoShutdown(d, n, t)
  PROVE  IInv'
<1>1. n \in Device /\ TypeOK
  BY DEF Peer, IInv
<1>2. shut' \in [Device -> [Device -> BOOLEAN]]
  BY <1>1, SetEntry DEF TypeOK, NoShutdown
<1>3. TypeOK /\ session' \in [Device -> [Device -> States]]
             /\ open' \in [Task -> Coroutine \cup {NoTask}] => TypeOK'
  BY <1>2 DEF NoShutdown, TypeOK
<1>4. CASE enabled[d] /\ session[d][n] \notin {"none", "Established"}
  BY <1>3, <1>4, BeginOpenIInv DEF NoShutdown
<1>5. CASE ~(enabled[d] /\ session[d][n] \notin {"none", "Established"})
  <2>1. UNCHANGED <<session, ribIn, enabled, open>>
    BY <1>5 DEF NoShutdown
  <2>2. TypeOK'
    BY <1>1, <1>3, <2>1 DEF TypeOK
  <2>3. QED
    BY <2>1, <2>2, RoutesOnly
<1>6. QED
  BY <1>4, <1>5

\* A GR expiry coroutine wakes up.
LEMMA GrExpireIInv ==
  ASSUME IInv, NEW d \in Device, NEW n \in Peer(d), GrExpire(d, n)
  PROVE  IInv'
<1> DEFINE first == CHOOSE g \in timers[d][n] : \A h \in timers[d][n] : g <= h
<1>1. n \in Device /\ TypeOK
  BY DEF Peer, IInv
<1>2. timers' \in [Device -> [Device -> SUBSET Nat]]
  <2>1. timers' = [timers EXCEPT ![d][n] = timers[d][n] \ {first}]
    BY DEF GrExpire
  <2> HIDE DEF first
  <2>2. timers \in [Device -> [Device -> SUBSET Nat]] /\ timers[d][n] \ {first} \in SUBSET Nat
    BY <1>1 DEF TypeOK
  <2>3. QED
    BY <1>1, <2>1, <2>2, SetEntry
<1>3. /\ ribIn' \in [Device -> [Device -> {"none", "fresh", "stale"}]]
      /\ \A x, y \in Device : ribIn'[x][y] \in {ribIn[x][y], "none"}
  <2>1. ribIn \in [Device -> [Device -> {"none", "fresh", "stale"}]]
    BY <1>1 DEF TypeOK
  <2>2. ribIn' = ribIn \/ ribIn' = [ribIn EXCEPT ![d][n] = "none"]
    BY DEF GrExpire
  <2>3. QED
    BY <1>1, <2>1, <2>2, SetEntry
<1>4. TypeOK' /\ UNCHANGED <<session, open, enabled>>
  BY <1>1, <1>2, <1>3 DEF GrExpire, TypeOK
<1>5. QED
  BY <1>3, <1>4, RoutesOnly

-----------------------------------------------------------------------------
\* The invariant is inductive: no step of an operator, an opening coroutine
\* or an expiry coroutine breaks it.
LEMMA NextIInv == IInv /\ [Next]_vars => IInv'
<1> SUFFICES ASSUME IInv, [Next]_vars PROVE IInv'
  OBVIOUS
<1>1. CASE \E d \in Device : Start(d) \/ AdvertiseNetwork(d)
  BY <1>1, ConfigIInv, AdvertiseIInv, PasswordAssumption
<1>2. CASE \E d \in Device, t \in Task : \E n \in Peer(d) : AddNeighbor(d, n, t)
  BY <1>2, AddNeighborIInv
<1>3. CASE \E d \in Device, pw \in Password : \E n \in Peer(d) : SetPassword(d, n, pw)
  BY <1>3, ConfigIInv DEF Peer
<1>4. CASE \E d \in Device, on \in BOOLEAN : SetGracefulRestart(d, on) \/ SetLlgr(d, on)
  BY <1>4, ConfigIInv, PasswordAssumption
<1>5. CASE \E t \in Task : DelayedOpen(t)
  BY <1>5, DelayedOpenIInv
<1>6. CASE \E t \in Task : Step(t, "connect", "OpenSent", "opensent")
  BY <1>6, StepIInv DEF Handshake
<1>7. CASE \E t \in Task : Step(t, "opensent", "OpenConfirm", "openconfirm")
  BY <1>7, StepIInv DEF Handshake
<1>8. CASE \E t \in Task : Establish(t)
  BY <1>8, EstablishIInv
<1>9. CASE \E t \in Task : SendUpdates(t)
  BY <1>9, SendUpdatesIInv
<1>10. CASE \E d \in Device : \E n \in Peer(d) : Shutdown(d, n)
  BY <1>10, ShutdownIInv
<1>11. CASE \E d \in Device, t \in Task : \E n \in Peer(d) : NoShutdown(d, n, t)
  BY <1>11, NoShutdownIInv
<1>12. CASE \E d \in Device : \E n \in Peer(d) : GrExpire(d, n)
  BY <1>12, GrExpireIInv
<1>13. CASE UNCHANGED vars
  BY <1>13 DEF vars, IInv, TypeOK, TasksHaveSessions, SessionsNeedBgp, RoutesNeedSession,
               NotRefused, IdlePeer, HandshakingPeer, StaleIsTransient, FreshHasOpening,
               Running, RunningEither
<1>14. QED
  BY <1>1, <1>2, <1>3, <1>4, <1>5, <1>6, <1>7, <1>8, <1>9, <1>10, <1>11, <1>12, <1>13
     DEF Next

\* The inductive invariant holds in every reachable state of BgpEngine's
\* sessions.
THEOREM SessionInvariant == Spec => []IInv
  BY InitIInv, NextIInv, PTL DEF Spec

\* Every table of BgpEngine keeps its type.
THEOREM TypeCorrect == Spec => []TypeOK
<1>1. IInv => TypeOK
  BY DEF IInv
<1>2. QED
  BY <1>1, SessionInvariant, PTL

\* However many _open_session coroutines, refusals and shutdowns interleave,
\* a session that is Established at one end only is in the other end's handshake.
THEOREM NoHalfOpen == Spec => []NoHalfOpenSession
  BY IInvNoHalfOpen, SessionInvariant, PTL

\* A stale route on an Established session has a coroutine under way that has
\* updates to send after it.
THEOREM StaleRoutesTransient == Spec => []StaleIsTransient
<1>1. IInv => StaleIsTransient
  BY DEF IInv
<1>2. QED
  BY <1>1, SessionInvariant, PTL

\* No interleaving of teardowns, openings and refusals leaks a route that
\* counts as fresh: its peer's end is Established, or a coroutine works on
\* the session, or it was refused.
THEOREM FreshRoutesBacked == Spec => []FreshIsBacked
<1>1. IInv => FreshIsBacked
  BY DEF IInv, FreshHasOpening, FreshIsBacked
<1>2. QED
  BY <1>1, SessionInvariant, PTL
=============================================================================
