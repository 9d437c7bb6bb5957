----------------------------- MODULE BgpSession -----------------------------
(***************************************************************************)
(* BGP sessions of class BgpEngine (engine/protocols.py): the opening      *)
(* coroutine, the teardown app.py's shutdown handler calls, Graceful       *)
(* Restart and Long-Lived Graceful Restart, and what they do to the routes *)
(* learned over the session.                                               *)
(*                                                                         *)
(* The routers form an iBGP mesh without reflectors.  A route learned from *)
(* an iBGP peer is then advertised to nobody (_compute_adverts), so the    *)
(* whole of rib_in is one entry per peer: the peer's own network, absent,  *)
(* fresh or stale, and _propagate_bgp reaches its fixpoint in one round.   *)
(*                                                                         *)
(* A coroutine runs atomically between two awaits that sleep; vnet.send_to *)
(* only hands a log line to a callback and is no scheduling point here.    *)
(***************************************************************************)
EXTENDS Naturals, FiniteSets

CONSTANTS
    Device,     \* BGP routers
    Password,   \* MD5 passwords, NoPassword among them
    NoPassword, \* the empty password of a new session
    Task,       \* identities of opening coroutines (bounds how many run at once)
    NoTask,     \* an identity that is not in use
    MaxDown,    \* bound: shutdowns of one router's interface to one peer
    MaxConfig,  \* bound: add_neighbor, password and GR/LLGR commands
    UseLlgr     \* whether the operator ever configures LLGR

ASSUME PasswordAssumption == NoPassword \in Password
ASSUME BoundAssumption == MaxDown \in Nat /\ MaxConfig \in Nat /\ UseLlgr \in BOOLEAN

VARIABLES
    enabled,   \* device -> router bgp was entered
    network,   \* device -> a network statement was entered
    session,   \* device -> peer -> state of the BgpSession, "none" before add_neighbor
    password,  \* device -> peer -> the session's MD5 password
    gr,        \* device -> graceful_restart of all its sessions
    llgr,      \* device -> llgr of all its sessions
    ribIn,     \* device -> peer -> the route learned from the peer
    open,      \* the running _delayed_open and _open_session coroutines
    timers,    \* device -> peer -> the downs whose GR expiry coroutine still sleeps
    downs,     \* history: device -> peer -> times the peer's route was made stale
    shut,      \* device -> peer -> the device's interface to the peer is shut down
    shuts,     \* bound: device -> peer -> shutdowns so far
    configs    \* bound: configuration commands so far

vars == <<enabled, network, session, password, gr, llgr, ribIn, open,
          timers, downs, shut, shuts, configs>>

States == {"none", "Idle", "Active", "Connect", "OpenSent", "OpenConfirm", "Established"}
Peer(d) == Device \ {d}
Pc == {"delay", "connect", "opensent", "openconfirm", "update1", "update2"}
Coroutine == [dev : Device, nbr : Device, pc : Pc]

ASSUME NoTaskAssumption == NoTask \notin Coroutine

\* The coroutines working on the session of d towards n.
Running(d, n) == {t \in Task : open[t] # NoTask /\ open[t].dev = d /\ open[t].nbr = n}
RunningEither(d, n) == Running(d, n) \cup Running(n, d)

-----------------------------------------------------------------------------
Init ==
    /\ enabled = [d \in Device |-> FALSE]
    /\ network = [d \in Device |-> FALSE]
    /\ session = [d \in Device |-> [n \in Device |-> "none"]]
    /\ password = [d \in Device |-> [n \in Device |-> NoPassword]]
    /\ gr = [d \in Device |-> FALSE]
    /\ llgr = [d \in Device |-> FALSE]
    /\ ribIn = [d \in Device |-> [n \in Device |-> "none"]]
    /\ open = [t \in Task |-> NoTask]
    /\ timers = [d \in Device |-> [n \in Device |-> {}]]
    /\ downs = [d \in Device |-> [n \in Device |-> 0]]
    /\ shut = [d \in Device |-> [n \in Device |-> FALSE]]
    /\ shuts = [d \in Device |-> [n \in Device |-> 0]]
    /\ configs = 0

\* Mutant of Propagated: a route that is there already is not refreshed.
PropagatedOnce(rib, s, net) ==
    [n \in Device |-> [d \in Device |->
        IF enabled[d] /\ s[d][n] = "Established" /\ net[d] /\ rib[n][d] = "none"
        THEN "fresh" ELSE rib[n][d]]]

\* _propagate_bgp over the sessions s, applied to the routes rib: each
\* Established end refreshes or withdraws its network at the other end,
\* whatever the other end's session is.
Propagated(rib, s, net) ==
    [n \in Device |-> [d \in Device |->
        IF enabled[d] /\ s[d][n] = "Established"
        THEN IF net[d] THEN "fresh" ELSE "none"
        ELSE rib[n][d]]]

-----------------------------------------------------------------------------
(* Configuration.                                                          *)

Configures == configs < MaxConfig /\ configs' = configs + 1

Start(d) ==
    /\ ~enabled[d]
    /\ enabled' = [enabled EXCEPT ![d] = TRUE]
    /\ UNCHANGED <<network, session, password, gr, llgr, ribIn, open, timers, downs, shut,
                   shuts, configs>>

\* advertise_network: _send_update, hence _propagate_bgp, if any session is up.
AdvertiseNetwork(d) ==
    /\ ~network[d]
    /\ network' = [network EXCEPT ![d] = TRUE]
    /\ ribIn' = IF \E n \in Device : session[d][n] = "Established"
                THEN Propagated(ribIn, session, network')
                ELSE ribIn
    /\ UNCHANGED <<enabled, session, password, gr, llgr, open, timers, downs, shut, shuts,
                   configs>>

\* add_neighbor: a new session is Idle, an old one is kept; either way an
\* opening coroutine is spawned.
AddNeighbor(d, n, t) ==
    /\ Configures
    /\ enabled[d]
    /\ open[t] = NoTask
    /\ session' = [session EXCEPT ![d][n] = IF @ = "none" THEN "Idle" ELSE @]
    /\ open' = [open EXCEPT ![t] = [dev |-> d, nbr |-> n, pc |-> "delay"]]
    /\ UNCHANGED <<enabled, network, password, gr, llgr, ribIn, timers, downs, shut, shuts>>

SetPassword(d, n, pw) ==
    /\ Configures
    /\ session[d][n] # "none"
    /\ password' = [password EXCEPT ![d][n] = pw]
    /\ UNCHANGED <<enabled, network, session, gr, llgr, ribIn, open, timers, downs, shut,
                   shuts>>

SetGracefulRestart(d, on) ==
    /\ Configures
    /\ gr' = [gr EXCEPT ![d] = on]
    /\ UNCHANGED <<enabled, network, session, password, llgr, ribIn, open, timers, downs,
                   shut, shuts>>

SetLlgr(d, on) ==
    /\ Configures
    /\ UseLlgr
    /\ llgr' = [llgr EXCEPT ![d] = on]
    /\ UNCHANGED <<enabled, network, session, password, gr, ribIn, open, timers, downs,
                   shut, shuts>>

-----------------------------------------------------------------------------
(* _open_session of d towards n, running as coroutine t.                   *)

PeerPassword(d, n) == IF session[n][d] = "none" THEN NoPassword ELSE password[n][d]

\* Up to its first sleep: the neighbour is not running BGP, or the
\* passwords differ, or the session enters Connect.
BeginOpen(d, n, t) ==
    \/ /\ ~enabled[n]
       /\ session' = [session EXCEPT ![d][n] = "Active"]
       /\ open' = [open EXCEPT ![t] = NoTask]
    \/ /\ enabled[n]
       /\ password[d][n] # PeerPassword(d, n)
       /\ session' = [session EXCEPT ![d][n] = "Active",
                                     ![n][d] = IF @ = "none" THEN @ ELSE "Active"]
       /\ open' = [open EXCEPT ![t] = NoTask]
    \/ /\ enabled[n]
       /\ password[d][n] = PeerPassword(d, n)
       /\ session' = [session EXCEPT ![d][n] = "Connect"]
       /\ open' = [open EXCEPT ![t] = [dev |-> d, nbr |-> n, pc |-> "connect"]]

\* _delayed_open wakes up.
DelayedOpen(t) ==
    /\ open[t] # NoTask
    /\ open[t].pc = "delay"
    /\ LET d == open[t].dev
           n == open[t].nbr
       IN  IF session[d][n] = "Established"
           THEN open' = [open EXCEPT ![t] = NoTask] /\ UNCHANGED session
           ELSE BeginOpen(d, n, t)
    /\ UNCHANGED <<enabled, network, password, gr, llgr, ribIn, timers, downs, shut, shuts,
                   configs>>

\* Mutant of Step: the session is given the next state's name too early.
StepSwapped(t, from, st, to) ==
    /\ open[t] # NoTask
    /\ open[t].pc = from
    /\ session' = [session EXCEPT ![open[t].dev][open[t].nbr] = to]
    /\ open' = [open EXCEPT ![t].pc = to]
    /\ UNCHANGED <<enabled, network, password, gr, llgr, ribIn, timers, downs, shut, shuts,
                   configs>>

\* The loop over Connect, OpenSent and OpenConfirm wakes up from a sleep.
Step(t, from, st, to) ==
    /\ open[t] # NoTask
    /\ open[t].pc = from
    /\ session' = [session EXCEPT ![open[t].dev][open[t].nbr] = st]
    /\ open' = [open EXCEPT ![t].pc = to]
    /\ UNCHANGED <<enabled, network, password, gr, llgr, ribIn, timers, downs, shut, shuts,
                   configs>>

\* Mutant of Establish: the neighbour's end is left alone.
EstablishOneEnd(t) ==
    /\ open[t] # NoTask
    /\ open[t].pc = "openconfirm"
    /\ session' = [session EXCEPT ![open[t].dev][open[t].nbr] = "Established"]
    /\ open' = [open EXCEPT ![t].pc = "update1"]
    /\ UNCHANGED <<enabled, network, password, gr, llgr, ribIn, timers, downs, shut, shuts,
                   configs>>

\* The end of the handshake: both ends become Established, if the neighbour
\* has a session at all.
Establish(t) ==
    /\ open[t] # NoTask
    /\ open[t].pc = "openconfirm"
    /\ LET d == open[t].dev
           n == open[t].nbr
       IN  session' = [session EXCEPT ![d][n] = "Established",
                                      ![n][d] = IF @ = "none" THEN @ ELSE "Established"]
    /\ open' = [open EXCEPT ![t].pc = "update1"]
    /\ UNCHANGED <<enabled, network, password, gr, llgr, ribIn, timers, downs, shut, shuts,
                   configs>>

\* The two rounds of updates: _send_update of either end propagates if that
\* end is Established.
SendUpdates(t) ==
    /\ open[t] # NoTask
    /\ open[t].pc \in {"update1", "update2"}
    /\ LET d == open[t].dev
           n == open[t].nbr
       IN  ribIn' = IF session[d][n] = "Established" \/ session[n][d] = "Established"
                    THEN Propagated(ribIn, session, network)
                    ELSE ribIn
    /\ open' = IF open[t].pc = "update1" THEN [open EXCEPT ![t].pc = "update2"]
                                         ELSE [open EXCEPT ![t] = NoTask]
    /\ UNCHANGED <<enabled, network, session, password, gr, llgr, timers, downs, shut,
                   shuts, configs>>

-----------------------------------------------------------------------------
(* Loss of the link.                                                       *)

\* The two ends session_down treats: those that are Established.
DownEnds(d, n) == {e \in {<<d, n>>, <<n, d>>} : session[e[1]][e[2]] = "Established"}

Retains(d) == gr[d] \/ llgr[d]

\* Mutant of AfterDown: without Graceful Restart the route is kept.
AfterDownKept(x, y) ==
    IF Retains(x) /\ ribIn[x][y] # "none" THEN "stale" ELSE ribIn[x][y]

\* What session_down leaves of x's route from y.
AfterDown(x, y) ==
    IF ~Retains(x) THEN "none"
    ELSE IF ribIn[x][y] = "none" THEN "none" ELSE "stale"

SessionDown(d, n) ==
    LET ends == DownEnds(d, n)
        down == [x \in Device |-> [y \in Device |->
                    IF <<x, y>> \in ends THEN "Idle" ELSE session[x][y]]]
        kept == [x \in Device |-> [y \in Device |->
                    IF <<x, y>> \in ends THEN AfterDown(x, y) ELSE ribIn[x][y]]]
    IN  /\ session' = down
        /\ ribIn' = IF ends = {} THEN ribIn ELSE Propagated(kept, down, network)
        /\ downs' = [x \in Device |-> [y \in Device |->
                        IF <<x, y>> \in ends /\ Retains(x) THEN downs[x][y] + 1
                                                           ELSE downs[x][y]]]
        /\ timers' = [x \in Device |-> [y \in Device |->
                        IF <<x, y>> \in ends /\ gr[x] /\ ~llgr[x]
                        THEN timers[x][y] \cup {downs[x][y] + 1}
                        ELSE timers[x][y]]]

\* "shutdown" of d's interface to n.
Shutdown(d, n) ==
    /\ ~shut[d][n]
    /\ shuts[d][n] < MaxDown
    /\ shut' = [shut EXCEPT ![d][n] = TRUE]
    /\ shuts' = [shuts EXCEPT ![d][n] = @ + 1]
    /\ IF enabled[d] /\ session[d][n] # "none"
       THEN SessionDown(d, n)
       ELSE UNCHANGED <<session, ribIn, downs, timers>>
    /\ UNCHANGED <<enabled, network, password, gr, llgr, open, configs>>

\* "no shutdown" of d's interface to n: try_reestablish.
NoShutdown(d, n, t) ==
    /\ shut[d][n]
    /\ open[t] = NoTask
    /\ shut' = [shut EXCEPT ![d][n] = FALSE]
    /\ IF enabled[d] /\ session[d][n] \notin {"none", "Established"}
       THEN BeginOpen(d, n, t)
       ELSE UNCHANGED <<session, open>>
    /\ UNCHANGED <<enabled, network, password, gr, llgr, ribIn, timers, downs, shuts, configs>>

\* The oldest expiry coroutine of d's session towards n wakes up.
GrExpire(d, n) ==
    /\ timers[d][n] # {}
    /\ LET first == CHOOSE g \in timers[d][n] : \A h \in timers[d][n] : g <= h
       IN  timers' = [timers EXCEPT ![d][n] = @ \ {first}]
    /\ ribIn' = IF session[d][n] = "Established" THEN ribIn
                ELSE [ribIn EXCEPT ![d][n] = "none"]
    /\ UNCHANGED <<enabled, network, session, password, gr, llgr, open, downs, shut, shuts,
                   configs>>

-----------------------------------------------------------------------------
Next ==
    \/ \E d \in Device : Start(d) \/ AdvertiseNetwork(d)
    \/ \E d \in Device, t \in Task : \E n \in Peer(d) : AddNeighbor(d, n, t)
    \/ \E d \in Device, pw \in Password : \E n \in Peer(d) : SetPassword(d, n, pw)
    \/ \E d \in Device, on \in BOOLEAN : SetGracefulRestart(d, on) \/ SetLlgr(d, on)
    \/ \E t \in Task : DelayedOpen(t)
    \/ \E t \in Task : Step(t, "connect", "OpenSent", "opensent")
    \/ \E t \in Task : Step(t, "opensent", "OpenConfirm", "openconfirm")
    \/ \E t \in Task : Establish(t)
    \/ \E t \in Task : SendUpdates(t)
    \/ \E d \in Device : \E n \in Peer(d) : Shutdown(d, n)
    \/ \E d \in Device, t \in Task : \E n \in Peer(d) : NoShutdown(d, n, t)
    \/ \E d \in Device : \E n \in Peer(d) : GrExpire(d, n)

Spec == Init /\ [][Next]_vars

\* A sleeping coroutine wakes up some time; what the operator does is not fair.
OpenStep(t) ==
    \/ DelayedOpen(t)
    \/ Step(t, "connect", "OpenSent", "opensent")
    \/ Step(t, "opensent", "OpenConfirm", "openconfirm")
    \/ Establish(t)
    \/ SendUpdates(t)

Fairness == /\ \A t \in Task : WF_vars(OpenStep(t))
            /\ \A d, n \in Device : WF_vars(GrExpire(d, n))

FairSpec == Spec /\ Fairness

-----------------------------------------------------------------------------
(* Properties.                                                             *)

TypeOK ==
    /\ enabled \in [Device -> BOOLEAN]
    /\ network \in [Device -> BOOLEAN]
    /\ session \in [Device -> [Device -> States]]
    /\ password \in [Device -> [Device -> Password]]
    /\ gr \in [Device -> BOOLEAN]
    /\ llgr \in [Device -> BOOLEAN]
    /\ ribIn \in [Device -> [Device -> {"none", "fresh", "stale"}]]
    /\ open \in [Task -> Coroutine \cup {NoTask}]
    /\ timers \in [Device -> [Device -> SUBSET Nat]]
    /\ downs \in [Device -> [Device -> Nat]]
    /\ shut \in [Device -> [Device -> BOOLEAN]]
    /\ shuts \in [Device -> [Device -> Nat]]
    /\ configs \in Nat

\* A session that is Established at one end only, the other end having one,
\* is in the middle of that other end's own handshake: concurrent openings
\* from both sides, failed authentications and shutdowns leave no half-open
\* session behind.
NoHalfOpenSession ==
    \A d, n \in Device :
        (session[d][n] = "Established" /\ session[n][d] \notin {"Established", "none"})
            => \E t \in Running(n, d) : open[t].pc \notin {"update1", "update2"}

\* A route kept stale over an outage is refreshed or withdrawn by the updates
\* that follow the session's return: once the session is Established it is
\* stale only while one end's opening coroutine still has updates to send.
StaleIsTransient ==
    \A d, n \in Device :
        (ribIn[d][n] = "stale" /\ session[d][n] = "Established")
            => \E t \in RunningEither(d, n) : open[t].pc # "delay"

\* A route that counts as fresh on a configured session has a peer whose end
\* is Established, or an opening coroutine that will settle it, unless the
\* session was refused for its password (Active): no interleaving of teardown,
\* openings and refusals leaks it, with LLGR or without.
FreshIsBacked ==
    \A d, n \in Device :
        (ribIn[d][n] = "fresh" /\ session[d][n] \notin {"none", "Active"})
            => session[n][d] = "Established" \/ RunningEither(d, n) # {}

\* A stale route that an expiry coroutine waits for does not stay forever,
\* unless LLGR is to keep it: timers of several flaps, openings, refusals and
\* refreshes overlap, and one of them refreshes or withdraws it.
StaleEventuallyLeaves ==
    \A d \in Device : \A n \in Peer(d) :
        (ribIn[d][n] = "stale" /\ timers[d][n] # {})
            ~> (ribIn[d][n] # "stale" \/ llgr[d])

\* add_neighbor's comment: the outcome does not depend on the order of the
\* commands.  Two running routers that have each other as neighbours end up
\* Established, unless a password is set or a shutdown takes the session.
ConfiguredPeersEstablish ==
    \A pair \in {p \in SUBSET Device : Cardinality(p) = 2} :
        (\A d, n \in pair : d # n => session[d][n] # "none")
            ~> (\/ \A d, n \in pair : d # n => session[d][n] = "Established"
                \/ \E d, n \in pair : shuts[d][n] > 0 \/ password[d][n] # NoPassword)

\* _open_session's comment: a session refused for its password is in a state
\* that retries.  If the passwords come to agree for good and no interface is
\* ever shut, the session is Established in the end.
RefusedSessionRetries ==
    \A d \in Device : \A n \in Peer(d) :
        <>[](/\ session[d][n] # "none" /\ session[n][d] # "none"
             /\ password[d][n] = password[n][d]
             /\ shuts[d][n] = 0 /\ shuts[n][d] = 0)
          => <>(session[d][n] = "Established")

\* _schedule_gr_expiry's docstring: a stale route is removed when the session
\* was not re-established within restart_time of going down.  The expiry that
\* removes it is the one started by its latest down.
ExpiryCountsFromLatestDown ==
    [][\A d, n \in Device :
          (ribIn[d][n] = "stale" /\ ribIn'[d][n] = "none" /\ timers[d][n] # timers'[d][n])
              => downs[d][n] \in timers[d][n] \ timers'[d][n]]_vars

\* set_llgr's docstring: with LLGR a stale route is not removed by a timer.
LlgrOutlivesTimers ==
    [][\A d, n \in Device :
          (llgr[d] /\ ribIn[d][n] = "stale" /\ timers[d][n] # timers'[d][n])
              => ribIn'[d][n] # "none"]_vars

\* session_down's docstring: an interface down cuts the session.
ShutInterfaceHasNoSession ==
    \A d, n \in Device : shut[d][n] => session[d][n] # "Established"

\* session_down's docstring: learned routes are withdrawn, at both ends alike.
DownWithdrawsBothEnds ==
    [][\A d, n \in Device :
          (/\ shuts'[d][n] # shuts[d][n]
           /\ "Established" \in {session[d][n], session[n][d]}
           /\ enabled[d] /\ "none" \notin {session[d][n], session[n][d]})
              => ribIn'[d][n] # "fresh" /\ ribIn'[n][d] # "fresh"]_vars
=============================================================================
