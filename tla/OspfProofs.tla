----------------------------- MODULE OspfProofs -----------------------------
(***************************************************************************)
(* Proofs about Ospf, for any finite set of routers with distinct ids:     *)
(* what a Full router knows, that a sequence number names one LSA of a     *)
(* router that is not removed, and that the backup is not the DR.  The     *)
(* inductive invariant is OspfInv.                                         *)
(***************************************************************************)
EXTENDS Ospf, FiniteSetTheorems, WellFoundedInduction, TLAPS

\* In a finite set with a total transitive relation, somebody comes first.
LEMMA FiniteBest ==
    ASSUME NEW S, IsFiniteSet(S), S # {}, NEW R,
           \A x, y \in S : x # y => <<x, y>> \in R \/ <<y, x>> \in R,
           \A x, y, z \in S : <<x, y>> \in R /\ <<y, z>> \in R => <<x, z>> \in R
    PROVE  \E x \in S : \A y \in S \ {x} : <<x, y>> \in R
<1> DEFINE Has(T) == \E x \in T : \A y \in T \ {x} : <<x, y>> \in R
           W == {T \in SUBSET S : T # {} /\ ~Has(T)}
           O == StrictSubsetOrdering(S)
<1>1. IsWellFoundedOn(O, SUBSET S)
  BY FS_StrictSubsetOrderingWellFounded, FS_FiniteSubsetsOfFinite
<1>2. \A T, U \in SUBSET S : U \subseteq T /\ U # T => <<U, T>> \in O
  BY DEF StrictSubsetOrdering
<1> HIDE DEF O
<1>3. SUFFICES ASSUME ~Has(S) PROVE FALSE
  OBVIOUS
<1>4. S \in W /\ W \subseteq SUBSET S
  BY <1>3
<1>5. PICK T \in W : \A U \in W : <<U, T>> \notin O
  <2> HIDE DEF W
  <2>1. W # {}
    BY <1>4
  <2>2. QED
    BY <1>1, <1>4, <2>1, WFMin
<1>6. PICK x \in T : TRUE
  OBVIOUS
<1> DEFINE U == T \ {x}
<1>7. U # {}
  <2>1. CASE U = {}
    <3>1. Has(T)
      BY <1>6, <2>1
    <3>2. QED
      BY <3>1, <1>5
  <2>2. QED
    BY <2>1
<1>8. Has(U)
  <2>1. U \subseteq T /\ U # T /\ U \in SUBSET S /\ T \in SUBSET S
    BY <1>5, <1>6
  <2>2. <<U, T>> \in O
    BY <1>2, <2>1
  <2>3. U \notin W
    BY <1>5, <2>2
  <2>4. QED
    BY <2>1, <2>3, <1>7
<1>9. PICK y \in U : \A z \in U \ {y} : <<y, z>> \in R
  BY <1>8
<1>10. x \in S /\ y \in S /\ x # y /\ T \subseteq S
  BY <1>5, <1>6, <1>9
<1>11. Has(T)
  <2>1. CASE <<y, x>> \in R
    <3>1. \A z \in T \ {y} : <<y, z>> \in R
      BY <1>9, <2>1
    <3>2. QED
      BY <3>1, <1>9
  <2>2. CASE <<x, y>> \in R
    <3>1. ASSUME NEW z \in T \ {x} PROVE <<x, z>> \in R
      <4>1. CASE z = y
        BY <4>1, <2>2
      <4>2. CASE z # y
        BY <4>2, <2>2, <1>9, <1>10, <3>1
      <4>3. QED
        BY <4>1, <4>2
    <3>2. QED
      BY <3>1, <1>6
  <2>3. QED
    BY <2>1, <2>2, <1>10
<1>12. QED
  BY <1>11, <1>5

\* An election has a winner: priorities and router ids order the candidates.
LEMMA BestWins ==
    ASSUME priority \in [Router -> Priority], NEW S, S \subseteq Router
    PROVE  IF S = {} THEN Best(S) = NoOne ELSE Best(S) \in S
<1>1. CASE S = {}
  BY <1>1 DEF Best
<1>2. CASE S # {}
  <2> DEFINE R == {e \in S \X S : Beats(e[1], e[2])}
  <2>1. \A x, y \in S : <<x, y>> \in R <=> Beats(x, y)
    OBVIOUS
  <2>2. \A p \in S : priority[p] \in Nat /\ RouterId[p] \in Nat
    BY OspfAssumption
  <2>3. \A x, y \in S : x # y => RouterId[x] # RouterId[y]
    BY OspfAssumption
  <2>4. \A x, y \in S : x # y => Beats(x, y) \/ Beats(y, x)
    BY <2>2, <2>3 DEF Beats
  <2>5. \A x, y, z \in S : Beats(x, y) /\ Beats(y, z) => Beats(x, z)
    BY <2>2 DEF Beats
  <2>6. IsFiniteSet(S)
    BY OspfAssumption, FS_Subset
  <2>7. \E x \in S : \A y \in S \ {x} : <<x, y>> \in R
    <3> HIDE DEF R
    <3>1. /\ \A x, y \in S : x # y => <<x, y>> \in R \/ <<y, x>> \in R
          /\ \A x, y, z \in S : <<x, y>> \in R /\ <<y, z>> \in R => <<x, z>> \in R
      BY <2>1, <2>4, <2>5
    <3>2. QED
      BY <3>1, <2>6, <1>2, FiniteBest
  <2>8. \E x \in S : \A y \in S \ {x} : Beats(x, y)
    BY <2>1, <2>7
  <2>9. Best(S) = CHOOSE p \in S : \A q \in S \ {p} : Beats(p, q)
    BY <1>2 DEF Best
  <2>10. QED
    BY <2>8, <2>9, <1>2
<1>3. QED
  BY <1>1, <1>2

\* What a router brings into a merge: the LSA of K that it issues, else its copy.
Copy(K, table, k, d) == IF k[2] = d /\ k \in K THEN Issued(table, k) ELSE lsdb[d][k]

\* An LSA that is issued names routers.
LEMMA IssuedIsLsa ==
    ASSUME seq \in [Router -> Nat \ {0}], NEW table, NEW k \in Key
    PROVE  Issued(table, k) \in Lsa /\ Issued(table, k).seq = seq[k[2]]
<1>1. k[2] \in Router
  BY DEF Key
<1>2. QED
  BY <1>1 DEF Issued, Lsa, Full

\* So does everything that takes part in a merge.
LEMMA CopyIsLsa ==
    ASSUME TypeOK, NEW K, NEW table, NEW k \in Key, NEW d \in Router
    PROVE  Copy(K, table, k, d) \in Lsa
<1>1. lsdb[d][k] \in Lsa
  BY DEF TypeOK
<1>2. Issued(table, k) \in Lsa
  BY IssuedIsLsa DEF TypeOK
<1>3. QED
  BY <1>1, <1>2 DEF Copy

\* A merge keeps one of the copies, and none has a higher number.
LEMMA NewestIsMaximal ==
    ASSUME TypeOK, NEW S, S \subseteq Router, S # {}, NEW K, NEW table, NEW k \in Key
    PROVE  /\ \E d \in S : Newest(S, K, table, k) = Copy(K, table, k, d)
           /\ \A d \in S : Copy(K, table, k, d).seq <= Newest(S, K, table, k).seq
<1> DEFINE copies == {Copy(K, table, k, d) : d \in S}
           Later == {e \in S \X S : Copy(K, table, k, e[1]).seq >= Copy(K, table, k, e[2]).seq}
<1>1. Newest(S, K, table, k) = CHOOSE c \in copies : \A e \in copies : e.seq <= c.seq
  BY DEF Newest, Copy
<1>2. \A d \in S : Copy(K, table, k, d).seq \in Nat
  BY CopyIsLsa DEF Lsa
<1>3. \A x, y \in S : <<x, y>> \in Later <=> Copy(K, table, k, x).seq >= Copy(K, table, k, y).seq
  OBVIOUS
<1>4. IsFiniteSet(S)
  BY OspfAssumption, FS_Subset
<1>5. PICK x \in S : \A y \in S \ {x} : <<x, y>> \in Later
  <2> HIDE DEF Later
  <2>1. /\ \A a, b \in S : a # b => <<a, b>> \in Later \/ <<b, a>> \in Later
        /\ \A a, b, c \in S : <<a, b>> \in Later /\ <<b, c>> \in Later => <<a, c>> \in Later
    BY <1>2, <1>3
  <2>2. QED
    BY <2>1, <1>4, FiniteBest
<1>6. ASSUME NEW y \in S PROVE Copy(K, table, k, y).seq <= Copy(K, table, k, x).seq
  <2> HIDE DEF Later
  <2>1. CASE y = x
    BY <1>2, <2>1
  <2>2. CASE y # x
    BY <1>3, <1>5, <2>2
  <2>3. QED
    BY <2>1, <2>2
<1>7. \E c \in copies : \A e \in copies : e.seq <= c.seq
  BY <1>6
<1>8. /\ Newest(S, K, table, k) \in copies
      /\ \A e \in copies : e.seq <= Newest(S, K, table, k).seq
  <2> HIDE DEF copies
  <2>1. QED
    BY <1>1, <1>7
<1>9. QED
  BY <1>8
\* A router is in the pool that its database is merged from, and the two
\* routers of a handshake are in the pool of each other.
LEMMA PoolFacts ==
    ASSUME NEW r \in Router, NEW pair, pair \subseteq Router
    PROVE  /\ Pool(r, pair) \subseteq Router
           /\ r \in Pool(r, pair)
           /\ r \in pair => pair \subseteq Pool(r, pair)
<1> DEFINE flood == IF enabled[r] THEN Component(r) ELSE {r}
<1>1. r \in Component(r) /\ Component(r) \subseteq Router
  BY DEF Component
<1>2. r \in flood /\ flood \subseteq Router
  BY <1>1
<1>3. Pool(r, pair) = IF flood \cap pair # {} THEN flood \cup pair ELSE flood
  BY DEF Pool
<1> HIDE DEF flood
<1>4. QED
  BY <1>2, <1>3

\* The same of the databases merged at the end of a handshake.
LEMMA MergedFacts ==
    ASSUME NEW r \in Router, NEW d \in Router, NEW p \in Router
    PROVE  /\ Merged(r, d, p) \subseteq Router
           /\ r \in Merged(r, d, p)
           /\ Met(d, p) /\ r = p => d \in Merged(r, d, p)
<1>1. {d, p} \subseteq Router
  OBVIOUS
<1>2. QED
  BY <1>1, PoolFacts DEF Merged

\* What is issued at the end of a handshake: LSAs of routers that issue their
\* Router LSA, and that of d if d and p have nodes.
LEMMA IssuedAtEndFacts ==
    ASSUME NEW d \in Router, NEW p \in Router
    PROVE  /\ IssuedAtEnd(d, p) \subseteq Key
           /\ \A k \in IssuedAtEnd(d, p) : <<"router", k[2]>> \in IssuedAtEnd(d, p)
           /\ Met(d, p) => <<"router", d>> \in IssuedAtEnd(d, p)
           /\ p \in nodes => <<"router", p>> \in IssuedAtEnd(d, p)
<1>1. CASE Met(d, p)
  <2>1. IssuedAtEnd(d, p) = Issues(Active \cup {d, p})
    BY <1>1 DEF IssuedAtEnd
  <2>2. \A q \in Router : <<"router", q>> \in Key
    BY DEF Key
  <2>3. \A k \in Key : k[2] \in Router
    BY DEF Key
  <2>4. QED
    BY <2>1, <2>2, <2>3 DEF Issues
<1>2. CASE ~Met(d, p)
  <2>1. IssuedAtEnd(d, p) = {<<"router", q>> : q \in {p} \cap nodes}
    BY <1>2 DEF IssuedAtEnd
  <2>2. QED
    BY <1>2, <2>1 DEF Key
<1>3. QED
  BY <1>1, <1>2

\* Sequence numbers start at 1: a copy with number 0 is one that is not there.
\* no router ospf and a removal bring such copies back, so the numbers could not
\* tell without it.
ZeroIsNoLsa == \A k \in Key, d \in Router : lsdb[d][k].seq = 0 => lsdb[d][k] = NoLsa

\* What runs has a node: a running process, a hello loop of a router that has
\* not been removed, and the peer whose table has the neighbour of a handshake.
HasNode ==
    /\ \A d \in Router : enabled[d] => d \in nodes
    /\ \A d \in Router, g \in Removals :
          /\ loop[d][g] # Ended /\ removals[d] = 0 => d \in nodes
          /\ loop[d][g].kept => loop[d][g].at \in nodes

OspfInv ==
    /\ TypeOK /\ FullKnowsLsa /\ SequenceNumbersTell /\ ZeroIsNoLsa /\ BackupIsAnother
    /\ HasNode

\* Forgetting a neighbour changes what its handshakes are for, and nothing else.
LEMMA ForgottenFacts ==
    ASSUME TypeOK, NEW d \in Router, NEW P
    PROVE  /\ Forgotten(d, P) \in [Router -> [Removals -> Loop]]
           /\ \A x \in Router, g \in Removals :
                 /\ Forgotten(d, P)[x][g] # Ended => loop[x][g] # Ended
                 /\ Forgotten(d, P)[x][g].kept =>
                       /\ loop[x][g].kept
                       /\ Forgotten(d, P)[x][g].at = loop[x][g].at
                       /\ x \in P => loop[x][g].at # d
<1>1. ASSUME NEW x \in Router, NEW g \in Removals
      PROVE  /\ Forgotten(d, P)[x][g] \in Loop
             /\ Forgotten(d, P)[x][g] # Ended => loop[x][g] # Ended
             /\ Forgotten(d, P)[x][g].kept =>
                   /\ loop[x][g].kept
                   /\ Forgotten(d, P)[x][g].at = loop[x][g].at
                   /\ x \in P => loop[x][g].at # d
  <2>1. loop[x][g] \in Loop
    BY DEF TypeOK
  <2>2. Forgotten(d, P)[x][g] = IF x \in P /\ loop[x][g].at = d
                                THEN [loop[x][g] EXCEPT !.kept = FALSE] ELSE loop[x][g]
    BY DEF Forgotten
  <2>3. Ended.at # d
    BY OspfAssumption DEF Ended
  <2>4. CASE x \in P /\ loop[x][g].at = d
    BY <2>1, <2>2, <2>3, <2>4 DEF Loop
  <2>5. CASE ~(x \in P /\ loop[x][g].at = d)
    BY <2>1, <2>2, <2>5
  <2>6. QED
    BY <2>4, <2>5
<1>2. Forgotten(d, P) \in [Router -> [Removals -> Loop]]
  BY <1>1 DEF Forgotten
<1>3. QED
  BY <1>1, <1>2

\* An election leaves every router with a DR and another backup.
LEMMA ElectFacts ==
    ASSUME TypeOK, BackupIsAnother, NEW d \in Router, NEW table, Elect(d, table)
    PROVE  /\ dr' \in [Router -> Router \cup {NoOne}]
           /\ bdr' \in [Router -> Router \cup {NoOne}]
           /\ BackupIsAnother'
<1> DEFINE C == Candidates(d, table)
<1>1. C \subseteq Router
  BY DEF Candidates, TypeOK
<1>2. CASE C = {}
  BY <1>2 DEF Elect, TypeOK, BackupIsAnother
<1>3. CASE C # {}
  <2>1. Dr(d, table) \in C
    BY <1>1, <1>3, BestWins DEF Dr, TypeOK
  <2>2. Bdr(d, table) \in (C \ {Dr(d, table)}) \cup {NoOne}
    BY <1>1, <2>1, BestWins DEF Bdr, TypeOK
  <2>3. dr' = [dr EXCEPT ![d] = Dr(d, table)] /\ bdr' = [bdr EXCEPT ![d] = Bdr(d, table)]
    BY <1>3 DEF Elect
  <2>4. Dr(d, table) \in Router /\ Bdr(d, table) \in Router \cup {NoOne}
    BY <1>1, <2>1, <2>2
  <2>5. Dr(d, table) # NoOne /\ Bdr(d, table) # Dr(d, table)
    BY <1>1, <2>1, <2>2, OspfAssumption
  <2>6. /\ dr' \in [Router -> Router \cup {NoOne}]
        /\ bdr' \in [Router -> Router \cup {NoOne}]
    BY <2>3, <2>4 DEF TypeOK
  <2>7. ASSUME NEW x \in Router, dr'[x] # NoOne PROVE bdr'[x] # dr'[x]
    <3>1. CASE x = d
      BY <3>1, <2>3, <2>5 DEF TypeOK
    <3>2. CASE x # d
      BY <3>2, <2>3, <2>7 DEF BackupIsAnother, TypeOK
    <3>3. QED
      BY <3>1, <3>2
  <2>8. QED
    BY <2>6, <2>7 DEF BackupIsAnother
<1>4. QED
  BY <1>2, <1>3

\* The end of a handshake: what is in a database afterwards is one of the
\* copies of its pool, or the Network LSA of a router just promoted.
LEMMA LoadingDoneSafe ==
    ASSUME OspfInv, NEW d \in Router, NEW g \in Removals, LoadingDone(d, g)
    PROVE  OspfInv'
<1> DEFINE p == loop[d][g].at
           table == IF loop[d][g].kept THEN [nbrs EXCEPT ![p][d] = "Full"] ELSE nbrs
           issued == IssuedAtEnd(d, p)
           pools == [r \in Router |-> Merged(r, d, p)]
           merged(r, k) == Newest(pools[r], issued, table, k)
           first == <<"network", p>>
           up(r) == r = p /\ Promoted(p, table)
           again(r, k) == k = first /\ up(r)
<1>1. TypeOK /\ FullKnowsLsa /\ SequenceNumbersTell /\ ZeroIsNoLsa /\ BackupIsAnother /\ HasNode
  BY DEF OspfInv
<1>2. p \in Router /\ loop[d][g] \in Loop /\ p # NoOne
  BY <1>1 DEF LoadingDone, WakesUp, TypeOK, Loop
<1>3. /\ nbrs' = table
      /\ Elect(p, table)
      /\ lsdb' = [r \in Router |-> [k \in Key |->
                     IF again(r, k) THEN [Issued(table, first) EXCEPT !.seq = @ + 1]
                     ELSE merged(r, k)]]
      /\ seq' = [r \in Router |-> IF <<"router", r>> \notin issued THEN seq[r]
                                  ELSE seq[r] + 1 + IF up(r) THEN 1 ELSE 0]
      /\ routes' = [r \in Router |-> IF Met(d, p) /\ enabled[r] THEN Spf(lsdb'[r], r)
                                     ELSE routes[r]]
      /\ loop' = [loop EXCEPT ![d][g].at = NoOne, ![d][g].kept = FALSE]
      /\ UNCHANGED <<config, late, electing, commands>>
  BY DEF LoadingDone, WakesUp
<1>4. table \in [Router -> [Router -> {"Down", "Init", "Full"}]]
  BY <1>1, <1>2 DEF TypeOK
<1>5. first \in Key /\ first[2] = p
  BY <1>2 DEF Key
<1>6. /\ \A k \in issued : <<"router", k[2]>> \in issued
      /\ Met(d, p) => <<"router", d>> \in issued
      /\ p \in nodes => <<"router", p>> \in issued
  BY <1>2, IssuedAtEndFacts
<1> DEFINE C(k, x) == Copy(issued, table, k, x)
           P(r) == pools[r]
<1>7. \A r \in Router : P(r) \subseteq Router /\ r \in P(r) /\ (Met(d, p) /\ r = p => d \in P(r))
  BY <1>2, MergedFacts
<1>8. \A r \in Router, k \in Key :
          /\ \E x \in P(r) : merged(r, k) = C(k, x)
          /\ \A x \in P(r) : C(k, x).seq <= merged(r, k).seq
  <2> HIDE DEF p, table, issued, P
  <2>1. \A r \in Router : P(r) \subseteq Router /\ P(r) # {}
    BY <1>7
  <2> SUFFICES ASSUME NEW r \in Router, NEW k \in Key
               PROVE  /\ \E x \in P(r) : Newest(P(r), issued, table, k) = Copy(issued, table, k, x)
                      /\ \A x \in P(r) : Copy(issued, table, k, x).seq
                                          <= Newest(P(r), issued, table, k).seq
    BY DEF P
  <2>2. QED
    BY <1>1, <2>1, NewestIsMaximal
<1>9. \A k \in Key, x \in Router : C(k, x) \in Lsa
  BY <1>1, CopyIsLsa
<1>10. \A k \in Key : Issued(table, k) \in Lsa /\ Issued(table, k).seq = seq[k[2]]
  BY <1>1, IssuedIsLsa DEF TypeOK
<1>11. \A k \in Key : k[2] \in Router
  BY DEF Key
<1>12. \A k \in Key, x \in Router :
           \/ C(k, x) = Issued(table, k) /\ k \in issued
           \/ /\ C(k, x) = lsdb[x][k]
              /\ removals[k[2]] = 0 => lsdb[x][k].seq < seq[k[2]]
  BY <1>1 DEF Copy, SequenceNumbersTell
<1>13. \A r \in Router : up(r) => r \in nodes
  <2>1. Promoted(p, table) => Candidates(p, table) # {} /\ Dr(p, table) = p
    BY DEF Promoted
  <2>2. Candidates(p, table) \subseteq nodes /\ Candidates(p, table) \subseteq Router
    BY <1>1 DEF Candidates, TypeOK
  <2>3. Candidates(p, table) # {} => Dr(p, table) \in Candidates(p, table)
    BY <1>1, <2>2, BestWins DEF Dr, TypeOK
  <2>4. QED
    BY <2>1, <2>2, <2>3
<1>14. loop' = [loop EXCEPT ![d][g] = [loop[d][g] EXCEPT !.at = NoOne, !.kept = FALSE]]
  BY <1>1, <1>3 DEF TypeOK, Loop
<1> HIDE DEF p, table, issued, up, pools
<1> HIDE DEF C, P
<1>20. TypeOK'
  <2>1. nbrs' \in [Router -> [Router -> {"Down", "Init", "Full"}]]
    BY <1>3, <1>4
  <2>2. seq' \in [Router -> Nat \ {0}]
    <3>1. \A r \in Router : seq[r] \in Nat \ {0}
      BY <1>1 DEF TypeOK
    <3>2. \A r \in Router : (IF up(r) THEN 1 ELSE 0) \in Nat
      OBVIOUS
    <3>3. \A r \in Router : seq[r] + 1 + (IF up(r) THEN 1 ELSE 0) \in Nat \ {0}
      BY <3>1, <3>2
    <3>4. QED
      BY <1>3, <3>1, <3>3
  <2>3. lsdb' \in [Router -> [Key -> Lsa]]
    <3>1. \A r \in Router, k \in Key : merged(r, k) \in Lsa
      BY <1>7, <1>8, <1>9
    <3>2. [Issued(table, first) EXCEPT !.seq = @ + 1] \in Lsa
      BY <1>5, <1>10 DEF Lsa
    <3> HIDE DEF merged, first
    <3>3. QED
      BY <1>3, <3>1, <3>2
  <2>4. routes' \in [Router -> SUBSET Router]
    <3>1. \A r \in Router : Spf(lsdb'[r], r) \subseteq Router /\ routes[r] \subseteq Router
      BY <1>1 DEF Spf, TypeOK
    <3>2. QED
      BY <1>3, <3>1
  <2>5. loop' \in [Router -> [Removals -> Loop]]
    <3>1. [loop[d][g] EXCEPT !.at = NoOne, !.kept = FALSE] \in Loop
      BY <1>2 DEF Loop
    <3>2. QED
      BY <1>1, <1>14, <3>1 DEF TypeOK
  <2>6. dr' \in [Router -> Router \cup {NoOne}] /\ bdr' \in [Router -> Router \cup {NoOne}]
    BY <1>1, <1>2, <1>3, ElectFacts
  <2>7. QED
    BY <1>1, <1>3, <2>1, <2>2, <2>3, <2>4, <2>5, <2>6 DEF TypeOK, config, topology
<1>21. FullKnowsLsa'
  <2>1. SUFFICES ASSUME NEW x \in Router, NEW y \in Router, nbrs'[x][y] = "Full", removals[y] = 0
                 PROVE  lsdb'[x][<<"router", y>>].seq > 0
    BY <1>3 DEF FullKnowsLsa, config, topology
  <2> DEFINE k == <<"router", y>>
  <2>2. k \in Key /\ k # first /\ k[2] = y
    BY DEF Key
  <2>3. lsdb'[x][k] = merged(x, k)
    BY <1>3, <2>2
  <2>4. \E z \in P(x) : z \in Router /\ C(k, z).seq > 0
    <3>1. CASE x = p /\ y = d /\ loop[d][g].kept
      <4>0. Met(d, p)
        <5>1. loop[d][g] # Ended
          BY <3>1 DEF Ended
        <5>2. QED
          BY <1>1, <2>1, <3>1, <5>1 DEF HasNode, Met, p
      <4>1. d \in P(x) /\ d \in Router
        BY <1>7, <1>2, <3>1, <4>0
      <4>2. C(k, d) = Issued(table, k)
        BY <2>2, <3>1, <4>0, <1>6 DEF C, Copy
      <4>3. seq[d] \in Nat \ {0}
        BY <1>1 DEF TypeOK
      <4>4. C(k, d).seq > 0
        BY <4>2, <4>3, <1>10, <2>2, <3>1
      <4>5. QED
        BY <4>1, <4>4
    <3>2. CASE ~(x = p /\ y = d /\ loop[d][g].kept)
      <4>1. nbrs[x][y] = "Full"
        BY <1>1, <1>2, <1>3, <2>1, <3>2 DEF table, TypeOK
      <4>2. lsdb[x][k].seq > 0
        BY <1>1, <2>1, <4>1 DEF FullKnowsLsa
      <4>3. seq[y] \in Nat \ {0}
        BY <1>1 DEF TypeOK
      <4>4. C(k, x).seq > 0
        BY <4>2, <4>3, <2>2, <1>10, <1>12
      <4>5. QED
        BY <4>4, <1>7
    <3>3. QED
      BY <3>1, <3>2
  <2>5. PICK z \in P(x) : z \in Router /\ C(k, z).seq > 0
    BY <2>4
  <2>6. C(k, z).seq <= merged(x, k).seq
    BY <1>8, <2>2
  <2>7. PICK v \in P(x) : merged(x, k) = C(k, v)
    BY <1>8, <2>2
  <2>8. merged(x, k).seq \in Nat /\ C(k, z).seq \in Nat
    BY <1>7, <1>9, <2>2, <2>5, <2>7 DEF Lsa
  <2>9. merged(x, k).seq > 0
    BY <2>5, <2>6, <2>8
  <2>10. QED
    BY <2>3, <2>9
<1>22. SequenceNumbersTell'
  <2>1. \A k \in Key : seq[k[2]] \in Nat \ {0}
    BY <1>1, <1>11 DEF TypeOK
  <2>2. \A k \in Key : seq'[k[2]] = IF <<"router", k[2]>> \notin issued THEN seq[k[2]]
                                   ELSE seq[k[2]] + 1 + IF up(k[2]) THEN 1 ELSE 0
    BY <1>3, <1>11
  <2>0. \A k \in Key : /\ seq[k[2]] <= seq'[k[2]]
                       /\ <<"router", k[2]>> \in issued => seq[k[2]] < seq'[k[2]]
    <3>1. SUFFICES ASSUME NEW k \in Key
                   PROVE  /\ seq[k[2]] <= seq'[k[2]]
                          /\ <<"router", k[2]>> \in issued => seq[k[2]] < seq'[k[2]]
      OBVIOUS
    <3>2. (IF up(k[2]) THEN 1 ELSE 0) \in Nat
      OBVIOUS
    <3>3. seq[k[2]] \in Nat
      BY <2>1
    <3>4. QED
      BY <2>2, <3>2, <3>3
  <2>3. \A k \in Key, r \in Router :
            lsdb'[r][k] = IF again(r, k) THEN [Issued(table, first) EXCEPT !.seq = @ + 1]
                          ELSE merged(r, k)
    BY <1>3
  <2>4. \A k \in Key, r \in Router : \E x \in Router : merged(r, k) = C(k, x)
    BY <1>7, <1>8
  <2>5. ASSUME NEW k \in Key, NEW r \in Router, removals[k[2]] = 0
        PROVE  /\ merged(r, k).seq \in Nat
               /\ merged(r, k).seq <= seq[k[2]]
               /\ merged(r, k).seq < seq'[k[2]]
    <3>1. PICK x \in Router : merged(r, k) = C(k, x)
      BY <2>4
    <3>2. C(k, x).seq \in Nat
      BY <1>9 DEF Lsa
    <3>3. CASE C(k, x) = Issued(table, k) /\ k \in issued
      <4>1. merged(r, k).seq = seq[k[2]]
        BY <3>1, <3>3, <1>10
      <4>2. seq[k[2]] \in Nat /\ seq'[k[2]] \in Nat
        BY <1>11, <1>20, <2>1 DEF TypeOK
      <4>3. <<"router", k[2]>> \in issued
        BY <3>3, <1>6
      <4>4. seq[k[2]] < seq'[k[2]]
        BY <4>3, <2>0
      <4> HIDE DEF merged, issued
      <4>5. QED
        BY <4>1, <4>2, <4>4
    <3>4. CASE C(k, x) = lsdb[x][k] /\ (removals[k[2]] = 0 => lsdb[x][k].seq < seq[k[2]])
      <4>1. seq[k[2]] \in Nat /\ seq'[k[2]] \in Nat /\ seq[k[2]] <= seq'[k[2]]
        BY <1>11, <1>20, <2>0, <2>1 DEF TypeOK
      <4>2. merged(r, k).seq = lsdb[x][k].seq /\ lsdb[x][k].seq \in Nat
        BY <3>1, <3>2, <3>4
      <4> HIDE DEF merged
      <4>3. QED
        BY <2>5, <3>4, <4>1, <4>2
    <3>5. QED
      BY <1>12, <2>5, <3>3, <3>4
  <2>6. ASSUME NEW k \in Key, NEW r \in Router, NEW s \in Router, removals[k[2]] = 0,
               merged(r, k).seq = merged(s, k).seq
        PROVE  merged(r, k) = merged(s, k)
    <3>1. PICK x \in Router : merged(r, k) = C(k, x)
      BY <2>4
    <3>2. PICK y \in Router : merged(s, k) = C(k, y)
      BY <2>4
    <3>3. seq[k[2]] \in Nat /\ Issued(table, k).seq = seq[k[2]]
      BY <2>1, <1>10
    <3>4. lsdb[x][k].seq \in Nat /\ lsdb[y][k].seq \in Nat
      BY <1>1 DEF TypeOK, Lsa
    <3>5. lsdb[x][k].seq = lsdb[y][k].seq => lsdb[x][k] = lsdb[y][k]
      BY <1>1, <2>6 DEF SequenceNumbersTell
    <3>6. /\ C(k, x) = Issued(table, k) \/ (C(k, x) = lsdb[x][k] /\ lsdb[x][k].seq < seq[k[2]])
          /\ C(k, y) = Issued(table, k) \/ (C(k, y) = lsdb[y][k] /\ lsdb[y][k].seq < seq[k[2]])
      BY <1>12, <2>6
    <3> HIDE DEF merged
    <3>7. C(k, x).seq = C(k, y).seq
      BY <3>1, <3>2, <2>6
    <3>8. C(k, x) = C(k, y)
      BY <3>3, <3>4, <3>5, <3>6, <3>7
    <3>9. QED
      BY <3>1, <3>2, <3>8
  <2>7. ASSUME NEW k \in Key, NEW r \in Router, again(r, k)
        PROVE  lsdb'[r][k].seq = seq[k[2]] + 1 /\ lsdb'[r][k].seq < seq'[k[2]]
    <3>1. k[2] = p /\ k = first /\ up(p) /\ r = p
      BY <2>7, <1>5 DEF up
    <3>2. lsdb'[r][k].seq = seq[k[2]] + 1
      BY <3>1, <2>3, <2>7, <1>5, <1>10 DEF Lsa
    <3>3. seq'[k[2]] = seq[k[2]] + 1 + 1
      BY <3>1, <2>2, <1>6, <1>13
    <3>4. QED
      BY <3>2, <3>3, <2>1
  <2> HIDE DEF merged, first
  <2>8. ASSUME NEW k \in Key, NEW r \in Router, removals[k[2]] = 0
        PROVE  lsdb'[r][k].seq < seq'[k[2]]
    <3>1. CASE again(r, k)
      BY <3>1, <2>7
    <3>2. CASE ~again(r, k)
      <4>1. lsdb'[r][k] = merged(r, k)
        BY <3>2, <2>3
      <4>2. QED
        BY <4>1, <2>5, <2>8
    <3>3. QED
      BY <3>1, <3>2
  <2>9. ASSUME NEW k \in Key, NEW r \in Router, NEW s \in Router, removals[k[2]] = 0,
               lsdb'[r][k].seq = lsdb'[s][k].seq
        PROVE  lsdb'[r][k] = lsdb'[s][k]
    <3>1. CASE again(r, k) /\ again(s, k)
      <4>1. r = s
        BY <3>1 DEF up
      <4>2. QED
        BY <4>1
    <3>2. CASE again(r, k) /\ ~again(s, k)
      <4>1. lsdb'[s][k] = merged(s, k)
        BY <3>2, <2>3
      <4>2. QED
        BY <4>1, <3>2, <2>1, <2>5, <2>7, <2>9
    <3>3. CASE ~again(r, k) /\ again(s, k)
      <4>1. lsdb'[r][k] = merged(r, k)
        BY <3>3, <2>3
      <4>2. QED
        BY <4>1, <3>3, <2>1, <2>5, <2>7, <2>9
    <3>4. CASE ~again(r, k) /\ ~again(s, k)
      <4>1. lsdb'[r][k] = merged(r, k) /\ lsdb'[s][k] = merged(s, k)
        BY <3>4, <2>3
      <4>2. QED
        BY <4>1, <2>6, <2>9
    <3>5. QED
      BY <3>1, <3>2, <3>3, <3>4
  <2>10. QED
    BY <1>3, <2>8, <2>9 DEF SequenceNumbersTell, config, topology
<1>23. BackupIsAnother'
  BY <1>1, <1>2, <1>3, ElectFacts
<1>24. ZeroIsNoLsa'
  <2>1. SUFFICES ASSUME NEW k \in Key, NEW r \in Router, lsdb'[r][k].seq = 0
                 PROVE  lsdb'[r][k] = NoLsa
    BY DEF ZeroIsNoLsa
  <2>2. seq[k[2]] \in Nat \ {0} /\ seq[p] \in Nat \ {0}
    BY <1>1, <1>2, <1>11 DEF TypeOK
  <2>3. ~again(r, k)
    <3>1. CASE again(r, k)
      <4>1. lsdb'[r][k] = [Issued(table, first) EXCEPT !.seq = @ + 1]
        BY <1>3, <3>1
      <4>2. lsdb'[r][k].seq = seq[p] + 1
        BY <4>1, <1>5, <1>10 DEF Lsa
      <4>3. QED
        BY <2>1, <2>2, <4>2
    <3>2. QED
      BY <3>1
  <2>4. lsdb'[r][k] = merged(r, k)
    BY <1>3, <2>3
  <2>5. PICK x \in P(r) : merged(r, k) = C(k, x)
    BY <1>8
  <2>6. C(k, x) # Issued(table, k)
    BY <1>10, <2>1, <2>2, <2>4, <2>5
  <2>7. x \in Router /\ C(k, x) = lsdb[x][k]
    BY <1>7, <1>12, <2>6
  <2>8. QED
    BY <1>1, <2>1, <2>4, <2>5, <2>7 DEF ZeroIsNoLsa
<1>25. HasNode'
  <2>1. ASSUME NEW x \in Router, NEW y \in Removals
        PROVE  /\ loop'[x][y] # Ended /\ removals[x] = 0 => x \in nodes
               /\ loop'[x][y].kept => loop'[x][y].at \in nodes
    <3>1. CASE x = d /\ y = g
      <4>1. loop'[x][y].kept = FALSE
        BY <1>1, <1>2, <1>14, <3>1 DEF TypeOK, Loop
      <4>2. loop[d][g] # Ended
        BY <1>2 DEF Ended, p
      <4>3. QED
        BY <1>1, <3>1, <4>1, <4>2 DEF HasNode
    <3>2. CASE ~(x = d /\ y = g)
      <4>1. loop'[x][y] = loop[x][y]
        BY <1>1, <1>14, <3>2 DEF TypeOK
      <4>2. QED
        BY <1>1, <4>1 DEF HasNode
    <3>3. QED
      BY <3>1, <3>2
  <2>2. QED
    BY <1>1, <1>3, <2>1 DEF HasNode, config, topology
<1>26. QED
  BY <1>20, <1>21, <1>22, <1>23, <1>24, <1>25 DEF OspfInv

\* One hello loop takes a step that leads it nowhere without a node.
LEMMA LoopStep ==
    ASSUME OspfInv, NEW d \in Router, NEW g \in Removals, NEW l \in Loop,
           loop' = [loop EXCEPT ![d][g] = l], UNCHANGED config,
           l # Ended /\ removals[d] = 0 => d \in nodes,
           l.kept => l.at \in nodes
    PROVE  loop' \in [Router -> [Removals -> Loop]] /\ HasNode'
<1>1. TypeOK /\ HasNode
  BY DEF OspfInv
<1>2. loop' \in [Router -> [Removals -> Loop]]
  BY <1>1 DEF TypeOK
<1>3. \A x \in Router, y \in Removals : loop'[x][y] = IF x = d /\ y = g THEN l ELSE loop[x][y]
  BY <1>1 DEF TypeOK
<1>4. QED
  BY <1>1, <1>2, <1>3 DEF HasNode, config, topology

\* Neighbours leave d's table.
LEMMA ForgettingStep ==
    ASSUME OspfInv, NEW d \in Router, NEW P,
           loop' = Forgotten(d, P), UNCHANGED <<nodes, enabled, removals>>
    PROVE  loop' \in [Router -> [Removals -> Loop]] /\ HasNode'
<1>1. TypeOK /\ HasNode
  BY DEF OspfInv
<1>2. QED
  BY <1>1, ForgottenFacts DEF HasNode

\* What the databases say stays true when no neighbour becomes Full.
LEMMA DatabasesKeep ==
    ASSUME OspfInv, UNCHANGED <<seq, lsdb, removals>>,
           \A x, y \in Router : nbrs'[x][y] = "Full" => nbrs[x][y] = "Full"
    PROVE  FullKnowsLsa' /\ SequenceNumbersTell' /\ ZeroIsNoLsa'
BY DEF OspfInv, FullKnowsLsa, SequenceNumbersTell, ZeroIsNoLsa

\* The other steps of the coroutines.
LEMMA BackgroundSafe ==
    ASSUME OspfInv, NEW d \in Router, NEW p \in Router, NEW g \in Removals,
           \/ HelloLoop(d, g) \/ SayHello(d, g, p) \/ DeadTimer(d, p) \/ LateTimer(d, p, g)
           \/ SpawnedElection(d)
    PROVE  OspfInv'
<1>1. TypeOK /\ FullKnowsLsa /\ SequenceNumbersTell /\ ZeroIsNoLsa /\ BackupIsAnother /\ HasNode
  BY DEF OspfInv
<1>0. loop[d][g] \in Loop
  BY <1>1 DEF TypeOK
<1>2. CASE HelloLoop(d, g)
  <2>1. Linked(d) \subseteq Router
    BY DEF Linked
  <2>2. loop[d][g] = Asleep /\ Asleep # Ended
    BY <1>2 DEF HelloLoop, Asleep, Ended
  <2>3. UNCHANGED <<config, late, nbrs, dr, bdr, electing, database, commands>>
    BY <1>2 DEF HelloLoop
  <2>4. loop' \in [Router -> [Removals -> Loop]] /\ HasNode'
    <3>1. CASE loop' = [loop EXCEPT ![d][g].todo = Linked(d)]
      <4> DEFINE l == [loop[d][g] EXCEPT !.todo = Linked(d)]
      <4>1. l \in Loop /\ l.kept = FALSE
        BY <1>0, <2>1, <2>2 DEF Loop, Asleep, Ended
      <4>2. loop' = [loop EXCEPT ![d][g] = l]
        BY <1>1, <3>1 DEF TypeOK, Loop
      <4>3. removals[d] = 0 => d \in nodes
        BY <1>1, <2>2 DEF HasNode
      <4> HIDE DEF l
      <4>4. QED
        BY <2>3, <4>1, <4>2, <4>3, LoopStep
    <3>2. CASE loop' = [loop EXCEPT ![d][g] = Ended]
      <4>1. Ended \in Loop /\ Ended.kept = FALSE
        BY DEF Ended, Loop
      <4>2. QED
        BY <2>3, <3>2, <4>1, LoopStep
    <3>3. QED
      BY <1>2, <3>1, <3>2 DEF HelloLoop
  <2>5. QED
    BY <1>1, <2>3, <2>4
    DEF OspfInv, TypeOK, FullKnowsLsa, SequenceNumbersTell, ZeroIsNoLsa, BackupIsAnother,
        config, topology, database
<1>3. CASE SayHello(d, g, p)
  <2> DEFINE new == EdgeUp(d, p) /\ enabled[p] /\ nbrs[p][d] = "Down"
             l == [loop[d][g] EXCEPT !.todo = @ \ {p}, !.at = IF new THEN p ELSE NoOne,
                                     !.kept = new]
  <2>1. /\ loop' = [loop EXCEPT ![d][g] = l]
        /\ nbrs' = IF new THEN [nbrs EXCEPT ![p][d] = "Init"] ELSE nbrs
        /\ UNCHANGED <<config, late, dr, bdr, electing, database, commands>>
        /\ p \in loop[d][g].todo
    BY <1>3 DEF SayHello
  <2>2. new \in BOOLEAN /\ (new => p \in nodes)
    BY <1>1 DEF HasNode
  <2> HIDE DEF new
  <2>3. l \in Loop /\ l.kept = new /\ l.at = IF new THEN p ELSE NoOne
    BY <1>0, <2>2 DEF Loop
  <2>5. removals[d] = 0 => d \in nodes
    BY <1>1, <2>1 DEF HasNode, Ended
  <2> HIDE DEF l
  <2>4. l.kept => l.at \in nodes
    BY <2>2, <2>3
  <2>6. loop' \in [Router -> [Removals -> Loop]] /\ HasNode'
    BY <2>1, <2>3, <2>4, <2>5, LoopStep
  <2>7. nbrs' \in [Router -> [Router -> {"Down", "Init", "Full"}]]
    BY <1>1, <2>1 DEF TypeOK
  <2>8. TypeOK'
    BY <1>1, <2>1, <2>6, <2>7 DEF TypeOK, config, topology, database
  <2>9. \A x, y \in Router : nbrs'[x][y] = "Full" => nbrs[x][y] = "Full"
    BY <1>1, <2>1 DEF TypeOK
  <2>10. FullKnowsLsa' /\ SequenceNumbersTell' /\ ZeroIsNoLsa'
    BY <2>1, <2>9, DatabasesKeep DEF config, topology, database
  <2>11. QED
    BY <1>1, <2>1, <2>6, <2>8, <2>10 DEF OspfInv, BackupIsAnother
<1>4. CASE DeadTimer(d, p)
  <2>1. /\ nbrs' = [nbrs EXCEPT ![d][p] = "Down"]
        /\ routes' = [routes EXCEPT ![d] = Spf(lsdb[d], d)]
        /\ UNCHANGED <<config, loop, late, dr, bdr, electing, seq, lsdb, commands>>
    BY <1>4 DEF DeadTimer
  <2>2. Spf(lsdb[d], d) \subseteq Router
    BY DEF Spf
  <2>3. TypeOK'
    BY <1>1, <2>1, <2>2 DEF TypeOK, config, topology
  <2>4. \A x, y \in Router : nbrs'[x][y] = "Full" => nbrs[x][y] = "Full"
    BY <1>1, <2>1 DEF TypeOK
  <2>5. FullKnowsLsa' /\ SequenceNumbersTell' /\ ZeroIsNoLsa'
    BY <2>1, <2>4, DatabasesKeep DEF config, topology
  <2>6. QED
    BY <1>1, <2>1, <2>3, <2>5 DEF OspfInv, BackupIsAnother, HasNode, config, topology
<1>6. CASE LateTimer(d, p, g)
  <2>1. /\ late' = late \ {<<d, p, g>>}
        /\ nbrs' = [nbrs EXCEPT ![d][p] = "Down"]
        /\ loop' = Forgotten(d, {p})
        /\ routes' = [routes EXCEPT ![d] = IF p \in Known(d) THEN Spf(lsdb[d], d) ELSE @]
        /\ UNCHANGED <<config, dr, bdr, electing, seq, lsdb, commands>>
    BY <1>6 DEF LateTimer
  <2>2. Spf(lsdb[d], d) \subseteq Router
    BY DEF Spf
  <2>3. loop' \in [Router -> [Removals -> Loop]] /\ HasNode'
    BY <2>1, ForgettingStep DEF config, topology
  <2>4. TypeOK'
    BY <1>1, <2>1, <2>2, <2>3 DEF TypeOK, config, topology
  <2>5. \A x, y \in Router : nbrs'[x][y] = "Full" => nbrs[x][y] = "Full"
    BY <1>1, <2>1 DEF TypeOK
  <2>6. FullKnowsLsa' /\ SequenceNumbersTell' /\ ZeroIsNoLsa'
    BY <2>1, <2>5, DatabasesKeep DEF config, topology
  <2>7. QED
    BY <1>1, <2>1, <2>3, <2>4, <2>6 DEF OspfInv, BackupIsAnother
<1>5. CASE SpawnedElection(d)
  <2> DEFINE k == <<"network", d>>
  <2>1. /\ electing' = electing \ {d}
        /\ Elect(d, nbrs)
        /\ IF Promoted(d, nbrs)
           THEN /\ lsdb' = [lsdb EXCEPT ![d][k] = Issued(nbrs, k)]
                /\ seq' = [seq EXCEPT ![d] = @ + 1]
           ELSE UNCHANGED <<lsdb, seq>>
        /\ UNCHANGED <<config, loop, late, nbrs, routes, commands>>
    BY <1>5 DEF SpawnedElection
  <2>2. /\ dr' \in [Router -> Router \cup {NoOne}]
        /\ bdr' \in [Router -> Router \cup {NoOne}]
        /\ BackupIsAnother'
    BY <1>1, <2>1, ElectFacts
  <2>0. HasNode'
    BY <1>1, <2>1 DEF HasNode, config, topology
  <2>3. CASE ~Promoted(d, nbrs)
    <3>1. UNCHANGED <<lsdb, seq>>
      BY <2>1, <2>3
    <3>2. TypeOK'
      BY <1>1, <2>1, <2>2, <3>1 DEF TypeOK, config, topology
    <3>3. FullKnowsLsa' /\ SequenceNumbersTell' /\ ZeroIsNoLsa'
      BY <2>1, <3>1, DatabasesKeep DEF config, topology
    <3>4. QED
      BY <2>0, <2>2, <3>2, <3>3 DEF OspfInv
  <2>4. CASE Promoted(d, nbrs)
    <3>1. /\ lsdb' = [lsdb EXCEPT ![d][k] = Issued(nbrs, k)]
          /\ seq' = [seq EXCEPT ![d] = @ + 1]
      BY <2>1, <2>4
    <3>2. k \in Key /\ k[2] = d
      BY DEF Key
    <3>3. Issued(nbrs, k) \in Lsa /\ Issued(nbrs, k).seq = seq[d]
      BY <1>1, <3>2, IssuedIsLsa DEF TypeOK
    <3>4. seq[d] \in Nat \ {0} /\ \A r \in Router : seq[r] \in Nat \ {0}
      BY <1>1 DEF TypeOK
    <3> HIDE DEF k
    <3>5. seq' \in [Router -> Nat \ {0}]
      BY <1>1, <3>1, <3>4 DEF TypeOK
    <3>6. lsdb' \in [Router -> [Key -> Lsa]]
      BY <1>1, <3>1, <3>2, <3>3 DEF TypeOK
    <3>7. TypeOK'
      BY <1>1, <2>1, <2>2, <3>5, <3>6 DEF TypeOK, config, topology
    <3>8. \A r \in Router, j \in Key :
              lsdb'[r][j] = IF r = d /\ j = k THEN Issued(nbrs, k) ELSE lsdb[r][j]
      BY <1>1, <3>1, <3>2 DEF TypeOK
    <3>9. FullKnowsLsa'
      <4>1. \A y \in Router : <<"router", y>> \in Key /\ <<"router", y>> # k
        BY DEF Key, k
      <4>2. QED
        BY <1>1, <2>1, <3>8, <4>1 DEF FullKnowsLsa, config, topology
    <3>10. SequenceNumbersTell'
      <4>1. ASSUME NEW j \in Key, NEW r \in Router, NEW s \in Router,
                   removals[j[2]] = 0
            PROVE  /\ lsdb'[r][j].seq < seq'[j[2]]
                   /\ lsdb'[r][j].seq = lsdb'[s][j].seq => lsdb'[r][j] = lsdb'[s][j]
        <5>1. /\ lsdb[r][j].seq < seq[j[2]] /\ lsdb[s][j].seq < seq[j[2]]
              /\ lsdb[r][j].seq = lsdb[s][j].seq => lsdb[r][j] = lsdb[s][j]
          BY <1>1, <4>1 DEF SequenceNumbersTell
        <5>2. lsdb[r][j].seq \in Nat /\ lsdb[s][j].seq \in Nat
          BY <1>1 DEF TypeOK, Lsa
        <5>3. j[2] \in Router /\ seq[j[2]] \in Nat
          BY <3>4 DEF Key
        <5>4. seq'[j[2]] = IF j[2] = d THEN seq[d] + 1 ELSE seq[j[2]]
          BY <1>1, <3>1, <5>3 DEF TypeOK
        <5>5. lsdb'[r][j].seq < seq'[j[2]]
          <6>1. CASE r = d /\ j = k
            BY <6>1, <3>2, <3>3, <3>4, <3>8, <5>4
          <6>2. CASE ~(r = d /\ j = k)
            BY <6>2, <3>4, <3>8, <5>1, <5>2, <5>3, <5>4
          <6>3. QED
            BY <6>1, <6>2
        <5>6. ASSUME lsdb'[r][j].seq = lsdb'[s][j].seq
              PROVE  lsdb'[r][j] = lsdb'[s][j]
          <6>1. CASE j = k
            <7>1. \A x \in {r, s} : lsdb'[x][j] = IF x = d THEN Issued(nbrs, k) ELSE lsdb[x][j]
              BY <6>1, <3>8
            <7>2. lsdb[r][j].seq < seq[d] /\ lsdb[s][j].seq < seq[d]
              BY <6>1, <5>1, <3>2
            <7>3. QED
              BY <7>1, <7>2, <5>1, <5>2, <5>6, <3>3, <3>4
          <6>2. CASE j # k
            BY <6>2, <3>8, <5>1, <5>6
          <6>3. QED
            BY <6>1, <6>2
        <5>7. QED
          BY <5>5, <5>6
      <4>2. QED
        BY <2>1, <4>1 DEF SequenceNumbersTell, config, topology
    <3>11. ZeroIsNoLsa'
      BY <1>1, <3>3, <3>4, <3>8 DEF ZeroIsNoLsa
    <3>12. QED
      BY <2>0, <2>2, <3>7, <3>9, <3>10, <3>11 DEF OspfInv
  <2>5. QED
    BY <2>3, <2>4
<1>7. QED
  BY <1>2, <1>3, <1>4, <1>5, <1>6

\* A router's node loses its neighbours, its LSAs and its DR, and may be gone
\* altogether; the numbers of the others stay.
LEMMA NodeEmptied ==
    ASSUME OspfInv, NEW d \in Router,
           nbrs' = [nbrs EXCEPT ![d] = [p \in Router |-> "Down"]],
           dr' = [dr EXCEPT ![d] = NoOne], bdr' = [bdr EXCEPT ![d] = NoOne],
           routes' = [routes EXCEPT ![d] = {}],
           lsdb' = [lsdb EXCEPT ![d] = [k \in Key |-> NoLsa]],
           \A q \in Router : removals'[q] = 0 => removals[q] = 0 /\ seq'[q] = seq[q]
    PROVE  /\ nbrs' \in [Router -> [Router -> {"Down", "Init", "Full"}]]
           /\ dr' \in [Router -> Router \cup {NoOne}]
           /\ bdr' \in [Router -> Router \cup {NoOne}]
           /\ routes' \in [Router -> SUBSET Router]
           /\ lsdb' \in [Router -> [Key -> Lsa]]
           /\ FullKnowsLsa' /\ SequenceNumbersTell' /\ ZeroIsNoLsa' /\ BackupIsAnother'
<1>1. TypeOK /\ FullKnowsLsa /\ SequenceNumbersTell /\ ZeroIsNoLsa /\ BackupIsAnother
  BY DEF OspfInv
<1>2. NoLsa \in Lsa /\ NoLsa.seq = 0
  BY DEF NoLsa, Lsa
<1>3. /\ nbrs' \in [Router -> [Router -> {"Down", "Init", "Full"}]]
      /\ dr' \in [Router -> Router \cup {NoOne}]
      /\ bdr' \in [Router -> Router \cup {NoOne}]
      /\ routes' \in [Router -> SUBSET Router]
      /\ lsdb' \in [Router -> [Key -> Lsa]]
  BY <1>1, <1>2 DEF TypeOK
<1>4. \A x \in Router : x # d => nbrs'[x] = nbrs[x] /\ lsdb'[x] = lsdb[x]
  BY <1>1 DEF TypeOK
<1>5. \A q \in Router : nbrs'[d][q] = "Down"
  BY <1>1 DEF TypeOK
<1>6. \A k \in Key : lsdb'[d][k] = NoLsa
  BY <1>1 DEF TypeOK
<1>7. FullKnowsLsa'
  BY <1>1, <1>4, <1>5 DEF FullKnowsLsa
<1>8. SequenceNumbersTell'
  <2>1. ASSUME NEW k \in Key, NEW x \in Router, NEW y \in Router, removals'[k[2]] = 0
        PROVE  /\ lsdb'[x][k].seq < seq'[k[2]]
               /\ lsdb'[x][k].seq = lsdb'[y][k].seq => lsdb'[x][k] = lsdb'[y][k]
    <3>1. k[2] \in Router /\ seq[k[2]] \in Nat \ {0}
      BY <1>1 DEF Key, TypeOK
    <3>2. \A z \in Router : lsdb[z][k].seq = 0 => lsdb[z][k] = NoLsa
      BY <1>1 DEF ZeroIsNoLsa
    <3>3. removals[k[2]] = 0 /\ seq'[k[2]] = seq[k[2]]
      BY <2>1, <3>1
    <3>4. QED
      BY <1>1, <1>2, <1>4, <1>6, <3>1, <3>2, <3>3 DEF SequenceNumbersTell
  <2>2. QED
    BY <2>1 DEF SequenceNumbersTell
<1>9. BackupIsAnother'
  BY <1>1 DEF BackupIsAnother, TypeOK
<1>10. ZeroIsNoLsa'
  BY <1>1, <1>4, <1>6 DEF ZeroIsNoLsa
<1>11. QED
  BY <1>3, <1>7, <1>8, <1>9, <1>10

\* The operator's commands.
LEMMA CommandSafe ==
    ASSUME OspfInv, NEW d \in Router, NEW p \in Router, NEW n \in Priority,
           \/ Start(d) \/ Stop(d) \/ RemoveDevice(d) \/ SetPriority(d, n)
           \/ Shutdown(d, p) \/ NoShutdown(d, p)
    PROVE  OspfInv'
<1>1. TypeOK /\ FullKnowsLsa /\ SequenceNumbersTell /\ ZeroIsNoLsa /\ BackupIsAnother /\ HasNode
  BY DEF OspfInv
<1>2. Asleep \in Loop /\ Ended \in Loop /\ Asleep.kept = FALSE /\ Ended.kept = FALSE
  BY DEF Asleep, Ended, Loop
<1>3. \A kind : Commanded(kind) => commands' \in 0 .. MaxCommands
  BY <1>1, OspfAssumption DEF Commanded, TypeOK
<1>0. removals[d] \in Removals
  BY <1>1 DEF TypeOK
<1>4. CASE Start(d)
  <2>1. /\ nodes' = nodes \cup {d}
        /\ enabled' = [enabled EXCEPT ![d] = TRUE]
        /\ loop' = [loop EXCEPT ![d][removals[d]] = Asleep]
        /\ UNCHANGED <<priority, topology, late, nbrs, dr, bdr, electing, database>>
        /\ commands' \in 0 .. MaxCommands
    BY <1>3, <1>4 DEF Start
  <2>2. loop' \in [Router -> [Removals -> Loop]]
    BY <1>0, <1>1, <1>2, <2>1 DEF TypeOK
  <2>3. TypeOK'
    BY <1>1, <2>1, <2>2 DEF TypeOK, topology, database
  <2>4. HasNode'
    <3>1. \A x \in Router, y \in Removals :
              loop'[x][y] = IF x = d /\ y = removals[d] THEN Asleep ELSE loop[x][y]
      BY <1>0, <1>1, <2>1 DEF TypeOK
    <3>2. \A x \in Router : enabled'[x] => x = d \/ enabled[x]
      BY <1>1, <2>1 DEF TypeOK
    <3>3. ASSUME NEW x \in Router, NEW y \in Removals
          PROVE  /\ loop'[x][y] # Ended /\ removals[x] = 0 => x \in nodes'
                 /\ loop'[x][y].kept => loop'[x][y].at \in nodes'
      <4>1. CASE x = d /\ y = removals[d]
        BY <1>2, <2>1, <3>1, <4>1
      <4>2. CASE ~(x = d /\ y = removals[d])
        BY <1>1, <2>1, <3>1, <4>2 DEF HasNode
      <4>3. QED
        BY <4>1, <4>2
    <3>4. QED
      BY <1>1, <2>1, <3>2, <3>3 DEF HasNode, topology
  <2>5. FullKnowsLsa' /\ SequenceNumbersTell' /\ ZeroIsNoLsa'
    BY <2>1, DatabasesKeep DEF topology, database
  <2>6. QED
    BY <1>1, <2>1, <2>3, <2>4, <2>5 DEF OspfInv, BackupIsAnother
<1>5. CASE Stop(d)
  <2>1. /\ enabled' = [enabled EXCEPT ![d] = FALSE]
        /\ loop' = [Forgotten(d, Router) EXCEPT ![d][removals[d]] = Ended]
        /\ nbrs' = [nbrs EXCEPT ![d] = [q \in Router |-> "Down"]]
        /\ dr' = [dr EXCEPT ![d] = NoOne]
        /\ bdr' = [bdr EXCEPT ![d] = NoOne]
        /\ routes' = [routes EXCEPT ![d] = {}]
        /\ lsdb' = [lsdb EXCEPT ![d] = [k \in Key |-> NoLsa]]
        /\ UNCHANGED <<nodes, priority, topology, late, electing, seq>>
        /\ commands' \in 0 .. MaxCommands
    BY <1>3, <1>5 DEF Stop
  <2> DEFINE F == Forgotten(d, Router)
  <2>2. /\ F \in [Router -> [Removals -> Loop]]
        /\ \A x \in Router, g \in Removals :
              /\ F[x][g] # Ended => loop[x][g] # Ended
              /\ F[x][g].kept => loop[x][g].kept /\ F[x][g].at = loop[x][g].at
    BY <1>1, ForgottenFacts
  <2> HIDE DEF F
  <2>3. loop' = [F EXCEPT ![d][removals[d]] = Ended]
    BY <2>1 DEF F
  <2>4. loop' \in [Router -> [Removals -> Loop]]
    BY <1>0, <1>2, <2>2, <2>3
  <2>5. HasNode'
    <3>1. \A x \in Router, y \in Removals :
              loop'[x][y] = IF x = d /\ y = removals[d] THEN Ended ELSE F[x][y]
      BY <1>0, <2>2, <2>3
    <3>2. \A x \in Router : enabled'[x] => enabled[x]
      BY <1>1, <2>1 DEF TypeOK
    <3>3. ASSUME NEW x \in Router, NEW y \in Removals
          PROVE  /\ loop'[x][y] # Ended /\ removals[x] = 0 => x \in nodes
                 /\ loop'[x][y].kept => loop'[x][y].at \in nodes
      <4>1. CASE x = d /\ y = removals[d]
        BY <1>2, <3>1, <4>1
      <4>2. CASE ~(x = d /\ y = removals[d])
        BY <1>1, <2>2, <3>1, <4>2 DEF HasNode
      <4>3. QED
        BY <4>1, <4>2
    <3>4. QED
      BY <1>1, <2>1, <3>2, <3>3 DEF HasNode, topology
  <2>6. /\ nbrs' \in [Router -> [Router -> {"Down", "Init", "Full"}]]
        /\ dr' \in [Router -> Router \cup {NoOne}]
        /\ bdr' \in [Router -> Router \cup {NoOne}]
        /\ routes' \in [Router -> SUBSET Router]
        /\ lsdb' \in [Router -> [Key -> Lsa]]
        /\ FullKnowsLsa' /\ SequenceNumbersTell' /\ ZeroIsNoLsa' /\ BackupIsAnother'
    BY <2>1, NodeEmptied DEF topology
  <2>7. TypeOK'
    BY <1>1, <2>1, <2>4, <2>6 DEF TypeOK, topology
  <2>8. QED
    BY <2>5, <2>6, <2>7 DEF OspfInv
<1>6. CASE RemoveDevice(d)
  <2>1. /\ removals[d] < MaxRemovals
        /\ removals' = [removals EXCEPT ![d] = @ + 1]
        /\ cables' = {c \in cables : d \notin c}
        /\ shut' = [shut EXCEPT ![d] = {}]
        /\ nodes' = nodes \ {d}
        /\ enabled' = [enabled EXCEPT ![d] = FALSE]
        /\ priority' = [priority EXCEPT ![d] = 1]
        /\ late' = late \cup {<<d, q, removals[d]>> : q \in Known(d)}
        /\ loop' = Forgotten(d, Router)
        /\ nbrs' = [nbrs EXCEPT ![d] = [q \in Router |-> "Down"]]
        /\ dr' = [dr EXCEPT ![d] = NoOne]
        /\ bdr' = [bdr EXCEPT ![d] = NoOne]
        /\ routes' = [routes EXCEPT ![d] = {}]
        /\ lsdb' = [lsdb EXCEPT ![d] = [k \in Key |-> NoLsa]]
        /\ seq' = [seq EXCEPT ![d] = 1]
        /\ UNCHANGED electing
        /\ commands' \in 0 .. MaxCommands
    BY <1>3, <1>6 DEF RemoveDevice
  <2>2. removals[d] + 1 \in Removals /\ removals[d] + 1 # 0
    BY <1>0, <2>1, OspfAssumption DEF Removals
  <2>3. removals' \in [Router -> Removals] /\ seq' \in [Router -> Nat \ {0}]
    BY <1>1, <2>1, <2>2 DEF TypeOK
  <2>4. \A q \in Router : removals'[q] = 0 => q # d /\ removals[q] = 0 /\ seq'[q] = seq[q]
    BY <1>1, <2>1, <2>2 DEF TypeOK
  <2>5. /\ loop' \in [Router -> [Removals -> Loop]]
        /\ \A x \in Router, g \in Removals :
              /\ loop'[x][g] # Ended => loop[x][g] # Ended
              /\ loop'[x][g].kept =>
                    loop[x][g].kept /\ loop'[x][g].at = loop[x][g].at /\ loop[x][g].at # d
    BY <1>1, <2>1, ForgottenFacts
  <2>6. HasNode'
    <3>1. \A x \in Router : enabled'[x] => enabled[x] /\ x # d
      BY <1>1, <2>1 DEF TypeOK
    <3>2. ASSUME NEW x \in Router, NEW y \in Removals
          PROVE  /\ loop'[x][y] # Ended /\ removals'[x] = 0 => x \in nodes'
                 /\ loop'[x][y].kept => loop'[x][y].at \in nodes'
      <4>1. loop'[x][y] # Ended /\ removals'[x] = 0 => x \in nodes /\ x # d
        BY <1>1, <2>4, <2>5 DEF HasNode
      <4>2. loop'[x][y].kept => loop'[x][y].at \in nodes /\ loop'[x][y].at # d
        BY <1>1, <2>5 DEF HasNode
      <4>3. QED
        BY <2>1, <4>1, <4>2
    <3>3. \A x \in Router : enabled'[x] => x \in nodes'
      BY <1>1, <2>1, <3>1 DEF HasNode
    <3>4. QED
      BY <3>2, <3>3 DEF HasNode
  <2>7. /\ nbrs' \in [Router -> [Router -> {"Down", "Init", "Full"}]]
        /\ dr' \in [Router -> Router \cup {NoOne}]
        /\ bdr' \in [Router -> Router \cup {NoOne}]
        /\ routes' \in [Router -> SUBSET Router]
        /\ lsdb' \in [Router -> [Key -> Lsa]]
        /\ FullKnowsLsa' /\ SequenceNumbersTell' /\ ZeroIsNoLsa' /\ BackupIsAnother'
    BY <2>1, <2>4, NodeEmptied
  <2>8. late' \subseteq Router \X Router \X Removals
    BY <1>0, <1>1, <2>1 DEF TypeOK, Known
  <2>9. shut' \in [Router -> SUBSET Router] /\ cables' \subseteq Wiring /\ nodes' \subseteq Router
    BY <1>1, <2>1 DEF TypeOK
  <2>10. priority' \in [Router -> Priority] /\ enabled' \in [Router -> BOOLEAN]
    BY <1>1, <2>1, OspfAssumption DEF TypeOK
  <2>11. TypeOK'
    BY <1>1, <2>1, <2>3, <2>5, <2>7, <2>8, <2>9, <2>10 DEF TypeOK
  <2>12. QED
    BY <2>6, <2>7, <2>11 DEF OspfInv
<1>7. CASE SetPriority(d, n)
  <2>1. /\ nodes' = nodes \cup {d}
        /\ priority' = [priority EXCEPT ![d] = n]
        /\ electing' = IF enabled[d] /\ Known(d) # {} THEN electing \cup {d} ELSE electing
        /\ UNCHANGED <<enabled, topology, loop, late, nbrs, dr, bdr, database>>
        /\ commands' \in 0 .. MaxCommands
    BY <1>3, <1>7 DEF SetPriority
  <2>2. TypeOK'
    BY <1>1, <2>1 DEF TypeOK, topology, database
  <2>3. FullKnowsLsa' /\ SequenceNumbersTell' /\ ZeroIsNoLsa'
    BY <2>1, DatabasesKeep DEF topology, database
  <2>4. HasNode'
    BY <1>1, <2>1 DEF HasNode, topology
  <2>5. QED
    BY <1>1, <2>1, <2>2, <2>3, <2>4 DEF OspfInv, BackupIsAnother
<1>8. CASE Shutdown(d, p)
  <2>1. Spf(lsdb[d], d) \subseteq Router
    BY DEF Spf
  <2>2. /\ shut' = [shut EXCEPT ![d] = @ \cup {p}]
        /\ \/ /\ nbrs' = [nbrs EXCEPT ![d][p] = "Down"]
              /\ loop' = Forgotten(d, {p})
              /\ routes' = [routes EXCEPT ![d] = Spf(lsdb[d], d)]
           \/ UNCHANGED <<nbrs, loop, routes>>
        /\ UNCHANGED <<nodes, enabled, priority, cables, removals, late, dr, bdr,
                       electing, seq, lsdb>>
        /\ commands' \in 0 .. MaxCommands
    BY <1>3, <1>8 DEF Shutdown
  <2>3. loop' \in [Router -> [Removals -> Loop]] /\ HasNode'
    <3>1. CASE loop' = Forgotten(d, {p})
      BY <2>2, <3>1, ForgettingStep
    <3>2. CASE UNCHANGED loop
      BY <1>1, <2>2, <3>2 DEF TypeOK, HasNode
    <3>3. QED
      BY <2>2, <3>1, <3>2
  <2>4. /\ nbrs' \in [Router -> [Router -> {"Down", "Init", "Full"}]]
        /\ \A x, y \in Router : nbrs'[x][y] = "Full" => nbrs[x][y] = "Full"
    <3>1. CASE nbrs' = [nbrs EXCEPT ![d][p] = "Down"]
      BY <1>1, <3>1 DEF TypeOK
    <3>2. CASE nbrs' = nbrs
      BY <1>1, <3>2 DEF TypeOK
    <3>3. QED
      BY <2>2, <3>1, <3>2
  <2>5. routes' \in [Router -> SUBSET Router]
    <3>1. CASE routes' = [routes EXCEPT ![d] = Spf(lsdb[d], d)]
      BY <1>1, <2>1, <3>1 DEF TypeOK
    <3>2. CASE routes' = routes
      BY <1>1, <3>2 DEF TypeOK
    <3>3. QED
      BY <2>2, <3>1, <3>2
  <2>6. TypeOK'
    BY <1>1, <2>2, <2>3, <2>4, <2>5 DEF TypeOK
  <2>7. FullKnowsLsa' /\ SequenceNumbersTell' /\ ZeroIsNoLsa'
    BY <2>2, <2>4, DatabasesKeep
  <2>8. QED
    BY <1>1, <2>2, <2>3, <2>6, <2>7 DEF OspfInv, BackupIsAnother
<1>9. CASE NoShutdown(d, p)
  <2>1. /\ shut' = [shut EXCEPT ![d] = @ \ {p}]
        /\ UNCHANGED <<nodes, enabled, priority, cables, removals, loop, late, nbrs, dr, bdr,
                       electing, database>>
        /\ commands' \in 0 .. MaxCommands
    BY <1>3, <1>9 DEF NoShutdown
  <2>2. TypeOK'
    BY <1>1, <2>1 DEF TypeOK, database
  <2>3. FullKnowsLsa' /\ SequenceNumbersTell' /\ ZeroIsNoLsa'
    BY <2>1, DatabasesKeep DEF database
  <2>4. QED
    BY <1>1, <2>1, <2>2, <2>3 DEF OspfInv, BackupIsAnother, HasNode
<1>10. QED
  BY <1>4, <1>5, <1>6, <1>7, <1>8, <1>9

\* A cable comes or goes.
LEMMA RecableSafe ==
    ASSUME OspfInv, NEW c \in Wiring, Recable(c)
    PROVE  OspfInv'
<1>1. TypeOK /\ BackupIsAnother /\ HasNode
  BY DEF OspfInv
<1>2. /\ cables' = IF c \in cables THEN cables \ {c} ELSE cables \cup {c}
      /\ UNCHANGED <<nodes, enabled, priority, shut, removals, loop, late, nbrs, dr, bdr,
                     electing, database>>
      /\ commands' \in 0 .. MaxCommands
  BY <1>1, OspfAssumption DEF Recable, Commanded, TypeOK
<1>3. TypeOK'
  BY <1>1, <1>2 DEF TypeOK, database
<1>4. FullKnowsLsa' /\ SequenceNumbersTell' /\ ZeroIsNoLsa'
  BY <1>2, DatabasesKeep DEF database
<1>5. QED
  BY <1>1, <1>2, <1>3, <1>4 DEF OspfInv, BackupIsAnother, HasNode

\* The databases and the election keep their invariant.
THEOREM OspfInvariant == Spec => []OspfInv
<1>1. Init => OspfInv
  <2>1. ASSUME Init PROVE OspfInv
    <3>1. NoLsa \in Lsa /\ NoLsa.seq = 0
      BY DEF NoLsa, Lsa
    <3>2. Ended \in Loop /\ Ended.kept = FALSE
      BY DEF Ended, Loop
    <3>3. TypeOK
      BY <2>1, <3>1, <3>2, OspfAssumption DEF Init, TypeOK, Removals
    <3>4. FullKnowsLsa /\ BackupIsAnother
      BY <2>1 DEF Init, FullKnowsLsa, BackupIsAnother
    <3>5. SequenceNumbersTell
      <4>1. \A k \in Key, x \in Router : lsdb[x][k] = NoLsa /\ seq[k[2]] = 1
        BY <2>1 DEF Init, Key
      <4>2. QED
        BY <3>1, <4>1 DEF SequenceNumbersTell
    <3>6. ZeroIsNoLsa
      BY <2>1 DEF Init, ZeroIsNoLsa
    <3>7. HasNode
      BY <2>1, <3>2 DEF Init, HasNode
    <3>8. QED
      BY <3>3, <3>4, <3>5, <3>6, <3>7 DEF OspfInv
  <2>2. QED
    BY <2>1
<1>2. OspfInv /\ [Next]_vars => OspfInv'
  <2>1. SUFFICES ASSUME OspfInv, [Next]_vars PROVE OspfInv'
    OBVIOUS
  <2>2. CASE UNCHANGED vars
    BY <2>1, <2>2 DEF vars, config, topology, database, OspfInv, TypeOK, FullKnowsLsa,
                      SequenceNumbersTell, ZeroIsNoLsa, BackupIsAnother, HasNode
  <2>3. CASE Command
    <3>1. CASE \E c \in Wiring : Recable(c)
      BY <2>1, <3>1, RecableSafe
    <3>2. CASE ~\E c \in Wiring : Recable(c)
      <4>1. PICK d \in Router :
                \/ Start(d) \/ Stop(d) \/ RemoveDevice(d)
                \/ \E n \in Priority : SetPriority(d, n)
                \/ \E p \in Router : Shutdown(d, p) \/ NoShutdown(d, p)
        BY <2>3, <3>2 DEF Command
      <4>2. d \in Router /\ 1 \in Priority
        BY OspfAssumption
      <4>3. QED
        BY <2>1, <4>1, <4>2, CommandSafe
    <3>3. QED
      BY <3>1, <3>2
  <2>4. CASE Background
    <3>1. PICK d \in Router :
              \/ SpawnedElection(d)
              \/ \E g \in Removals : HelloLoop(d, g) \/ LoadingDone(d, g)
              \/ \E p \in Router : DeadTimer(d, p)
              \/ \E p \in Router, g \in Removals : SayHello(d, g, p) \/ LateTimer(d, p, g)
      BY <2>4 DEF Background
    <3>2. d \in Router /\ 0 \in Removals
      BY OspfAssumption DEF Removals
    <3>3. QED
      BY <2>1, <3>1, <3>2, BackgroundSafe, LoadingDoneSafe
  <2>5. QED
    BY <2>1, <2>2, <2>3, <2>4 DEF Next
<1>3. QED
  BY <1>1, <1>2, PTL DEF Spec

\* The state keeps the shape the engine gives it.
THEOREM OspfTypeCorrect == Spec => []TypeOK
BY OspfInvariant, PTL DEF OspfInv

\* A neighbour that is Full, and has not been removed, has its Router LSA in the
\* database: the exchange of the databases comes before anybody sees Full, and
\* losing the LSA (no router ospf, a removal) loses the neighbours.
THEOREM FullNeighborsAreKnown == Spec => []FullKnowsLsa
BY OspfInvariant, PTL DEF OspfInv

\* A sequence number stands for one LSA of a router that is not removed, through
\* restarts, elections and handshakes of several routers at once, and through
\* removals of the others, whose old tasks go on.
THEOREM SequenceNumbersAreUnique == Spec => []SequenceNumbersTell
BY OspfInvariant, PTL DEF OspfInv

\* Nobody takes the DR for its own backup.
THEOREM DrHasAnotherBackup == Spec => []BackupIsAnother
BY OspfInvariant, PTL DEF OspfInv
=============================================================================
