---------------------------- MODULE BigIpProofs -----------------------------
(***************************************************************************)
(* Proofs about BigIp, for any virtual servers, pools, members, clients    *)
(* and connection threads.  The inductive invariant is BInv.               *)
(***************************************************************************)
EXTENDS BigIp, SequenceTheorems, FiniteSetTheorems, WellFoundedInduction, TLAPS

-----------------------------------------------------------------------------
(* Sequences and numbers.                                                  *)

\* The least element that every nonempty set of naturals has.
LEMMA LeastNatural ==
  ASSUME NEW T \in SUBSET Nat, T # {}
  PROVE  \E x \in T : \A y \in T : x <= y
<1> DEFINE R == OpToRel(<, Nat)
<1>1. IsWellFoundedOn(R, Nat)
  BY NatLessThanWellFounded
<1>2. \A x, y \in Nat : <<y, x>> \in R <=> y < x
  BY DEF OpToRel
<1> HIDE DEF R
<1>3. PICK x \in T : \A y \in T : ~(<<y, x>> \in R)
  BY <1>1, WFMin
<1>4. ASSUME NEW y \in T
      PROVE  x <= y
  <2>1. x \in Nat /\ y \in Nat /\ ~(<<y, x>> \in R)
    BY <1>3, <1>4
  <2>2. ~(y < x)
    BY <1>2, <2>1
  <2>3. QED
    BY <2>1, <2>2
<1>5. QED
  BY <1>4

\* A function over 1 .. n is a sequence of length n.
LEMMA FunctionIsSeq ==
  ASSUME NEW S, NEW n \in Nat, NEW f \in [1 .. n -> S]
  PROVE  f \in Seq(S) /\ Len(f) = n /\ DOMAIN f = 1 .. n
  OBVIOUS

\* What RemoveAt leaves of a sequence.
LEMMA RemoveAtFacts ==
  ASSUME NEW S, NEW s \in Seq(S), NEW k \in DOMAIN s
  PROVE  /\ RemoveAt(s, k) \in Seq(S)
         /\ DOMAIN RemoveAt(s, k) = 1 .. Len(s) - 1
         /\ \A i \in 1 .. Len(s) - 1 : RemoveAt(s, k)[i] = IF i < k THEN s[i] ELSE s[i + 1]
<1> DEFINE l == SubSeq(s, 1, k - 1)
           r == SubSeq(s, k + 1, Len(s))
<1>1. k \in 1 .. Len(s) /\ Len(s) \in Nat
  OBVIOUS
<1>2. l \in Seq(S) /\ Len(l) = k - 1 /\ \A i \in 1 .. k - 1 : l[i] = s[i]
  BY <1>1, SubSeqProperties
<1>3. r \in Seq(S) /\ Len(r) = Len(s) - k /\ \A i \in 1 .. Len(s) - k : r[i] = s[k + i]
  BY <1>1, SubSeqProperties
<1> HIDE DEF l, r
<1>4. /\ l \o r \in Seq(S) /\ Len(l \o r) = Len(s) - 1
      /\ \A i \in 1 .. Len(s) - 1 : (l \o r)[i] = IF i <= Len(l) THEN l[i] ELSE r[i - Len(l)]
  <2>1. l \in Seq(S) /\ r \in Seq(S)
    BY <1>2, <1>3
  <2>2. /\ l \o r \in Seq(S) /\ Len(l \o r) = Len(l) + Len(r)
        /\ \A i \in 1 .. Len(l) + Len(r) :
              (l \o r)[i] = IF i <= Len(l) THEN l[i] ELSE r[i - Len(l)]
    BY <2>1, ConcatProperties
  <2>3. Len(l) + Len(r) = Len(s) - 1
    BY <1>1, <1>2, <1>3
  <2>4. QED
    BY <2>2, <2>3
<1>5. DOMAIN (l \o r) = 1 .. Len(s) - 1
  BY <1>4
<1>6. ASSUME NEW i \in 1 .. Len(s) - 1
      PROVE  (l \o r)[i] = IF i < k THEN s[i] ELSE s[i + 1]
  <2>1. CASE i < k
    BY <1>1, <1>2, <1>4, <2>1
  <2>2. CASE ~(i < k)
    <3>1. /\ i - (k - 1) \in 1 .. Len(s) - k /\ k + (i - (k - 1)) = i + 1
          /\ ~(i <= Len(l)) /\ i - Len(l) = i - (k - 1)
      BY <1>1, <1>2, <2>2
    <3>2. (l \o r)[i] = r[i - (k - 1)]
      BY <1>4, <3>1
    <3>3. r[i - (k - 1)] = s[k + (i - (k - 1))]
      BY <1>3, <3>1
    <3>4. QED
      BY <2>2, <3>1, <3>2, <3>3
  <2>3. QED
    BY <2>1, <2>2
<1>7. QED
  BY <1>4, <1>5, <1>6 DEF RemoveAt, l, r

-----------------------------------------------------------------------------
(* Starting and stopping proxies.                                          *)

\* The proxies px and the table agree: a proxy listens exactly if the table
\* knows it, and no two listen on one address.
Agree(px, table) ==
    /\ px \in Seq(Proxy) /\ table \in [Virtual -> 0 .. Len(px)]
    /\ \A v \in Virtual : table[v] # 0 => px[table[v]].vs = v
    /\ \A i \in DOMAIN px : px[i].open <=> table[px[i].vs] = i
    /\ \A i, j \in DOMAIN px :
          (px[i].open /\ px[j].open /\ px[i].addr = px[j].addr) => i = j

\* The proxy of v, if it has one, is the one that its record vs asks for.
Matches(px, table, v, vs) ==
    (table[v] # 0 /\ Complete(vs))
        => px[table[v]].addr = vs.addr /\ px[table[v]].pool = vs.pool

\* What a proxy serves, what else it keeps, and a proxy nobody has used yet.
SameDuty(p, q) == q.vs = p.vs /\ q.addr = p.addr /\ q.pool = p.pool
SameRest(p, q) == /\ q.pools = p.pools /\ q.persist = p.persist /\ q.rr = p.rr
                  /\ q.active = p.active /\ q.affinity = p.affinity
Unused(q) == /\ q.pools = Current /\ q.persist = Current
             /\ q.active = [m \in Member |-> 0] /\ q.affinity = [c \in Client |-> None]

\* qx goes on from px: old proxies change in nothing but their socket, new ones
\* are unused and serve virtual servers in vs.
Continues(px, qx, vs) ==
    /\ Len(px) <= Len(qx)
    /\ \A i \in DOMAIN px : SameDuty(px[i], qx[i]) /\ SameRest(px[i], qx[i])
    /\ \A i \in DOMAIN qx \ DOMAIN px : Unused(qx[i]) /\ qx[i].vs \in vs

\* stop() closes one socket.
LEMMA StoppedFacts ==
  ASSUME NEW px \in Seq(Proxy), NEW i \in Nat
  PROVE  /\ Stopped(px, i) \in Seq(Proxy)
         /\ Len(Stopped(px, i)) = Len(px) /\ DOMAIN Stopped(px, i) = DOMAIN px
         /\ \A j \in DOMAIN px : /\ SameDuty(px[j], Stopped(px, i)[j])
                                 /\ SameRest(px[j], Stopped(px, i)[j])
                                 /\ Stopped(px, i)[j].open <=> px[j].open /\ j # i
<1> DEFINE qx == Stopped(px, i)
<1>1. DOMAIN px = 1 .. Len(px) /\ Len(px) \in Nat
  OBVIOUS
<1>2. qx = [j \in 1 .. Len(px) |-> IF j = i THEN [px[j] EXCEPT !.open = FALSE] ELSE px[j]]
  BY <1>1 DEF Stopped
<1>3. ASSUME NEW j \in 1 .. Len(px)
      PROVE  /\ qx[j] \in Proxy
             /\ SameDuty(px[j], qx[j]) /\ SameRest(px[j], qx[j])
             /\ qx[j].open <=> px[j].open /\ j # i
  <2>1. px[j] \in Proxy
    OBVIOUS
  <2>2. [px[j] EXCEPT !.open = FALSE] \in Proxy
    BY <2>1 DEF Proxy
  <2>3. qx[j] = IF j = i THEN [px[j] EXCEPT !.open = FALSE] ELSE px[j]
    BY <1>2
  <2>4. QED
    BY <2>1, <2>2, <2>3 DEF SameDuty, SameRest, Proxy
<1>4. qx \in [1 .. Len(px) -> Proxy]
  BY <1>2, <1>3
<1>5. QED
  BY <1>1, <1>3, <1>4, FunctionIsSeq

\* After the proxy of v stopped, the others listen that the table knows.
LEMMA StoppedListens ==
  ASSUME NEW px, NEW table, Agree(px, table), NEW v \in Virtual, NEW j \in DOMAIN px
  PROVE  Stopped(px, table[v])[j].open <=> px[j].vs # v /\ table[px[j].vs] = j
<1> DEFINE i == table[v]
           left == Stopped(px, i)
<1>1. /\ px \in Seq(Proxy) /\ table \in [Virtual -> 0 .. Len(px)]
      /\ Len(px) \in Nat /\ DOMAIN px = 1 .. Len(px) /\ i \in Nat
      /\ i # 0 => i \in DOMAIN px /\ px[i].vs = v
      /\ \A k \in DOMAIN px : px[k] \in Proxy /\ px[k].vs \in Virtual
  <2>1. px \in Seq(Proxy) /\ table \in [Virtual -> 0 .. Len(px)]
    BY DEF Agree
  <2>2. Len(px) \in Nat /\ DOMAIN px = 1 .. Len(px) /\ \A k \in DOMAIN px : px[k] \in Proxy
    BY <2>1
  <2>3. \A p \in Proxy : p.vs \in Virtual
    BY DEF Proxy
  <2>4. i \in 0 .. Len(px)
    BY <2>1
  <2>5. i # 0 => i \in DOMAIN px
    BY <2>2, <2>4
  <2>6. i # 0 => px[i].vs = v
    BY DEF Agree
  <2>7. QED
    BY <2>1, <2>2, <2>3, <2>4, <2>5, <2>6
<1>2. /\ left \in Seq(Proxy) /\ Len(left) = Len(px) /\ DOMAIN left = DOMAIN px
      /\ left[j].open <=> px[j].open /\ j # i
  BY <1>1, StoppedFacts
<1> HIDE DEF i, left
<1>3. left[j].open => px[j].vs # v
  BY <1>1, <1>2 DEF Agree, i
<1>4. left[j].open <=> px[j].vs # v /\ table[px[j].vs] = j
  BY <1>1, <1>2, <1>3 DEF Agree, i
<1>5. QED
  BY <1>4 DEF i, left

\* Stopping the proxy of v and taking it from the table keeps the agreement.
LEMMA StoppedAgrees ==
  ASSUME NEW px, NEW table, Agree(px, table), NEW v \in Virtual
  PROVE  Agree(Stopped(px, table[v]), [table EXCEPT ![v] = 0])
<1> DEFINE i == table[v]
           left == Stopped(px, i)
           rest == [table EXCEPT ![v] = 0]
<1>1. /\ px \in Seq(Proxy) /\ table \in [Virtual -> 0 .. Len(px)]
      /\ Len(px) \in Nat /\ DOMAIN px = 1 .. Len(px) /\ i \in Nat
      /\ i # 0 => i \in DOMAIN px /\ px[i].vs = v
      /\ \A j \in DOMAIN px : px[j] \in Proxy /\ px[j].vs \in Virtual
  <2>1. px \in Seq(Proxy) /\ table \in [Virtual -> 0 .. Len(px)]
    BY DEF Agree
  <2>2. Len(px) \in Nat /\ DOMAIN px = 1 .. Len(px) /\ \A j \in DOMAIN px : px[j] \in Proxy
    BY <2>1
  <2>3. \A p \in Proxy : p.vs \in Virtual
    BY DEF Proxy
  <2>4. i \in 0 .. Len(px)
    BY <2>1
  <2>5. i # 0 => i \in DOMAIN px
    BY <2>2, <2>4
  <2>6. i # 0 => px[i].vs = v
    BY DEF Agree
  <2>7. QED
    BY <2>1, <2>2, <2>3, <2>4, <2>5, <2>6
<1>2. /\ left \in Seq(Proxy) /\ Len(left) = Len(px) /\ DOMAIN left = DOMAIN px
      /\ \A j \in DOMAIN px : /\ SameDuty(px[j], left[j])
                              /\ left[j].open <=> px[j].open /\ j # i
  BY <1>1, StoppedFacts
<1>3. /\ rest \in [Virtual -> 0 .. Len(left)]
      /\ rest[v] = 0 /\ \A w \in Virtual \ {v} : rest[w] = table[w]
  <2>1. 0 \in 0 .. Len(px)
    BY <1>1
  <2>2. rest \in [Virtual -> 0 .. Len(px)]
    BY <1>1, <2>1
  <2>3. rest[v] = 0 /\ \A w \in Virtual \ {v} : rest[w] = table[w]
    BY <1>1
  <2>4. QED
    BY <1>2, <2>2, <2>3
<1> HIDE DEF i, left, rest
<1>4. ASSUME NEW j \in DOMAIN px
      PROVE  left[j].open <=> px[j].vs # v /\ table[px[j].vs] = j
  BY StoppedListens DEF left, i
<1>5. \A j \in DOMAIN left : left[j].open <=> rest[left[j].vs] = j
  BY <1>1, <1>2, <1>3, <1>4 DEF SameDuty
<1>6. \A w \in Virtual : rest[w] # 0 => left[rest[w]].vs = w
  BY <1>1, <1>2, <1>3 DEF SameDuty, Agree
<1>7. \A j, k \in DOMAIN left :
         (left[j].open /\ left[k].open /\ left[j].addr = left[k].addr) => j = k
  BY <1>2 DEF SameDuty, Agree
<1>8. Agree(left, rest)
  BY <1>2, <1>3, <1>5, <1>6, <1>7 DEF Agree
<1>9. QED
  BY <1>8 DEF i, left, rest

\* A new proxy is unused and listens.
LEMMA NewProxyFacts ==
  ASSUME NEW v \in Virtual, NEW vs \in VirtualServer, Complete(vs)
  PROVE  /\ NewProxy(v, vs) \in Proxy /\ Unused(NewProxy(v, vs))
         /\ NewProxy(v, vs).open /\ NewProxy(v, vs).vs = v
         /\ NewProxy(v, vs).addr = vs.addr /\ NewProxy(v, vs).pool = vs.pool
  BY DEF NewProxy, Proxy, VirtualServer, Unused, Affinity, Complete

\* ensure_virtual_server_proxy keeps proxies and table in agreement and leaves
\* the virtual server with the proxy it asks for or with none.
LEMMA EnsuredFacts ==
  ASSUME NEW r, Agree(r.px, r.table), NEW v \in Virtual, NEW vs \in VirtualServer
  PROVE  /\ Agree(Ensured(r, v, vs).px, Ensured(r, v, vs).table)
         /\ Matches(Ensured(r, v, vs).px, Ensured(r, v, vs).table, v, vs)
         /\ Continues(r.px, Ensured(r, v, vs).px, {v})
         /\ \A w \in Virtual \ {v} : Ensured(r, v, vs).table[w] = r.table[w]
<1> SUFFICES ASSUME NEW px, NEW table, px = r.px, table = r.table, Agree(px, table),
                    NEW s, s = Ensured(r, v, vs)
             PROVE  /\ Agree(s.px, s.table)
                    /\ Matches(s.px, s.table, v, vs)
                    /\ Continues(px, s.px, {v})
                    /\ \A w \in Virtual \ {v} : s.table[w] = table[w]
  OBVIOUS
<1> DEFINE i == table[v]
           left == Replaced(px, i)
           bound == \E j \in DOMAIN left : left[j].open /\ left[j].addr = vs.addr
           same == ~Complete(vs) \/ (i # 0 /\ px[i].addr = vs.addr /\ px[i].pool = vs.pool)
<1>1. /\ same => s.px = px /\ s.table = table
      /\ ~same /\ bound => s.px = left /\ s.table = [table EXCEPT ![v] = 0]
      /\ ~same /\ ~bound => /\ s.px = Append(left, NewProxy(v, vs))
                            /\ s.table = [table EXCEPT ![v] = Len(left) + 1]
  BY DEF Ensured
<1>2. /\ px \in Seq(Proxy) /\ table \in [Virtual -> 0 .. Len(px)]
      /\ Len(px) \in Nat /\ DOMAIN px = 1 .. Len(px) /\ i \in Nat
      /\ i # 0 => i \in DOMAIN px /\ px[i].vs = v
      /\ \A j \in DOMAIN px : px[j] \in Proxy /\ px[j].vs \in Virtual
  <2>1. px \in Seq(Proxy) /\ table \in [Virtual -> 0 .. Len(px)]
    BY DEF Agree
  <2>2. Len(px) \in Nat /\ DOMAIN px = 1 .. Len(px) /\ \A j \in DOMAIN px : px[j] \in Proxy
    BY <2>1
  <2>3. \A p \in Proxy : p.vs \in Virtual
    BY DEF Proxy
  <2>4. i \in 0 .. Len(px)
    BY <2>1
  <2>5. i # 0 => i \in DOMAIN px
    BY <2>2, <2>4
  <2>6. i # 0 => px[i].vs = v
    BY DEF Agree
  <2>7. QED
    BY <2>1, <2>2, <2>3, <2>4, <2>5, <2>6
<1>3. /\ left \in Seq(Proxy) /\ Len(left) = Len(px) /\ DOMAIN left = DOMAIN px
      /\ \A j \in DOMAIN px : /\ SameDuty(px[j], left[j]) /\ SameRest(px[j], left[j])
                              /\ left[j].open <=> px[j].open /\ j # i
  BY <1>2, StoppedFacts DEF Replaced
<1> HIDE DEF i, left, bound, same
<1>4. CASE same
  <2>1. s.px = px /\ s.table = table
    BY <1>1, <1>4
  <2>2. Continues(px, px, {v})
    BY <1>2 DEF Continues, SameDuty, SameRest
  <2>3. QED
    BY <1>4, <2>1, <2>2 DEF Matches, same, i
<1>5. ASSUME NEW j \in DOMAIN px
      PROVE  left[j].open <=> px[j].vs # v /\ table[px[j].vs] = j
  <2>1. left = Stopped(px, table[v])
    BY DEF left, i, Replaced
  <2>2. QED
    BY <1>2, <2>1, StoppedListens
<1>6. CASE ~same /\ bound
  <2>1. s.px = left /\ s.table = [table EXCEPT ![v] = 0]
    BY <1>1, <1>6
  <2>2. Agree(s.px, s.table)
    BY <2>1, StoppedAgrees DEF left, i, Replaced
  <2>3. s.table[v] = 0 /\ \A w \in Virtual \ {v} : s.table[w] = table[w]
    BY <1>2, <2>1
  <2>4. Continues(px, s.px, {v})
    BY <1>2, <1>3, <2>1 DEF Continues
  <2>5. QED
    BY <2>2, <2>3, <2>4 DEF Matches
<1>7. CASE ~same /\ ~bound
  <2> DEFINE new == NewProxy(v, vs)
             n == Len(px) + 1
             qx == Append(left, new)
  <2>1. s.px = qx /\ s.table = [table EXCEPT ![v] = n]
    BY <1>1, <1>3, <1>7
  <2>2. Complete(vs)
    BY <1>7 DEF same
  <2>3. /\ new \in Proxy /\ Unused(new) /\ new.open /\ new.vs = v
        /\ new.addr = vs.addr /\ new.pool = vs.pool
    BY <2>2, NewProxyFacts
  <2> HIDE DEF new
  <2>4. /\ qx \in Seq(Proxy) /\ Len(qx) = n /\ qx[n] = new
        /\ \A j \in DOMAIN px : qx[j] = left[j]
    <3>1. /\ qx \in Seq(Proxy) /\ Len(qx) = Len(left) + 1
          /\ \A j \in 1 .. Len(left) : qx[j] = left[j]
          /\ qx[Len(left) + 1] = new
      BY <1>3, <2>3, AppendProperties
    <3> HIDE DEF qx
    <3>2. QED
      BY <1>2, <1>3, <3>1
  <2>5. DOMAIN qx = 1 .. n /\ n \in Nat
    BY <1>2, <2>4
  <2> HIDE DEF qx
  <2>6. /\ s.table \in [Virtual -> 0 .. n]
        /\ s.table[v] = n /\ \A w \in Virtual \ {v} : s.table[w] = table[w]
    <3>1. n \in 0 .. n /\ 0 .. Len(px) \subseteq 0 .. n
      BY <1>2
    <3> HIDE DEF n
    <3>2. table \in [Virtual -> 0 .. n]
      BY <1>2, <3>1
    <3>3. s.table \in [Virtual -> 0 .. n]
      BY <2>1, <3>1, <3>2
    <3>4. QED
      BY <2>1, <3>2, <3>3
  <2>7. \A w \in Virtual \ {v} : table[w] # n
    BY <1>2
  <2>8. \A j \in DOMAIN qx : j \in DOMAIN px \/ j = n
    BY <1>2, <2>5
  <2>9. n \notin DOMAIN px
    BY <1>2
  <2> HIDE DEF n
  <2>10. ASSUME NEW j \in DOMAIN qx
         PROVE  qx[j].open <=> s.table[qx[j].vs] = j
    <3>1. CASE j = n
      BY <2>3, <2>4, <2>6, <3>1
    <3>2. CASE j \in DOMAIN px
      <4>1. qx[j] = left[j] /\ left[j].vs = px[j].vs /\ px[j].vs \in Virtual /\ j # n
        BY <1>2, <1>3, <2>4, <2>9, <3>2 DEF SameDuty
      <4>2. left[j].open <=> px[j].vs # v /\ table[px[j].vs] = j
        BY <1>5, <3>2
      <4>3. QED
        BY <2>6, <4>1, <4>2
    <3>3. QED
      BY <2>8, <3>1, <3>2
  <2>11. \A w \in Virtual : s.table[w] # 0 => qx[s.table[w]].vs = w
    <3> SUFFICES ASSUME NEW w \in Virtual, s.table[w] # 0
                 PROVE  qx[s.table[w]].vs = w
      OBVIOUS
    <3>1. CASE w = v
      BY <2>3, <2>4, <2>6, <3>1
    <3>2. CASE w # v
      <4>1. s.table[w] = table[w] /\ table[w] \in DOMAIN px /\ px[table[w]].vs = w
        BY <1>2, <2>6, <3>2 DEF Agree
      <4>2. QED
        BY <1>3, <2>4, <4>1 DEF SameDuty
    <3>3. QED
      BY <3>1, <3>2
  <2>12. ASSUME NEW j \in DOMAIN qx, NEW k \in DOMAIN qx,
                qx[j].open, qx[k].open, qx[j].addr = qx[k].addr
         PROVE  j = k
    <3>1. ASSUME NEW l \in DOMAIN px, left[l].open
          PROVE  left[l].addr # vs.addr
      BY <1>3, <1>7, <3>1 DEF bound
    <3>2. CASE j = n \/ k = n
      BY <2>3, <2>4, <2>8, <2>12, <3>1, <3>2
    <3>3. CASE j \in DOMAIN px /\ k \in DOMAIN px
      BY <1>3, <2>4, <2>12, <3>3 DEF SameDuty, Agree
    <3>4. QED
      BY <2>8, <3>2, <3>3
  <2>13. Agree(s.px, s.table)
    <3>1. s.px = qx
      BY <2>1 DEF qx
    <3>2. qx \in Seq(Proxy) /\ s.table \in [Virtual -> 0 .. Len(qx)]
      BY <2>4, <2>6
    <3>3. QED
      BY <2>10, <2>11, <2>12, <3>1, <3>2 DEF Agree
  <2>14. Matches(s.px, s.table, v, vs)
    BY <2>1, <2>3, <2>4, <2>6 DEF Matches, qx
  <2>15. Continues(px, s.px, {v})
    <3>1. Len(px) <= Len(qx)
      BY <1>2, <2>4 DEF n
    <3>2. QED
      BY <1>3, <2>1, <2>3, <2>4, <2>8, <3>1 DEF Continues, qx
  <2>16. QED
    BY <2>6, <2>13, <2>14, <2>15
<1>8. QED
  BY <1>4, <1>6, <1>7

\* What proxies continue of proxies that continue others.
LEMMA ContinuesTwice ==
  ASSUME NEW px \in Seq(Proxy), NEW qx \in Seq(Proxy), NEW rx \in Seq(Proxy), NEW V,
         Continues(px, qx, V), Continues(qx, rx, V)
  PROVE  Continues(px, rx, V)
<1>1. /\ DOMAIN px = 1 .. Len(px) /\ DOMAIN qx = 1 .. Len(qx) /\ DOMAIN rx = 1 .. Len(rx)
      /\ Len(px) \in Nat /\ Len(qx) \in Nat /\ Len(rx) \in Nat
      /\ Len(px) <= Len(qx) /\ Len(qx) <= Len(rx)
  BY DEF Continues
<1>2. DOMAIN px \subseteq DOMAIN qx /\ Len(px) <= Len(rx)
  BY <1>1
<1>3. ASSUME NEW i \in DOMAIN px
      PROVE  SameDuty(px[i], rx[i]) /\ SameRest(px[i], rx[i])
  BY <1>2 DEF Continues, SameDuty, SameRest
<1>4. ASSUME NEW i \in DOMAIN rx \ DOMAIN px
      PROVE  Unused(rx[i]) /\ rx[i].vs \in V
  <2>1. CASE i \in DOMAIN qx
    BY <1>4, <2>1 DEF Continues, SameDuty, SameRest, Unused
  <2>2. CASE i \notin DOMAIN qx
    BY <1>4, <2>2 DEF Continues
  <2>3. QED
    BY <2>1, <2>2
<1>5. QED
  BY <1>2, <1>3, <1>4 DEF Continues

\* The proxies and the table after each of the first N names.
EnsuredFor(px, table, names, servers, N, g) ==
    g = [n \in 0 .. N |-> IF n = 0 THEN [px |-> px, table |-> table]
                          ELSE Ensured(g[n - 1], names[n], servers[names[n]])]

\* The loop over any number of names has a result: a least number for which
\* it had none would be one name after a loop that has one.
LEMMA LoopEnds ==
  ASSUME NEW px, NEW table, NEW names, NEW servers, NEW N \in Nat
  PROVE  \E g : EnsuredFor(px, table, names, servers, N, g)
<1> DEFINE Next1(r, n) == Ensured(r, names[n], servers[names[n]])
           First == [px |-> px, table |-> table]
           Loop(n, g) == g = [i \in 0 .. n |-> IF i = 0 THEN First ELSE Next1(g[i - 1], i)]
           Bad == {n \in Nat : ~\E g : Loop(n, g)}
<1>1. \A g : Loop(N, g) => EnsuredFor(px, table, names, servers, N, g)
  BY DEF EnsuredFor
<1> HIDE DEF Next1, First
<1>2. SUFFICES ASSUME Bad # {} PROVE FALSE
  BY <1>1
<1>3. PICK m \in Bad : \A y \in Bad : m <= y
  BY <1>2, LeastNatural
<1>4. m # 0
  <2> DEFINE g == [i \in 0 .. 0 |-> First]
  <2>1. g = [i \in 0 .. 0 |-> IF i = 0 THEN First ELSE Next1(g[i - 1], i)]
    OBVIOUS
  <2>2. QED
    BY <1>3, <2>1
<1>5. m - 1 \in Nat /\ m - 1 \notin Bad
  BY <1>3, <1>4
<1>6. PICK h : Loop(m - 1, h)
  BY <1>5
<1> DEFINE g == [i \in 0 .. m |-> IF i = m THEN Next1(h[m - 1], m) ELSE h[i]]
<1>7. ASSUME NEW i \in 0 .. m
      PROVE  g[i] = IF i = 0 THEN First ELSE Next1(g[i - 1], i)
  <2>1. CASE i = 0
    BY <1>4, <1>5, <1>6, <2>1
  <2>2. CASE i # 0 /\ i # m
    <3>1. i \in 0 .. m - 1 /\ i - 1 \in 0 .. m /\ i - 1 # m
      BY <1>5, <2>2
    <3>2. g[i] = h[i] /\ g[i - 1] = h[i - 1]
      BY <2>2, <3>1
    <3>3. h[i] = Next1(h[i - 1], i)
      BY <1>6, <2>2, <3>1
    <3>4. QED
      BY <2>2, <3>2, <3>3
  <2>3. CASE i = m
    <3>1. i - 1 \in 0 .. m /\ i - 1 # m
      BY <1>4, <1>5, <2>3
    <3>2. g[i] = Next1(h[m - 1], m) /\ g[i - 1] = h[m - 1]
      BY <2>3, <3>1
    <3>3. QED
      BY <1>4, <2>3, <3>2
  <2>4. QED
    BY <2>1, <2>2, <2>3
<1>8. g = [i \in 0 .. m |-> IF i = 0 THEN First ELSE Next1(g[i - 1], i)]
  BY <1>7
<1>9. Loop(m, g)
  BY <1>8
<1>10. QED
  BY <1>3, <1>9

\* The loop over the names keeps the agreement, continues the proxies and
\* leaves every name with the proxy its record asks for or with none.
LEMMA AllEnsuredFacts ==
  ASSUME NEW px, NEW table, Agree(px, table), NEW names \in Seq(Virtual), NEW servers,
         \A k \in DOMAIN names : servers[names[k]] \in VirtualServer,
         NEW s, s = AllEnsured(px, table, names, servers)
  PROVE  /\ Agree(s.px, s.table)
         /\ Continues(px, s.px, {names[k] : k \in DOMAIN names})
         /\ \A k \in DOMAIN names : Matches(s.px, s.table, names[k], servers[names[k]])
<1> DEFINE N == Len(names)
           V == {names[k] : k \in DOMAIN names}
           Result == CHOOSE g : EnsuredFor(px, table, names, servers, N, g)
           F(n) == IF n = 0 THEN [px |-> px, table |-> table]
                   ELSE Ensured(Result[n - 1], names[n], servers[names[n]])
           Good(n) == /\ Agree(Result[n].px, Result[n].table)
                      /\ Continues(px, Result[n].px, V)
                      /\ \A k \in 1 .. n :
                            Matches(Result[n].px, Result[n].table, names[k], servers[names[k]])
           Bad == {n \in 0 .. N : ~Good(n)}
<1>1. N \in Nat /\ DOMAIN names = 1 .. N /\ \A k \in 1 .. N : names[k] \in Virtual
  OBVIOUS
<1>2. \A f : f = (CHOOSE g : EnsuredFor(px, table, names, servers, N, g)) => s = f[N]
  BY DEF AllEnsured, EnsuredFor
<1>3. s = Result[N]
  BY <1>2
<1>4. EnsuredFor(px, table, names, servers, N, Result)
  BY <1>1, LoopEnds
<1>5. Result = [n \in 0 .. N |-> F(n)]
  BY <1>4 DEF EnsuredFor
<1> HIDE DEF F, Result
<1>6. \A n \in 0 .. N : Result[n] = F(n)
  BY <1>5
<1>7. Result[0] = [px |-> px, table |-> table]
  BY <1>1, <1>6 DEF F
<1>8. ASSUME NEW n \in 1 .. N
      PROVE  Result[n] = Ensured(Result[n - 1], names[n], servers[names[n]])
  <2>1. n \in 0 .. N /\ n # 0
    BY <1>1
  <2>2. QED
    BY <1>6, <2>1 DEF F
<1> HIDE DEF N
<1>9. SUFFICES ASSUME Bad # {} PROVE FALSE
  <2>1. Good(N)
    <3>1. N \in 0 .. N
      BY <1>1
    <3>2. N \notin Bad
      BY <1>9
    <3>3. QED
      BY <3>1, <3>2
  <2>2. QED
    BY <1>1, <1>3, <2>1
<1>10. Bad \in SUBSET Nat
  BY <1>1
<1>11. PICK m \in Bad : \A y \in Bad : m <= y
  BY <1>9, <1>10, LeastNatural
<1>12. m \in Nat /\ m \in 0 .. N /\ ~Good(m)
  BY <1>10, <1>11
<1>13. CASE m = 0
  <2>1. Continues(px, px, V)
    BY DEF Continues, SameDuty, SameRest, Agree
  <2>2. Result[0].px = px /\ Result[0].table = table
    BY <1>7
  <2>3. \A k \in 1 .. 0 : FALSE
    OBVIOUS
  <2>4. Good(0)
    BY <2>1, <2>2, <2>3
  <2>5. QED
    BY <1>12, <1>13, <2>4
<1>14. CASE m # 0
  <2> DEFINE r == Result[m - 1]
             q == Result[m]
             v == names[m]
  <2>1. m - 1 \in 0 .. N /\ m \in 1 .. N /\ m - 1 < m /\ m - 1 \notin Bad
    <3> HIDE DEF Bad
    <3>1. m - 1 \in 0 .. N /\ m \in 1 .. N /\ ~(m <= m - 1) /\ m - 1 < m
      BY <1>1, <1>12, <1>14
    <3>2. QED
      BY <1>11, <3>1
  <2>2. Good(m - 1)
    BY <2>1
  <2>3. q = Ensured(r, v, servers[v]) /\ v \in Virtual /\ servers[v] \in VirtualServer /\ v \in V
    BY <1>1, <1>8, <2>1
  <2> HIDE DEF r, q, v
  <2>4. Agree(r.px, r.table) /\ Continues(px, r.px, V)
    BY <2>2 DEF r
  <2>5. /\ Agree(q.px, q.table) /\ Matches(q.px, q.table, v, servers[v])
        /\ Continues(r.px, q.px, {v}) /\ \A w \in Virtual \ {v} : q.table[w] = r.table[w]
    <3>1. Agree(r.px, r.table) /\ v \in Virtual /\ servers[v] \in VirtualServer
      BY <2>3, <2>4
    <3> DEFINE vs == servers[v]
    <3> HIDE DEF vs, V, Good, Bad, N, Result
    <3>2. /\ Agree(Ensured(r, v, vs).px, Ensured(r, v, vs).table)
          /\ Matches(Ensured(r, v, vs).px, Ensured(r, v, vs).table, v, vs)
          /\ Continues(r.px, Ensured(r, v, vs).px, {v})
          /\ \A w \in Virtual \ {v} : Ensured(r, v, vs).table[w] = r.table[w]
      BY <3>1, EnsuredFacts DEF vs
    <3>3. q = Ensured(r, v, vs)
      BY <2>3 DEF vs
    <3>4. QED
      BY <3>2, <3>3 DEF vs
  <2>6. Continues(r.px, q.px, V)
    BY <2>3, <2>5 DEF Continues
  <2>7. Continues(px, q.px, V)
    <3>1. px \in Seq(Proxy) /\ r.px \in Seq(Proxy) /\ q.px \in Seq(Proxy)
      BY <2>4, <2>5 DEF Agree
    <3>2. QED
      BY <2>4, <2>6, <3>1, ContinuesTwice
  <2>8. ASSUME NEW k \in 1 .. m
        PROVE  Matches(q.px, q.table, names[k], servers[names[k]])
    <3>1. CASE names[k] = v
      BY <2>5, <3>1
    <3>2. CASE names[k] # v
      <4>1. k \in 1 .. m - 1 /\ k \in 1 .. N
        BY <1>1, <1>12, <3>2 DEF v
      <4>2. Matches(r.px, r.table, names[k], servers[names[k]])
        BY <2>2, <4>1 DEF r
      <4>3. names[k] \in Virtual /\ q.table[names[k]] = r.table[names[k]]
        BY <1>1, <2>5, <3>2, <4>1
      <4>4. r.table[names[k]] # 0 => r.table[names[k]] \in DOMAIN r.px
        <5>1. r.px \in Seq(Proxy) /\ r.table \in [Virtual -> 0 .. Len(r.px)]
          BY <2>4 DEF Agree
        <5>2. r.table[names[k]] \in 0 .. Len(r.px)
          BY <4>3, <5>1
        <5>3. DOMAIN r.px = 1 .. Len(r.px) /\ Len(r.px) \in Nat
          BY <5>1
        <5>4. QED
          BY <5>2, <5>3
      <4>5. \A i \in DOMAIN r.px : SameDuty(r.px[i], q.px[i])
        BY <2>5 DEF Continues
      <4>6. QED
        BY <4>2, <4>3, <4>4, <4>5 DEF Matches, SameDuty
    <3>3. QED
      BY <3>1, <3>2
  <2>9. Good(m)
    BY <2>5, <2>7, <2>8 DEF q
  <2>10. QED
    BY <1>12, <2>9
<1>15. QED
  BY <1>13, <1>14

-----------------------------------------------------------------------------
(* The inductive invariant.                                                *)

\* The configuration in force and the saved one list their virtual servers.
Configured ==
    /\ Configuration([order |-> order, virtual |-> virtual, pool |-> pool])
    /\ Configuration(saved)

\* A proxy that asks the current object for its persistence finds it.
PersistKnown == \A i \in DOMAIN proxy : proxy[i].persist = Current => virtual[proxy[i].vs] # None

\* A connection has a proxy and a client; it chooses among members and works on one.
Ready(h) ==
    /\ h.pc # "idle" => h.on \in DOMAIN proxy /\ h.client \in Client
    /\ h.pc = "pick" => h.up # <<>>
    /\ h.pc \in {"keep", "record", "count", "connect", "relay"} => h.member \in Member
HandlersReady == \A t \in Thread : Ready(thread[t])

\* What a thread read of the affinity still holds unless it raced: a thread that
\* keeps the member finds it there, one that chooses anew finds no entry, an
\* expired one or one of a member it saw down.
Held(h, entry) ==
    ~h.raced =>
        /\ h.pc = "keep" => entry # None /\ entry.member = h.member
        /\ h.pc = "record" \/ (h.pc = "pick" /\ h.persist)
              => entry = None \/ ~entry.fresh \/ entry.member \notin ToSet(h.up)
Seen(h) == proxy[h.on].affinity[h.client]
ReadHolds == \A t \in Thread : Held(thread[t], Seen(thread[t]))

\* The configured virtual servers have the proxies they ask for or none.
Served == \A v \in Virtual : virtual[v] # None => Matches(proxy, proxies, v, virtual[v])

\* What every reachable state of the load balancer satisfies.
BInv == /\ TypeOK /\ Configured
        /\ Agree(proxy, proxies) /\ Served /\ PersistKnown
        /\ HandlersReady /\ ConnsCounted /\ ReadHolds

\* The invariant says of sockets what ListenersMatch says.
LEMMA BInvListeners == BInv => ListenersMatch
  BY DEF BInv, Agree, Served, Matches, ListenersMatch

\* Proxies are records of their type.
LEMMA ProxyFields ==
  ASSUME BInv, NEW i \in DOMAIN proxy
  PROVE  /\ proxy[i] \in Proxy /\ proxy[i].vs \in Virtual /\ proxy[i].pool \in Pool
         /\ proxy[i].pools \in Pools \cup {Current} /\ proxy[i].persist \in BOOLEAN \cup {Current}
         /\ proxy[i].rr \in Nat /\ proxy[i].active \in [Member -> Nat]
         /\ proxy[i].affinity \in [Client -> Affinity \cup {None}]
         /\ i \in Nat
<1>1. proxy \in Seq(Proxy)
  BY DEF BInv, TypeOK
<1>2. proxy[i] \in Proxy /\ i \in Nat
  BY <1>1
<1>3. QED
  BY <1>2 DEF Proxy

\* The connections at work on a member through a proxy.
Working(h) == h.pc \in {"connect", "relay"}
WorkingOn(i, m) == {t \in Thread : thread[t].on = i /\ thread[t].member = m /\ Working(thread[t])}

\* The counters are the numbers of connections at work.
LEMMA CountedAsWorking ==
  /\ ConnsCounted <=> \A i \in DOMAIN proxy, m \in Member :
                          proxy[i].active[m] = Cardinality(WorkingOn(i, m))
  /\ ConnsCounted' <=> \A i \in DOMAIN proxy', m \in Member :
                          proxy'[i].active[m] = Cardinality(WorkingOn(i, m)')
  BY DEF ConnsCounted, WorkingOn, Working

\* Nobody is counted on a proxy that a connection cannot be on.
LEMMA NobodyOnNew ==
  ASSUME BInv, NEW i, i \notin DOMAIN proxy, NEW m
  PROVE  WorkingOn(i, m) = {}
  BY DEF BInv, HandlersReady, Ready, WorkingOn, Working

\* A finite set of connections is counted by a natural number.
LEMMA WorkingFinite ==
  ASSUME NEW i, NEW m
  PROVE  IsFiniteSet(WorkingOn(i, m)) /\ Cardinality(WorkingOn(i, m)) \in Nat
<1>1. IsFiniteSet(WorkingOn(i, m))
  BY ValueAssumption, FS_Subset DEF WorkingOn
<1>2. QED
  BY <1>1, FS_CardinalityType

\* What a thread has in hand is the same in h and g, but for its list.
SameTask(h, g) == /\ g.pc = h.pc /\ g.on = h.on /\ g.client = h.client /\ g.up = h.up
                  /\ g.persist = h.persist /\ g.member = h.member /\ g.raced = h.raced

\* While the operator works, connections and their counters go on: the threads'
\* tasks stay, old proxies keep counters and affinities, new ones are unused.
LEMMA Undisturbed ==
  ASSUME BInv, proxy' \in Seq(Proxy), Len(proxy) <= Len(proxy'),
         \A t \in Thread : SameTask(thread[t], thread'[t]),
         \A i \in DOMAIN proxy : /\ proxy'[i].active = proxy[i].active
                                 /\ proxy'[i].affinity = proxy[i].affinity,
         \A i \in DOMAIN proxy' \ DOMAIN proxy : proxy'[i].active = [m \in Member |-> 0]
  PROVE  HandlersReady' /\ ConnsCounted' /\ ReadHolds'
<1>1. DOMAIN proxy \subseteq DOMAIN proxy'
  BY DEF BInv, TypeOK
<1>2. HandlersReady'
  BY <1>1 DEF BInv, HandlersReady, Ready, SameTask
<1>3. \A i, m : WorkingOn(i, m)' = WorkingOn(i, m)
  BY DEF WorkingOn, Working, SameTask
<1>4. ConnsCounted'
  <2> SUFFICES ASSUME NEW i \in DOMAIN proxy', NEW m \in Member
               PROVE  proxy'[i].active[m] = Cardinality(WorkingOn(i, m))
    BY <1>3, CountedAsWorking
  <2>1. CASE i \in DOMAIN proxy
    BY <2>1, CountedAsWorking DEF BInv
  <2>2. CASE i \notin DOMAIN proxy
    <3>1. proxy'[i].active[m] = 0
      BY <2>2
    <3>2. Cardinality(WorkingOn(i, m)) = 0
      BY <2>2, NobodyOnNew, FS_EmptySet
    <3>3. QED
      BY <3>1, <3>2
  <2>3. QED
    BY <2>1, <2>2
<1>5. ReadHolds'
  <2> SUFFICES ASSUME NEW t \in Thread
               PROVE  Held(thread'[t], Seen(thread[t])')
    BY DEF ReadHolds
  <2>1. SameTask(thread[t], thread'[t])
    OBVIOUS
  <2>2. CASE thread[t].pc = "idle"
    BY <2>1, <2>2 DEF SameTask, Held
  <2>3. CASE thread[t].pc # "idle"
    <3>1. thread[t].on \in DOMAIN proxy
      BY <2>3 DEF BInv, HandlersReady, Ready
    <3>2. Seen(thread[t])' = Seen(thread[t])
      BY <2>1, <3>1 DEF Seen, SameTask
    <3>3. Held(thread[t], Seen(thread[t]))
      BY DEF BInv, ReadHolds
    <3>4. QED
      BY <2>1, <3>2, <3>3 DEF Held, SameTask
  <2>4. QED
    BY <2>2, <2>3
<1>6. QED
  BY <1>2, <1>4, <1>5

\* While a connection is served, sockets, tables and configuration stay.
LEMMA Unconfigured ==
  ASSUME BInv, UNCHANGED <<order, virtual, pool, saved, proxies>>,
         proxy' \in Seq(Proxy), Len(proxy') = Len(proxy),
         \A i \in DOMAIN proxy : /\ SameDuty(proxy[i], proxy'[i])
                                 /\ proxy'[i].open = proxy[i].open
                                 /\ proxy'[i].persist = proxy[i].persist
  PROVE  Configured' /\ Agree(proxy, proxies)' /\ Served' /\ PersistKnown'
<1>1. DOMAIN proxy' = DOMAIN proxy /\ proxy \in Seq(Proxy)
  BY DEF BInv, TypeOK
<1>2. Configured'
  BY DEF BInv, Configured, Configuration
<1>3. Agree(proxy, proxies)'
  <2>1. Agree(proxy, proxies)
    BY DEF BInv
  <2>2. \A v \in Virtual : proxies[v] # 0 => proxies[v] \in DOMAIN proxy
    BY <1>1, <2>1 DEF Agree
  <2>3. proxies' \in [Virtual -> 0 .. Len(proxy')]
    BY <2>1 DEF Agree
  <2>4. QED
    BY <1>1, <2>1, <2>2, <2>3 DEF Agree, SameDuty
<1>4. Served'
  <2>1. \A v \in Virtual : proxies[v] # 0 => proxies[v] \in DOMAIN proxy
    BY <1>1 DEF BInv, Agree
  <2>2. QED
    BY <2>1 DEF BInv, Served, Matches, SameDuty
<1>5. PersistKnown'
  BY <1>1 DEF BInv, PersistKnown, SameDuty
<1>6. QED
  BY <1>2, <1>3, <1>4, <1>5

-----------------------------------------------------------------------------
(* Commands.                                                               *)

\* Agreement is about duties and sockets only.
LEMMA AgreeKept ==
  ASSUME NEW px, NEW table, Agree(px, table), NEW qx \in Seq(Proxy), Len(qx) = Len(px),
         \A i \in DOMAIN px : SameDuty(px[i], qx[i]) /\ qx[i].open = px[i].open
  PROVE  Agree(qx, table)
<1>1. px \in Seq(Proxy) /\ table \in [Virtual -> 0 .. Len(px)]
  BY DEF Agree
<1>2. DOMAIN qx = DOMAIN px /\ table \in [Virtual -> 0 .. Len(qx)]
  BY <1>1
<1>3. \A v \in Virtual : table[v] # 0 => table[v] \in DOMAIN px
  BY <1>1
<1>4. QED
  BY <1>2, <1>3 DEF Agree, SameDuty

\* A proxy that keeps the pools of a replaced DeviceState changes in nothing else.
LEMMA OrphanedFacts ==
  ASSUME pool \in Pools, NEW px \in Seq(Proxy)
  PROVE  /\ Orphaned(px) \in Seq(Proxy) /\ Len(Orphaned(px)) = Len(px)
         /\ \A i \in DOMAIN px : /\ SameDuty(px[i], Orphaned(px)[i])
                                 /\ Orphaned(px)[i].open = px[i].open
                                 /\ Orphaned(px)[i].persist = px[i].persist
                                 /\ Orphaned(px)[i].active = px[i].active
                                 /\ Orphaned(px)[i].affinity = px[i].affinity
<1> DEFINE qx == Orphaned(px)
<1>1. DOMAIN px = 1 .. Len(px) /\ Len(px) \in Nat
  OBVIOUS
<1>2. qx = [i \in 1 .. Len(px) |->
              IF px[i].pools = Current THEN [px[i] EXCEPT !.pools = pool] ELSE px[i]]
  BY <1>1 DEF Orphaned
<1>3. ASSUME NEW i \in 1 .. Len(px)
      PROVE  /\ qx[i] \in Proxy /\ SameDuty(px[i], qx[i])
             /\ qx[i].open = px[i].open /\ qx[i].persist = px[i].persist
             /\ qx[i].active = px[i].active /\ qx[i].affinity = px[i].affinity
  <2>1. px[i] \in Proxy
    OBVIOUS
  <2>2. [px[i] EXCEPT !.pools = pool] \in Proxy
    BY <2>1 DEF Proxy
  <2>3. qx[i] = IF px[i].pools = Current THEN [px[i] EXCEPT !.pools = pool] ELSE px[i]
    BY <1>2
  <2>4. QED
    BY <2>1, <2>2, <2>3 DEF SameDuty, Proxy
<1>4. qx \in [1 .. Len(px) -> Proxy]
  BY <1>2, <1>3
<1>5. QED
  BY <1>1, <1>3, <1>4, FunctionIsSeq

\* A proxy that keeps a replaced virtual server changes in its persistence only,
\* and no proxy of one of the virtual servers vs asks the current object.
LEMMA DetachedFacts ==
  ASSUME BInv, NEW vs \in SUBSET Virtual
  PROVE  /\ Detached(proxy, vs) \in Seq(Proxy) /\ Len(Detached(proxy, vs)) = Len(proxy)
         /\ \A i \in DOMAIN proxy :
               /\ SameDuty(proxy[i], Detached(proxy, vs)[i])
               /\ Detached(proxy, vs)[i].open = proxy[i].open
               /\ Detached(proxy, vs)[i].active = proxy[i].active
               /\ Detached(proxy, vs)[i].affinity = proxy[i].affinity
               /\ Detached(proxy, vs)[i].persist = Current
                     => proxy[i].persist = Current /\ proxy[i].vs \notin vs
<1> DEFINE qx == Detached(proxy, vs)
           kept(i) == proxy[i].vs \in vs /\ proxy[i].persist = Current
                      /\ virtual[proxy[i].vs] # None
<1>1. DOMAIN proxy = 1 .. Len(proxy) /\ Len(proxy) \in Nat
  BY DEF BInv, TypeOK
<1>2. qx = [i \in 1 .. Len(proxy) |->
              IF kept(i) THEN [proxy[i] EXCEPT !.persist = virtual[proxy[i].vs].persist]
              ELSE proxy[i]]
  BY <1>1 DEF Detached
<1> HIDE DEF kept
<1>3. ASSUME NEW i \in 1 .. Len(proxy)
      PROVE  /\ qx[i] \in Proxy /\ SameDuty(proxy[i], qx[i])
             /\ qx[i].open = proxy[i].open
             /\ qx[i].active = proxy[i].active /\ qx[i].affinity = proxy[i].affinity
             /\ qx[i].persist = Current => proxy[i].persist = Current /\ proxy[i].vs \notin vs
  <2>1. proxy[i] \in Proxy /\ proxy[i].vs \in Virtual
    BY <1>1, ProxyFields
  <2>2. qx[i] = IF kept(i) THEN [proxy[i] EXCEPT !.persist = virtual[proxy[i].vs].persist]
                ELSE proxy[i]
    BY <1>2
  <2>3. CASE kept(i)
    <3>1. virtual[proxy[i].vs] \in VirtualServer
      BY <2>1, <2>3 DEF kept, BInv, TypeOK
    <3>2. virtual[proxy[i].vs].persist \in BOOLEAN
      BY <3>1 DEF VirtualServer
    <3> DEFINE b == virtual[proxy[i].vs].persist
    <3>3. b # Current
      BY <3>2, ValueAssumption
    <3> HIDE DEF b
    <3>4. qx[i] = [proxy[i] EXCEPT !.persist = b] /\ b \in BOOLEAN
      BY <2>2, <2>3, <3>2 DEF b
    <3>5. qx[i] \in Proxy
      BY <2>1, <3>4 DEF Proxy
    <3>6. QED
      BY <2>1, <3>3, <3>4, <3>5 DEF SameDuty, Proxy
  <2>4. CASE ~kept(i)
    <3>1. proxy[i].persist = Current => virtual[proxy[i].vs] # None
      BY <1>1 DEF BInv, PersistKnown
    <3>2. QED
      BY <2>1, <2>2, <2>4, <3>1 DEF kept, SameDuty
  <2>5. QED
    BY <2>3, <2>4
<1>4. qx \in [1 .. Len(proxy) -> Proxy]
  BY <1>2, <1>3
<1>5. QED
  BY <1>1, <1>3, <1>4, FunctionIsSeq

\* A command that ends in ensure_virtual_server_proxy for every virtual server
\* leaves each with the proxy it asks for or with none.
LEMMA EnsureAllStep ==
  ASSUME NEW px, Agree(px, proxies), EnsureAll(px),
         Configuration([order |-> order', virtual |-> virtual', pool |-> pool'])
  PROVE  /\ Agree(proxy', proxies') /\ Served'
         /\ Continues(px, proxy', {v \in Virtual : virtual'[v] # None})
<1> DEFINE s == AllEnsured(px, proxies, order', virtual')
<1>1. proxy' = s.px /\ proxies' = s.table
  BY DEF EnsureAll
<1>2. /\ order' \in Seq(Virtual) /\ virtual' \in [Virtual -> VirtualServer \cup {None}]
      /\ \A v \in Virtual : virtual'[v] # None <=> \E k \in DOMAIN order' : order'[k] = v
  BY DEF Configuration
<1>3. \A k \in DOMAIN order' : order'[k] \in Virtual
  BY <1>2
<1>4. \A k \in DOMAIN order' : virtual'[order'[k]] \in VirtualServer
  BY <1>2, <1>3
<1>5. /\ Agree(s.px, s.table)
      /\ Continues(px, s.px, {order'[k] : k \in DOMAIN order'})
      /\ \A k \in DOMAIN order' : Matches(s.px, s.table, order'[k], virtual'[order'[k]])
  BY <1>2, <1>4, AllEnsuredFacts
<1> HIDE DEF s
<1>6. {order'[k] : k \in DOMAIN order'} = {v \in Virtual : virtual'[v] # None}
  BY <1>2, <1>3
<1>7. Served'
  BY <1>1, <1>2, <1>5 DEF Served
<1>8. QED
  BY <1>1, <1>5, <1>6, <1>7

\* What such a command leaves of proxies, counters and connections, if it changes
\* no affinity on its way and the proxies that still ask the current object for
\* their persistence belong to virtual servers that stay.
LEMMA EnsuringStep ==
  ASSUME BInv, NEW px, px \in Seq(Proxy), Len(px) = Len(proxy),
         \A i \in DOMAIN proxy : /\ SameDuty(proxy[i], px[i]) /\ px[i].open = proxy[i].open
                                 /\ px[i].active = proxy[i].active
                                 /\ px[i].affinity = proxy[i].affinity
                                 /\ px[i].persist = Current => virtual'[proxy[i].vs] # None,
         EnsureAll(px), Configuration([order |-> order', virtual |-> virtual', pool |-> pool']),
         \A t \in Thread : SameTask(thread[t], thread'[t])
  PROVE  /\ Agree(proxy, proxies)' /\ Served' /\ PersistKnown'
         /\ HandlersReady' /\ ConnsCounted' /\ ReadHolds'
         /\ \A i \in DOMAIN proxy : proxy'[i].affinity = proxy[i].affinity
<1>1. Agree(px, proxies)
  BY AgreeKept DEF BInv
<1>2. /\ Agree(proxy', proxies') /\ Served'
      /\ Continues(px, proxy', {v \in Virtual : virtual'[v] # None})
  BY <1>1, EnsureAllStep
<1>3. /\ proxy' \in Seq(Proxy) /\ proxy \in Seq(Proxy)
      /\ DOMAIN px = DOMAIN proxy /\ Len(proxy) <= Len(proxy')
  BY <1>2 DEF Agree, Continues, BInv, TypeOK
<1>4. DOMAIN proxy \subseteq DOMAIN proxy'
  BY <1>3
<1>5. PersistKnown'
  <2> SUFFICES ASSUME NEW i \in DOMAIN proxy', proxy'[i].persist = Current
               PROVE  virtual'[proxy'[i].vs] # None
    BY DEF PersistKnown
  <2>1. CASE i \in DOMAIN proxy
    <3>1. SameDuty(px[i], proxy'[i]) /\ SameRest(px[i], proxy'[i])
      BY <1>2, <1>3, <2>1 DEF Continues
    <3>2. px[i].persist = Current /\ SameDuty(proxy[i], px[i])
      BY <2>1, <3>1 DEF SameRest
    <3>3. QED
      BY <2>1, <3>1, <3>2 DEF SameDuty
  <2>2. CASE i \notin DOMAIN proxy
    BY <1>2, <1>3, <2>2 DEF Continues
  <2>3. QED
    BY <2>1, <2>2
<1>6. \A i \in DOMAIN proxy : /\ proxy'[i].active = proxy[i].active
                              /\ proxy'[i].affinity = proxy[i].affinity
  BY <1>2, <1>3 DEF Continues, SameRest
<1>7. \A i \in DOMAIN proxy' \ DOMAIN proxy : proxy'[i].active = [m \in Member |-> 0]
  BY <1>2, <1>3 DEF Continues, Unused
<1>8. HandlersReady' /\ ConnsCounted' /\ ReadHolds'
  BY <1>3, <1>6, <1>7, Undisturbed
<1>9. QED
  BY <1>2, <1>5, <1>6, <1>8

\* A client's affinity passes to another member only as AffinityHolds says.
AffinityPasses ==
    \A i \in DOMAIN proxy, c \in Client :
        LET old == proxy[i].affinity[c]
            new == proxy'[i].affinity[c]
        IN  (old # None /\ old.fresh /\ new.member # old.member)
                => \E t \in Thread : /\ thread[t].on = i /\ Writes(t)
                                     /\ thread[t].raced \/ old.member \notin ToSet(thread[t].up)

\* Where no affinity changes, none passes.
LEMMA NoAffinityPasses ==
  ASSUME \A i \in DOMAIN proxy : proxy'[i].affinity = proxy[i].affinity
  PROVE  AffinityPasses
  BY DEF AffinityPasses

\* The types of what a configuration command leaves.
LEMMA CommandTypes ==
  ASSUME BInv, Commands, UNCHANGED alive, Agree(proxy', proxies'), Configured',
         thread' \in [Thread -> Handler]
  PROVE  TypeOK'
<1>1. commands' \in 0 .. MaxCommands /\ flips' \in 0 .. MaxFlips /\ conns' \in 0 .. MaxConns
  BY ValueAssumption DEF BInv, TypeOK, Commands
<1>2. /\ order' \in Seq(Virtual) /\ virtual' \in [Virtual -> VirtualServer \cup {None}]
      /\ pool' \in Pools
  BY DEF Configured, Configuration
<1>3. saved'.virtual \in [Virtual -> VirtualServer \cup {None}] /\ saved'.pool \in Pools
  BY DEF Configured, Configuration
<1>4. proxy' \in Seq(Proxy) /\ proxies' \in [Virtual -> 0 .. Len(proxy')]
  BY DEF Agree
<1>5. alive' \subseteq Member
  BY DEF BInv, TypeOK
<1>6. QED
  BY <1>1, <1>2, <1>3, <1>4, <1>5 DEF TypeOK

\* The task of a thread that does not move.
LEMMA SameTaskStays ==
  ASSUME UNCHANGED thread
  PROVE  \A t \in Thread : SameTask(thread[t], thread'[t])
  BY DEF SameTask

\* The current configuration, taken apart.
LEMMA ConfigurationNow ==
  ASSUME BInv
  PROVE  /\ order \in Seq(Virtual) /\ virtual \in [Virtual -> VirtualServer \cup {None}]
         /\ pool \in Pools
         /\ DOMAIN order = 1 .. Len(order) /\ Len(order) \in Nat
         /\ \A k \in DOMAIN order : order[k] \in Virtual
         /\ \A j, k \in DOMAIN order : order[j] = order[k] => j = k
         /\ \A v \in Virtual : virtual[v] # None <=> \E k \in DOMAIN order : order[k] = v
         /\ Configuration(saved)
<1>1. Configuration([order |-> order, virtual |-> virtual, pool |-> pool]) /\ Configuration(saved)
  BY DEF BInv, Configured
<1>2. order \in Seq(Virtual)
  BY <1>1 DEF Configuration
<1>3. QED
  BY <1>1, <1>2 DEF Configuration

\* A configuration is put together from its parts.
LEMMA ConfigurationOf ==
  ASSUME NEW o \in Seq(Virtual), NEW w \in [Virtual -> VirtualServer \cup {None}],
         NEW p \in Pools,
         \A j, k \in DOMAIN o : o[j] = o[k] => j = k,
         \A v \in Virtual : w[v] # None <=> \E k \in DOMAIN o : o[k] = v
  PROVE  Configuration([order |-> o, virtual |-> w, pool |-> p])
  BY DEF Configuration

\* tmsh create or modify ltm virtual.
LEMMA SetVirtualStep ==
  ASSUME BInv, NEW v \in Virtual, NEW a \in Address \cup {None}, NEW p \in Pool \cup {None},
         NEW persist \in BOOLEAN, SetVirtual(v, a, p, persist)
  PROVE  BInv' /\ AffinityPasses
<1> DEFINE old == virtual[v]
           new == [addr |-> a,
                   pool |-> IF p = None /\ old # None THEN old.pool ELSE p,
                   persist |-> persist \/ (old # None /\ old.persist)]
<1>1. virtual' = [virtual EXCEPT ![v] = new]
  BY DEF SetVirtual
<1>2. new \in VirtualServer
  <2>1. old \in VirtualServer \cup {None}
    BY ConfigurationNow
  <2> HIDE DEF old
  <2>2. (IF p = None /\ old # None THEN old.pool ELSE p) \in Pool \cup {None}
    BY <2>1 DEF VirtualServer
  <2>3. (persist \/ (old # None /\ old.persist)) \in BOOLEAN
    OBVIOUS
  <2>4. QED
    BY <2>2, <2>3 DEF VirtualServer
<1>3. new # None
  BY <1>2, ValueAssumption
<1> HIDE DEF new
<1>4. /\ virtual' \in [Virtual -> VirtualServer \cup {None}] /\ virtual'[v] # None
      /\ \A w \in Virtual \ {v} : virtual'[w] = virtual[w]
  BY <1>1, <1>2, <1>3, ConfigurationNow
<1>5. /\ order' = IF virtual[v] = None THEN Append(order, v) ELSE order
      /\ UNCHANGED <<pool, saved, thread, alive>> /\ Commands /\ EnsureAll(proxy)
  BY DEF SetVirtual
<1>6. Configuration([order |-> order', virtual |-> virtual', pool |-> pool'])
  <2>1. CASE virtual[v] # None
    <3>1. order' = order /\ pool' = pool
      BY <1>5, <2>1
    <3>2. \A w \in Virtual : virtual'[w] # None <=> \E k \in DOMAIN order : order[k] = w
      BY <1>4, <2>1, ConfigurationNow
    <3>3. QED
      BY <1>4, <3>1, <3>2, ConfigurationNow, ConfigurationOf
  <2>2. CASE virtual[v] = None
    <3> DEFINE n == Len(order) + 1
    <3>1. /\ order' \in Seq(Virtual) /\ Len(order') = n /\ order'[n] = v
          /\ \A k \in 1 .. Len(order) : order'[k] = order[k]
      BY <1>5, <2>2, ConfigurationNow, AppendProperties
    <3>2. /\ DOMAIN order' = 1 .. n /\ DOMAIN order = 1 .. Len(order) /\ n \in 1 .. n
          /\ \A k \in 1 .. n : k = n \/ k \in 1 .. Len(order)
          /\ 1 .. Len(order) \subseteq 1 .. n
      BY <3>1, ConfigurationNow
    <3> HIDE DEF n
    <3>3. \A k \in 1 .. Len(order) : order[k] # v
      BY <2>2, <3>2, ConfigurationNow
    <3>4. \A j, k \in DOMAIN order' : order'[j] = order'[k] => j = k
      BY <3>1, <3>2, <3>3, ConfigurationNow
    <3>5. ASSUME NEW w \in Virtual
          PROVE  virtual'[w] # None <=> \E k \in DOMAIN order' : order'[k] = w
      <4>1. CASE w = v
        BY <1>4, <3>1, <3>2, <4>1
      <4>2. CASE w # v
        BY <1>4, <3>1, <3>2, <4>2, ConfigurationNow
      <4>3. QED
        BY <4>1, <4>2
    <3>6. pool' = pool /\ pool \in Pools
      BY <1>5, ConfigurationNow
    <3>7. QED
      BY <1>4, <3>1, <3>4, <3>5, <3>6, ConfigurationOf
  <2>3. QED
    BY <2>1, <2>2
<1>7. Configured'
  BY <1>5, <1>6, ConfigurationNow DEF Configured
<1>8. ASSUME NEW i \in DOMAIN proxy
      PROVE  /\ SameDuty(proxy[i], proxy[i])
             /\ proxy[i].persist = Current => virtual'[proxy[i].vs] # None
  BY <1>4, ProxyFields DEF BInv, PersistKnown, SameDuty
<1>9. /\ Agree(proxy, proxies)' /\ Served' /\ PersistKnown'
      /\ HandlersReady' /\ ConnsCounted' /\ ReadHolds'
      /\ \A i \in DOMAIN proxy : proxy'[i].affinity = proxy[i].affinity
  <2>1. proxy \in Seq(Proxy)
    BY DEF BInv, TypeOK
  <2>2. \A t \in Thread : SameTask(thread[t], thread'[t])
    BY <1>5, SameTaskStays
  <2>3. QED
    BY <1>5, <1>6, <1>8, <2>1, <2>2, EnsuringStep
<1>10. TypeOK'
  <2>1. thread' \in [Thread -> Handler]
    BY <1>5 DEF BInv, TypeOK
  <2>2. QED
    BY <1>5, <1>7, <1>9, <2>1, CommandTypes
<1>11. QED
  BY <1>7, <1>9, <1>10, NoAffinityPasses DEF BInv

\* The common part of the commands on pools.
LEMMA SetPoolStep ==
  ASSUME BInv, NEW p \in Pool, NEW new \in PoolRecord, NEW handlers \in [Thread -> Handler],
         \A t \in Thread : SameTask(thread[t], handlers[t]), SetPool(p, new, handlers)
  PROVE  BInv' /\ AffinityPasses
<1>1. /\ pool' = [pool EXCEPT ![p] = new] /\ thread' = handlers
      /\ UNCHANGED <<order, virtual, saved, alive>> /\ Commands /\ EnsureAll(proxy)
  BY DEF SetPool
<1>2. pool' \in Pools
  BY <1>1, ConfigurationNow DEF Pools
<1>3. Configuration([order |-> order', virtual |-> virtual', pool |-> pool'])
  BY <1>1, <1>2, ConfigurationNow, ConfigurationOf
<1>4. Configured'
  BY <1>1, <1>3, ConfigurationNow DEF Configured
<1>5. ASSUME NEW i \in DOMAIN proxy
      PROVE  /\ SameDuty(proxy[i], proxy[i])
             /\ proxy[i].persist = Current => virtual'[proxy[i].vs] # None
  BY <1>1 DEF BInv, PersistKnown, SameDuty
<1>6. /\ Agree(proxy, proxies)' /\ Served' /\ PersistKnown'
      /\ HandlersReady' /\ ConnsCounted' /\ ReadHolds'
      /\ \A i \in DOMAIN proxy : proxy'[i].affinity = proxy[i].affinity
  <2>1. proxy \in Seq(Proxy)
    BY DEF BInv, TypeOK
  <2>2. QED
    BY <1>1, <1>3, <1>5, <2>1, EnsuringStep
<1>7. TypeOK'
  BY <1>1, <1>4, <1>6, CommandTypes
<1>8. QED
  BY <1>4, <1>6, <1>7, NoAffinityPasses DEF BInv

\* A pool that exists, or the one that a command creates.
LEMMA PoolOfType ==
  ASSUME BInv, NEW p \in Pool
  PROVE  PoolOf(p) \in PoolRecord
<1>1. pool[p] \in PoolRecord \cup {None}
  BY ConfigurationNow DEF Pools
<1>2. NewPool \in PoolRecord
  BY EmptySeq DEF NewPool, PoolRecord
<1>3. QED
  BY <1>1, <1>2 DEF PoolOf

\* A pool gains a member; threads that walk its list may see it.
LEMMA AddMemberStep ==
  ASSUME BInv, NEW p \in Pool, NEW m \in Member, AddMember(p, m)
  PROVE  BInv' /\ AffinityPasses
<1>1. PoolOf(p) \in PoolRecord /\ thread \in [Thread -> Handler]
  BY PoolOfType DEF BInv, TypeOK
<1>2. CASE m \in ToSet(PoolOf(p).members)
  <2>1. SetPool(p, PoolOf(p), thread)
    BY <1>2 DEF AddMember
  <2>2. \A t \in Thread : SameTask(thread[t], thread[t])
    BY DEF SameTask
  <2>3. QED
    BY <1>1, <2>1, <2>2, SetPoolStep
<1>3. CASE m \notin ToSet(PoolOf(p).members)
  <2> DEFINE new == [PoolOf(p) EXCEPT !.members = Append(@, m), !.disabled = @ \ {m}]
             seen(T) == [t \in Thread |-> IF t \in T THEN [thread[t] EXCEPT !.todo = Append(@, m)]
                                                     ELSE thread[t]]
  <2>1. PICK T \in SUBSET Thread : SetPool(p, new, seen(T))
    BY <1>3 DEF AddMember
  <2>2. new \in PoolRecord
    <3>1. /\ PoolOf(p).members \in Seq(Member) /\ PoolOf(p).disabled \in SUBSET Member
          /\ PoolOf(p).least \in BOOLEAN
      BY <1>1 DEF PoolRecord
    <3>2. Append(PoolOf(p).members, m) \in Seq(Member)
      BY <3>1
    <3>3. ASSUME NEW q \in PoolRecord, NEW x \in Seq(Member), NEW d \in SUBSET Member
          PROVE  [q EXCEPT !.members = x, !.disabled = d] \in PoolRecord
      BY DEF PoolRecord
    <3>4. PoolOf(p).disabled \ {m} \in SUBSET Member
      BY <3>1
    <3>5. QED
      BY <1>1, <3>2, <3>3, <3>4
  <2>3. ASSUME NEW t \in Thread
        PROVE  seen(T)[t] \in Handler /\ SameTask(thread[t], seen(T)[t])
    <3>1. thread[t] \in Handler
      BY <1>1
    <3>2. thread[t].todo \in Seq(Member)
      BY <3>1 DEF Handler
    <3>3. Append(thread[t].todo, m) \in Seq(Member)
      BY <3>2
    <3>4. [thread[t] EXCEPT !.todo = Append(@, m)] \in Handler
      BY <3>1, <3>3 DEF Handler
    <3>5. seen(T)[t] = IF t \in T THEN [thread[t] EXCEPT !.todo = Append(@, m)] ELSE thread[t]
      OBVIOUS
    <3>6. QED
      BY <3>1, <3>4, <3>5 DEF SameTask, Handler
  <2>4. seen(T) \in [Thread -> Handler]
    BY <2>3
  <2> HIDE DEF new, seen
  <2>5. QED
    BY <2>1, <2>2, <2>3, <2>4, SetPoolStep
<1>4. QED
  BY <1>2, <1>3

\* A pool loses a member, has one disabled or enabled, or changes its mode.
LEMMA ChangePoolStep ==
  ASSUME BInv, NEW p \in Pool, NEW m \in Member, NEW b \in BOOLEAN,
         DeleteMember(p, m) \/ DisableMember(p, m, b) \/ SetMode(p, b)
  PROVE  BInv' /\ AffinityPasses
<1>1. PoolOf(p) \in PoolRecord /\ thread \in [Thread -> Handler]
  BY PoolOfType DEF BInv, TypeOK
<1>2. \A t \in Thread : SameTask(thread[t], thread[t])
  BY DEF SameTask
<1>3. ASSUME NEW new \in PoolRecord, SetPool(p, new, thread)
      PROVE  BInv' /\ AffinityPasses
  BY <1>1, <1>2, <1>3, SetPoolStep
<1>4. CASE DeleteMember(p, m)
  <2>1. PICK k \in DOMAIN PoolOf(p).members :
           SetPool(p, [PoolOf(p) EXCEPT !.members = RemoveAt(@, k)], thread)
    BY <1>4 DEF DeleteMember
  <2>2. PoolOf(p).members \in Seq(Member)
    BY <1>1 DEF PoolRecord
  <2>3. RemoveAt(PoolOf(p).members, k) \in Seq(Member)
    BY <2>2, RemoveAtFacts
  <2>4. [PoolOf(p) EXCEPT !.members = RemoveAt(@, k)] \in PoolRecord
    BY <1>1, <2>3 DEF PoolRecord
  <2>5. QED
    BY <1>3, <2>1, <2>4
<1>5. CASE DisableMember(p, m, b)
  <2> DEFINE new == [PoolOf(p) EXCEPT !.disabled = IF b THEN @ \cup {m} ELSE @ \ {m}]
  <2>1. SetPool(p, new, thread)
    BY <1>5 DEF DisableMember
  <2>2. new \in PoolRecord
    BY <1>1 DEF PoolRecord
  <2> HIDE DEF new
  <2>3. QED
    BY <1>3, <2>1, <2>2
<1>6. CASE SetMode(p, b)
  <2>1. SetPool(p, [PoolOf(p) EXCEPT !.least = b], thread)
    BY <1>6 DEF SetMode
  <2>2. [PoolOf(p) EXCEPT !.least = b] \in PoolRecord
    BY <1>1 DEF PoolRecord
  <2>3. QED
    BY <1>3, <2>1, <2>2
<1>7. QED
  BY <1>4, <1>5, <1>6

\* What a virtual server matches is its duty.
LEMMA ServedKept ==
  ASSUME BInv, Agree(proxy', proxies'), Len(proxy') = Len(proxy),
         virtual' \in [Virtual -> VirtualServer \cup {None}],
         \A i \in DOMAIN proxy : SameDuty(proxy[i], proxy'[i]),
         \A v \in Virtual : virtual'[v] # None => /\ virtual'[v] = virtual[v]
                                                  /\ proxies'[v] = proxies[v]
  PROVE  Served'
<1>1. \A v \in Virtual : proxies[v] # 0 => proxies[v] \in DOMAIN proxy
  BY DEF BInv, Agree
<1>2. QED
  BY <1>1 DEF BInv, Served, Matches, SameDuty

\* delete ltm virtual, with or without its proxy being stopped.
LEMMA DeleteVirtualStep ==
  ASSUME BInv, NEW v \in Virtual, NEW bare \in BOOLEAN, DeleteVirtual(v, bare)
  PROVE  BInv' /\ AffinityPasses
<1> DEFINE px == Detached(proxy, {v})
<1>1. \/ \E k \in DOMAIN order : order[k] = v /\ order' = RemoveAt(order, k)
      \/ virtual[v] = None /\ order' = order
  BY DEF DeleteVirtual
<1>2. /\ Commands /\ virtual' = [virtual EXCEPT ![v] = None]
      /\ proxy' = IF bare THEN Stopped(px, proxies[v]) ELSE px
      /\ proxies' = IF bare THEN [proxies EXCEPT ![v] = 0] ELSE proxies
      /\ UNCHANGED <<pool, saved, thread, alive>>
  BY DEF DeleteVirtual
<1>3. /\ virtual' \in [Virtual -> VirtualServer \cup {None}] /\ virtual'[v] = None
      /\ \A w \in Virtual \ {v} : virtual'[w] = virtual[w]
  BY <1>2, ConfigurationNow
<1>4. Configuration([order |-> order', virtual |-> virtual', pool |-> pool'])
  <2>1. CASE virtual[v] = None /\ order' = order
    <3>1. virtual' = virtual
      BY <1>3, <2>1, ConfigurationNow
    <3>2. QED
      BY <1>2, <2>1, <3>1 DEF BInv, Configured
  <2>2. CASE \E k \in DOMAIN order : order[k] = v /\ order' = RemoveAt(order, k)
    <3>0. PICK k \in DOMAIN order : order[k] = v /\ order' = RemoveAt(order, k)
      BY <2>2
    <3> DEFINE n == Len(order)
    <3>1. /\ order' \in Seq(Virtual) /\ DOMAIN order' = 1 .. n - 1
          /\ \A i \in 1 .. n - 1 : order'[i] = IF i < k THEN order[i] ELSE order[i + 1]
      BY <3>0, ConfigurationNow, RemoveAtFacts
    <3>2. /\ n \in Nat /\ DOMAIN order = 1 .. n /\ k \in 1 .. n
          /\ \A i, j \in 1 .. n : order[i] = order[j] => i = j
      BY ConfigurationNow
    <3> HIDE DEF n
    <3>3. \A i, j \in DOMAIN order' : order'[i] = order'[j] => i = j
      <4> SUFFICES ASSUME NEW i \in 1 .. n - 1, NEW j \in 1 .. n - 1, order'[i] = order'[j]
                   PROVE  i = j
        BY <3>1
      <4> DEFINE up(x) == IF x < k THEN x ELSE x + 1
      <4>1. order'[i] = order[up(i)] /\ order'[j] = order[up(j)]
        BY <3>1
      <4>2. up(i) \in 1 .. n /\ up(j) \in 1 .. n
        BY <3>2
      <4>3. up(i) = up(j)
        BY <3>2, <4>1, <4>2
      <4>4. QED
        BY <3>2, <4>3
    <3>4. ASSUME NEW w \in Virtual
          PROVE  virtual'[w] # None <=> \E i \in DOMAIN order' : order'[i] = w
      <4>1. CASE w = v
        <5>1. ASSUME NEW i \in 1 .. n - 1, order'[i] = v
              PROVE  FALSE
          <6>1. CASE i < k
            BY <3>0, <3>1, <3>2, <5>1, <6>1
          <6>2. CASE ~(i < k)
            <7>1. order[i + 1] = v /\ i + 1 \in 1 .. n /\ i + 1 # k
              BY <3>1, <3>2, <5>1, <6>2
            <7>2. QED
              BY <3>0, <3>2, <7>1
          <6>3. QED
            BY <6>1, <6>2
        <5>2. QED
          BY <1>3, <3>1, <4>1, <5>1
      <4>2. CASE w # v
        <5>1. virtual'[w] # None <=> \E i \in 1 .. n : order[i] = w
          BY <1>3, <3>2, <4>2, ConfigurationNow
        <5>2. ASSUME NEW i \in 1 .. n, order[i] = w
              PROVE  \E j \in 1 .. n - 1 : order'[j] = w
          <6>1. CASE i < k
            <7>1. i \in 1 .. n - 1
              BY <3>2, <6>1
            <7>2. QED
              BY <3>1, <5>2, <6>1, <7>1
          <6>2. CASE ~(i < k)
            <7>1. i # k
              BY <3>0, <4>2, <5>2
            <7>2. i - 1 \in 1 .. n - 1 /\ ~(i - 1 < k) /\ (i - 1) + 1 = i
              BY <3>2, <6>2, <7>1
            <7>3. order'[i - 1] = order[i]
              BY <3>1, <7>2
            <7>4. QED
              BY <5>2, <7>2, <7>3
          <6>3. QED
            BY <6>1, <6>2
        <5>3. ASSUME NEW j \in 1 .. n - 1
              PROVE  \E i \in 1 .. n : order[i] = order'[j]
          <6>1. j \in 1 .. n /\ j + 1 \in 1 .. n
            BY <3>2
          <6>2. QED
            BY <3>1, <6>1
        <5>4. QED
          BY <3>1, <5>1, <5>2, <5>3
      <4>3. QED
        BY <4>1, <4>2
    <3>5. pool' = pool /\ pool \in Pools
      BY <1>2, ConfigurationNow
    <3>6. QED
      BY <1>3, <3>1, <3>3, <3>4, <3>5, ConfigurationOf
  <2>3. QED
    BY <1>1, <2>1, <2>2
<1>5. Configured'
  BY <1>2, <1>4, ConfigurationNow DEF Configured
<1>6. /\ px \in Seq(Proxy) /\ Len(px) = Len(proxy) /\ proxy \in Seq(Proxy)
      /\ \A i \in DOMAIN proxy :
            /\ SameDuty(proxy[i], px[i]) /\ px[i].open = proxy[i].open
            /\ px[i].active = proxy[i].active /\ px[i].affinity = proxy[i].affinity
            /\ px[i].persist = Current => proxy[i].persist = Current /\ proxy[i].vs # v
  <2>1. {v} \in SUBSET Virtual /\ \A w : w \notin {v} <=> w # v
    OBVIOUS
  <2>2. proxy \in Seq(Proxy)
    BY DEF BInv, TypeOK
  <2>3. /\ px \in Seq(Proxy) /\ Len(px) = Len(proxy)
        /\ \A i \in DOMAIN proxy :
              /\ SameDuty(proxy[i], px[i]) /\ px[i].open = proxy[i].open
              /\ px[i].active = proxy[i].active /\ px[i].affinity = proxy[i].affinity
              /\ px[i].persist = Current => proxy[i].persist = Current /\ proxy[i].vs \notin {v}
    BY <2>1, DetachedFacts
  <2>4. QED
    BY <2>1, <2>2, <2>3
<1>7. Agree(px, proxies)
  BY <1>6, AgreeKept DEF BInv
<1>8. proxies[v] \in Nat
  BY DEF BInv, TypeOK
<1> HIDE DEF px
<1>9. /\ Agree(proxy', proxies')
      /\ Len(proxy') = Len(proxy) /\ DOMAIN px = DOMAIN proxy
      /\ \A i \in DOMAIN px : SameDuty(px[i], proxy'[i]) /\ SameRest(px[i], proxy'[i])
      /\ \A w \in Virtual \ {v} : proxies'[w] = proxies[w]
  <2>1. CASE bare
    <3>1. proxy' = Stopped(px, proxies[v]) /\ proxies' = [proxies EXCEPT ![v] = 0]
      BY <1>2, <2>1
    <3>2. Agree(proxy', proxies')
      BY <1>7, <3>1, StoppedAgrees
    <3>3. /\ Len(proxy') = Len(px) /\ DOMAIN px = DOMAIN proxy
          /\ \A i \in DOMAIN px : SameDuty(px[i], proxy'[i]) /\ SameRest(px[i], proxy'[i])
      BY <1>6, <1>8, <3>1, StoppedFacts
    <3>4. \A w \in Virtual \ {v} : proxies'[w] = proxies[w]
      BY <3>1 DEF BInv, TypeOK
    <3>5. QED
      BY <1>6, <3>2, <3>3, <3>4
  <2>2. CASE ~bare
    BY <1>2, <1>6, <1>7, <2>2 DEF SameDuty, SameRest
  <2>3. QED
    BY <2>1, <2>2
<1>10. ASSUME NEW i \in DOMAIN proxy
       PROVE  /\ SameDuty(proxy[i], proxy'[i])
              /\ proxy'[i].active = proxy[i].active /\ proxy'[i].affinity = proxy[i].affinity
              /\ proxy'[i].persist = Current => proxy[i].persist = Current /\ proxy[i].vs # v
  BY <1>6, <1>9 DEF SameDuty, SameRest
<1>11. Served'
  BY <1>3, <1>9, <1>10, ServedKept
<1>12. DOMAIN proxy' = DOMAIN proxy /\ proxy' \in Seq(Proxy)
  BY <1>6, <1>9 DEF Agree
<1>13. PersistKnown'
  <2> SUFFICES ASSUME NEW i \in DOMAIN proxy, proxy'[i].persist = Current
               PROVE  virtual'[proxy'[i].vs] # None
    BY <1>12 DEF PersistKnown
  <2>1. proxy'[i].vs = proxy[i].vs /\ proxy[i].vs \in Virtual \ {v} /\ proxy[i].persist = Current
    BY <1>10, ProxyFields DEF SameDuty
  <2>2. QED
    BY <1>3, <2>1 DEF BInv, PersistKnown
<1>14. HandlersReady' /\ ConnsCounted' /\ ReadHolds'
  <2>1. \A t \in Thread : SameTask(thread[t], thread'[t])
    BY <1>2, SameTaskStays
  <2>2. Len(proxy) <= Len(proxy')
    BY <1>6, <1>9
  <2>3. QED
    BY <1>10, <1>12, <2>1, <2>2, Undisturbed
<1>15. TypeOK'
  <2>1. thread' \in [Thread -> Handler]
    BY <1>2 DEF BInv, TypeOK
  <2>2. QED
    BY <1>2, <1>5, <1>9, <2>1, CommandTypes
<1>16. QED
  BY <1>5, <1>9, <1>10, <1>11, <1>13, <1>14, <1>15, NoAffinityPasses DEF BInv

\* delete ltm pool, save sys config, or a server that starts or stops: proxies,
\* virtual servers and connections stay.
LEMMA QuietStep ==
  ASSUME BInv, (\E p \in Pool : DeletePool(p)) \/ Save \/ (\E m \in Member : Toggle(m))
  PROVE  BInv' /\ AffinityPasses
<1>1. UNCHANGED <<order, virtual, proxy, proxies, thread>>
  BY DEF DeletePool, Save, Toggle
<1>2. pool' \in Pools /\ Configuration(saved')
  <2>1. ASSUME NEW p \in Pool, DeletePool(p)
        PROVE  pool' \in Pools /\ Configuration(saved')
    BY <2>1, ConfigurationNow DEF DeletePool, Pools
  <2>2. CASE Save
    <3>1. saved' = [order |-> order, virtual |-> virtual, pool |-> pool] /\ pool' = pool
      BY <2>2 DEF Save
    <3>2. QED
      BY <3>1, ConfigurationNow DEF BInv, Configured
  <2>3. ASSUME NEW m \in Member, Toggle(m)
        PROVE  pool' \in Pools /\ Configuration(saved')
    BY <2>3, ConfigurationNow DEF Toggle
  <2>4. QED
    BY <2>1, <2>2, <2>3
<1>3. Configured'
  BY <1>1, <1>2, ConfigurationNow, ConfigurationOf DEF Configured
<1>4. TypeOK'
  <2>1. /\ alive' \subseteq Member
        /\ commands' \in 0 .. MaxCommands /\ flips' \in 0 .. MaxFlips /\ conns' \in 0 .. MaxConns
    BY ValueAssumption DEF BInv, TypeOK, DeletePool, Save, Toggle, Commands
  <2>2. saved'.virtual \in [Virtual -> VirtualServer \cup {None}] /\ saved'.pool \in Pools
    BY <1>2 DEF Configuration
  <2>3. QED
    BY <1>1, <1>2, <2>1, <2>2 DEF BInv, TypeOK
<1>5. Agree(proxy, proxies)' /\ Served' /\ PersistKnown'
  BY <1>1 DEF BInv, Agree, Served, Matches, PersistKnown
<1>6. HandlersReady' /\ ConnsCounted' /\ ReadHolds'
  BY <1>1 DEF BInv, HandlersReady, Ready, ConnsCounted, ReadHolds, Held, Seen
<1>7. AffinityPasses
  BY <1>1, NoAffinityPasses
<1>8. QED
  BY <1>3, <1>4, <1>5, <1>6, <1>7 DEF BInv

\* Every proxy keeps what the DeviceState and its virtual server last held.
LEMMA ReplacedState ==
  ASSUME BInv
  PROVE  LET px == Orphaned(Detached(proxy, Virtual))
         IN  /\ px \in Seq(Proxy) /\ Len(px) = Len(proxy)
             /\ \A i \in DOMAIN proxy :
                   /\ SameDuty(proxy[i], px[i]) /\ px[i].open = proxy[i].open
                   /\ px[i].active = proxy[i].active /\ px[i].affinity = proxy[i].affinity
                   /\ px[i].persist # Current
<1> DEFINE dx == Detached(proxy, Virtual)
           px == Orphaned(dx)
<1>1. Virtual \in SUBSET Virtual /\ pool \in Pools /\ proxy \in Seq(Proxy)
  BY ConfigurationNow DEF BInv, TypeOK
<1>2. /\ dx \in Seq(Proxy) /\ Len(dx) = Len(proxy)
      /\ \A i \in DOMAIN proxy :
            /\ SameDuty(proxy[i], dx[i]) /\ dx[i].open = proxy[i].open
            /\ dx[i].active = proxy[i].active /\ dx[i].affinity = proxy[i].affinity
            /\ dx[i].persist = Current => proxy[i].persist = Current /\ proxy[i].vs \notin Virtual
  BY <1>1, DetachedFacts
<1> HIDE DEF dx
<1>3. /\ px \in Seq(Proxy) /\ Len(px) = Len(dx)
      /\ \A i \in DOMAIN dx :
            /\ SameDuty(dx[i], px[i]) /\ px[i].open = dx[i].open /\ px[i].persist = dx[i].persist
            /\ px[i].active = dx[i].active /\ px[i].affinity = dx[i].affinity
  BY <1>1, <1>2, OrphanedFacts
<1> HIDE DEF px
<1>4. DOMAIN dx = DOMAIN proxy
  BY <1>1, <1>2
<1>5. \A i \in DOMAIN proxy : proxy[i].vs \in Virtual
  BY ProxyFields
<1>6. /\ px \in Seq(Proxy) /\ Len(px) = Len(proxy)
      /\ \A i \in DOMAIN proxy :
            /\ SameDuty(proxy[i], px[i]) /\ px[i].open = proxy[i].open
            /\ px[i].active = proxy[i].active /\ px[i].affinity = proxy[i].affinity
            /\ px[i].persist # Current
  BY <1>2, <1>3, <1>4, <1>5 DEF SameDuty
<1>7. QED
  BY <1>6 DEF px, dx

\* A saved configuration is loaded while the server runs.
LEMMA ReloadStep ==
  ASSUME BInv, Reload
  PROVE  BInv' /\ AffinityPasses
<1> DEFINE px == Orphaned(Detached(proxy, Virtual))
<1>1. /\ Commands /\ EnsureAll(px) /\ UNCHANGED <<saved, thread, alive>>
      /\ order' = saved.order /\ virtual' = saved.virtual /\ pool' = saved.pool
  BY DEF Reload
<1>2. Configuration([order |-> order', virtual |-> virtual', pool |-> pool'])
  <2>1. Configuration(saved)
    BY ConfigurationNow
  <2>2. saved = [order |-> saved.order, virtual |-> saved.virtual, pool |-> saved.pool]
    BY <2>1 DEF Configuration
  <2>3. QED
    BY <1>1, <2>1, <2>2
<1>3. Configured'
  BY <1>1, <1>2, ConfigurationNow DEF Configured
<1>4. /\ px \in Seq(Proxy) /\ Len(px) = Len(proxy)
      /\ \A i \in DOMAIN proxy :
            /\ SameDuty(proxy[i], px[i]) /\ px[i].open = proxy[i].open
            /\ px[i].active = proxy[i].active /\ px[i].affinity = proxy[i].affinity
            /\ px[i].persist # Current
  BY ReplacedState
<1> HIDE DEF px
<1>5. \A t \in Thread : SameTask(thread[t], thread'[t])
  BY <1>1, SameTaskStays
<1>6. /\ Agree(proxy, proxies)' /\ Served' /\ PersistKnown'
      /\ HandlersReady' /\ ConnsCounted' /\ ReadHolds'
      /\ \A i \in DOMAIN proxy : proxy'[i].affinity = proxy[i].affinity
  BY <1>1, <1>2, <1>4, <1>5, EnsuringStep
<1>7. TypeOK'
  <2>1. thread' \in [Thread -> Handler]
    BY <1>1 DEF BInv, TypeOK
  <2>2. QED
    BY <1>1, <1>3, <1>6, <2>1, CommandTypes
<1>8. QED
  BY <1>3, <1>6, <1>7, NoAffinityPasses DEF BInv

\* The device is removed; its proxies go on.
LEMMA RemoveDeviceStep ==
  ASSUME BInv, RemoveDevice
  PROVE  BInv' /\ AffinityPasses
<1>1. /\ Commands /\ UNCHANGED <<saved, proxies, thread, alive>>
      /\ order' = <<>> /\ virtual' = [v \in Virtual |-> None] /\ pool' = [p \in Pool |-> None]
      /\ proxy' = Orphaned(Detached(proxy, Virtual))
  BY DEF RemoveDevice
<1>2. /\ proxy' \in Seq(Proxy) /\ Len(proxy') = Len(proxy)
      /\ \A i \in DOMAIN proxy :
            /\ SameDuty(proxy[i], proxy'[i]) /\ proxy'[i].open = proxy[i].open
            /\ proxy'[i].active = proxy[i].active /\ proxy'[i].affinity = proxy[i].affinity
            /\ proxy'[i].persist # Current
  BY <1>1, ReplacedState
<1>3. DOMAIN proxy' = DOMAIN proxy /\ Len(proxy) <= Len(proxy')
  BY <1>2 DEF BInv, TypeOK
<1>4. Configured'
  <2>1. /\ order' \in Seq(Virtual) /\ DOMAIN order' = {}
        /\ virtual' \in [Virtual -> VirtualServer \cup {None}] /\ pool' \in Pools
    BY <1>1 DEF Pools
  <2>2. \A v \in Virtual : virtual'[v] = None
    BY <1>1
  <2>3. Configuration([order |-> order', virtual |-> virtual', pool |-> pool'])
    BY <2>1, <2>2, ConfigurationOf
  <2>4. QED
    BY <1>1, <2>3, ConfigurationNow DEF Configured
<1>5. Agree(proxy, proxies)'
  BY <1>1, <1>2, AgreeKept DEF BInv
<1>6. Served' /\ PersistKnown'
  BY <1>1, <1>2, <1>3 DEF Served, PersistKnown
<1>7. HandlersReady' /\ ConnsCounted' /\ ReadHolds'
  <2>1. \A t \in Thread : SameTask(thread[t], thread'[t])
    BY <1>1, SameTaskStays
  <2>2. QED
    BY <1>2, <1>3, <2>1, Undisturbed
<1>8. TypeOK'
  <2>1. thread' \in [Thread -> Handler]
    BY <1>1 DEF BInv, TypeOK
  <2>2. QED
    BY <1>1, <1>4, <1>5, <2>1, CommandTypes
<1>9. QED
  BY <1>2, <1>4, <1>5, <1>6, <1>7, <1>8, NoAffinityPasses DEF BInv


-----------------------------------------------------------------------------
(* Connections.                                                            *)

\* One proxy changes, but for its duty, its socket and whose persistence it asks.
LEMMA ProxyChange ==
  ASSUME BInv, NEW i \in DOMAIN proxy, NEW q \in Proxy, SameDuty(proxy[i], q),
         q.open = proxy[i].open, q.persist = proxy[i].persist,
         proxy' = [proxy EXCEPT ![i] = q],
         UNCHANGED <<order, virtual, pool, saved, proxies>>
  PROVE  /\ proxy' \in Seq(Proxy) /\ Len(proxy') = Len(proxy) /\ DOMAIN proxy' = DOMAIN proxy
         /\ proxy'[i] = q /\ \A j \in DOMAIN proxy \ {i} : proxy'[j] = proxy[j]
         /\ Configured' /\ Agree(proxy, proxies)' /\ Served' /\ PersistKnown'
<1>1. proxy \in Seq(Proxy)
  BY DEF BInv, TypeOK
<1>2. /\ proxy' \in Seq(Proxy) /\ Len(proxy') = Len(proxy) /\ DOMAIN proxy' = DOMAIN proxy
      /\ proxy'[i] = q /\ \A j \in DOMAIN proxy \ {i} : proxy'[j] = proxy[j]
  BY <1>1
<1>3. ASSUME NEW j \in DOMAIN proxy
      PROVE  /\ SameDuty(proxy[j], proxy'[j]) /\ proxy'[j].open = proxy[j].open
             /\ proxy'[j].persist = proxy[j].persist
  BY <1>2, <1>3 DEF SameDuty
<1>4. QED
  BY <1>2, <1>3, Unconfigured

\* No proxy changes.
LEMMA ProxiesStay ==
  ASSUME BInv, UNCHANGED <<order, virtual, pool, saved, proxies, proxy>>
  PROVE  Configured' /\ Agree(proxy, proxies)' /\ Served' /\ PersistKnown'
<1>1. proxy' \in Seq(Proxy) /\ Len(proxy') = Len(proxy)
  BY DEF BInv, TypeOK
<1>2. \A i \in DOMAIN proxy : /\ SameDuty(proxy[i], proxy'[i]) /\ proxy'[i].open = proxy[i].open
                              /\ proxy'[i].persist = proxy[i].persist
  BY DEF SameDuty
<1>3. QED
  BY <1>1, <1>2, Unconfigured

\* The types of what a connection leaves.
LEMMA ConnectionTypes ==
  ASSUME BInv, UNCHANGED <<alive, commands, flips>>, conns' \in 0 .. MaxConns,
         Configured', Agree(proxy, proxies)', thread' \in [Thread -> Handler]
  PROVE  TypeOK'
<1>1. /\ order' \in Seq(Virtual) /\ virtual' \in [Virtual -> VirtualServer \cup {None}]
      /\ pool' \in Pools
      /\ saved'.virtual \in [Virtual -> VirtualServer \cup {None}] /\ saved'.pool \in Pools
  BY DEF Configured, Configuration
<1>2. proxy' \in Seq(Proxy) /\ proxies' \in [Virtual -> 0 .. Len(proxy')]
  BY DEF Agree
<1>3. alive' \subseteq Member /\ commands' \in 0 .. MaxCommands /\ flips' \in 0 .. MaxFlips
  BY DEF BInv, TypeOK
<1>4. QED
  BY <1>1, <1>2, <1>3 DEF TypeOK

\* What the invariant says of one thread.
LEMMA ThreadFacts ==
  ASSUME BInv, NEW t \in Thread
  PROVE  /\ thread \in [Thread -> Handler] /\ thread[t] \in Handler
         /\ Ready(thread[t]) /\ Held(thread[t], Seen(thread[t]))
         /\ thread[t].up \in Seq(Member) /\ thread[t].todo \in Seq(Member)
<1>1. thread \in [Thread -> Handler]
  BY DEF BInv, TypeOK
<1>2. thread[t] \in Handler
  BY <1>1
<1>3. thread[t].up \in Seq(Member) /\ thread[t].todo \in Seq(Member)
  BY <1>2 DEF Handler
<1>4. QED
  BY <1>1, <1>2, <1>3 DEF BInv, HandlersReady, ReadHolds

\* A thread goes on to h, and is at work on a member only if it was before;
\* counters and affinities stay.
LEMMA ThreadStep ==
  ASSUME BInv, NEW t \in Thread, NEW h \in Handler, Goes(t, h),
         UNCHANGED <<alive, commands, flips>>, conns' \in 0 .. MaxConns,
         proxy' \in Seq(Proxy), DOMAIN proxy' = DOMAIN proxy,
         \A i \in DOMAIN proxy : /\ proxy'[i].active = proxy[i].active
                                 /\ proxy'[i].affinity = proxy[i].affinity,
         Configured', Agree(proxy, proxies)', Served', PersistKnown',
         Working(h) <=> Working(thread[t]),
         Working(h) => h.on = thread[t].on /\ h.member = thread[t].member,
         Ready(h), h.pc \in {"keep", "pick", "record"} => Held(h, Seen(h))
  PROVE  BInv' /\ AffinityPasses
<1>1. thread' = [thread EXCEPT ![t] = h] /\ thread \in [Thread -> Handler]
  BY ThreadFacts DEF Goes
<1>2. /\ thread' \in [Thread -> Handler] /\ thread'[t] = h
      /\ \A u \in Thread \ {t} : thread'[u] = thread[u]
  BY <1>1
<1>3. TypeOK'
  BY <1>2, ConnectionTypes
<1>4. ASSUME NEW u \in Thread
      PROVE  Ready(thread[u])'
  <2>1. Ready(thread'[u])
    BY <1>2, ThreadFacts
  <2>2. QED
    BY <2>1 DEF Ready
<1>5. HandlersReady'
  BY <1>4 DEF HandlersReady
<1>6. ConnsCounted'
  <2> SUFFICES ASSUME NEW i \in DOMAIN proxy, NEW m \in Member
               PROVE  proxy'[i].active[m] = Cardinality(WorkingOn(i, m)')
    BY CountedAsWorking
  <2>1. WorkingOn(i, m)' = WorkingOn(i, m)
    BY <1>2 DEF WorkingOn, Working
  <2>2. proxy[i].active[m] = Cardinality(WorkingOn(i, m))
    BY CountedAsWorking DEF BInv
  <2>3. QED
    BY <2>1, <2>2
<1>7. ASSUME NEW u \in Thread
      PROVE  Held(thread'[u], Seen(thread[u])')
  <2>1. Ready(thread'[u])
    BY <1>2, ThreadFacts
  <2>2. CASE ~(thread'[u].pc \in {"keep", "pick", "record"})
    BY <2>2 DEF Held
  <2>3. CASE thread'[u].pc \in {"keep", "pick", "record"}
    <3>1. Held(thread'[u], Seen(thread'[u]))
      BY <1>2, <2>3, ThreadFacts
    <3>2. thread'[u].on \in DOMAIN proxy
      BY <2>1, <2>3 DEF Ready
    <3>3. Seen(thread[u])' = Seen(thread'[u])
      BY <3>2 DEF Seen
    <3>4. QED
      BY <3>1, <3>3
  <2>4. QED
    BY <2>2, <2>3
<1>8. ReadHolds'
  BY <1>7 DEF ReadHolds
<1>9. QED
  BY <1>3, <1>5, <1>6, <1>8, NoAffinityPasses DEF BInv

\* The pool that a proxy's connections see.
LEMMA PoolSeenType ==
  ASSUME BInv, NEW i \in DOMAIN proxy
  PROVE  /\ PoolSeen(i) \in PoolRecord \cup {None}
         /\ PoolSeen(i) # None => /\ PoolSeen(i).members \in Seq(Member)
                                  /\ PoolSeen(i).disabled \in SUBSET Member
<1>1. proxy[i].pool \in Pool /\ proxy[i].pools \in Pools \cup {Current} /\ pool \in Pools
  BY ProxyFields, ConfigurationNow
<1>2. PoolSeen(i) \in PoolRecord \cup {None}
  BY <1>1 DEF PoolSeen, Pools
<1>3. \A p \in PoolRecord : p.members \in Seq(Member) /\ p.disabled \in SUBSET Member
  BY DEF PoolRecord
<1>4. QED
  BY <1>2, <1>3

\* The persistence that they see is a flag, whatever object it is asked of.
LEMMA PersistSeenType ==
  ASSUME BInv, NEW i \in DOMAIN proxy
  PROVE  PersistSeen(i) \in BOOLEAN
<1>1. /\ proxy[i].vs \in Virtual /\ proxy[i].persist \in BOOLEAN \cup {Current}
      /\ virtual \in [Virtual -> VirtualServer \cup {None}]
  BY ProxyFields, ConfigurationNow
<1>2. CASE proxy[i].persist = Current
  <2>1. virtual[proxy[i].vs] \in VirtualServer
    BY <1>1, <1>2 DEF BInv, PersistKnown
  <2>2. QED
    BY <1>2, <2>1 DEF PersistSeen, VirtualServer
<1>3. CASE proxy[i].persist # Current
  BY <1>1, <1>3 DEF PersistSeen
<1>4. QED
  BY <1>2, <1>3

\* The member with the fewest connections is one of those that are up.
LEMMA FewestIsUp ==
  ASSUME BInv, NEW i \in DOMAIN proxy, NEW up \in Seq(Member), up # <<>>
  PROVE  Fewest(i, up) \in Member
<1> DEFINE n == proxy[i].active
           First(k) == \A j \in DOMAIN up : n[up[k]] < n[up[j]] \/ (n[up[k]] = n[up[j]] /\ k <= j)
<1>1. n \in [Member -> Nat]
  BY ProxyFields
<1>2. DOMAIN up = 1 .. Len(up) /\ Len(up) \in Nat /\ 1 \in DOMAIN up
      /\ \A k \in DOMAIN up : up[k] \in Member
  OBVIOUS
<1> HIDE DEF n
<1>3. \A k \in DOMAIN up : n[up[k]] \in Nat
  BY <1>1, <1>2
<1>4. PICK c \in {n[up[k]] : k \in DOMAIN up} : \A d \in {n[up[k]] : k \in DOMAIN up} : c <= d
  <2>1. {n[up[k]] : k \in DOMAIN up} \in SUBSET Nat /\ {n[up[k]] : k \in DOMAIN up} # {}
    BY <1>2, <1>3
  <2>2. QED
    BY <2>1, LeastNatural
<1>5. PICK k \in {j \in DOMAIN up : n[up[j]] = c} :
           \A j \in {l \in DOMAIN up : n[up[l]] = c} : k <= j
  <2>1. {j \in DOMAIN up : n[up[j]] = c} \in SUBSET Nat /\ {j \in DOMAIN up : n[up[j]] = c} # {}
    BY <1>2, <1>4
  <2>2. QED
    BY <2>1, LeastNatural
<1>6. c \in Nat
  BY <1>3, <1>4
<1>7. \A j \in DOMAIN up : c <= n[up[j]] /\ n[up[j]] \in Nat
  BY <1>3, <1>4
<1>8. First(k)
  BY <1>5, <1>6, <1>7
<1>9. (CHOOSE j \in DOMAIN up : First(j)) \in DOMAIN up
  <2>1. \E j \in DOMAIN up : First(j)
    BY <1>5, <1>8
  <2> HIDE DEF First
  <2>2. QED
    BY <2>1
<1>10. QED
  BY <1>2, <1>9 DEF Fewest, n

\* A thread goes on without touching any proxy.
LEMMA QuietThread ==
  ASSUME BInv, NEW t \in Thread, NEW h \in Handler, Goes(t, h), Outside, UNCHANGED proxy,
         Working(h) <=> Working(thread[t]),
         Working(h) => h.on = thread[t].on /\ h.member = thread[t].member,
         Ready(h), h.pc \in {"keep", "pick", "record"} => Held(h, Seen(h))
  PROVE  BInv' /\ AffinityPasses
<1>1. /\ UNCHANGED <<order, virtual, pool, saved, proxies, alive, commands, flips, proxy>>
      /\ conns' \in 0 .. MaxConns /\ proxy' \in Seq(Proxy) /\ DOMAIN proxy' = DOMAIN proxy
  BY DEF Outside, BInv, TypeOK
<1>2. Configured' /\ Agree(proxy, proxies)' /\ Served' /\ PersistKnown'
  BY <1>1, ProxiesStay
<1>3. \A i \in DOMAIN proxy : /\ proxy'[i].active = proxy[i].active
                              /\ proxy'[i].affinity = proxy[i].affinity
  BY <1>1
<1>4. QED
  BY <1>1, <1>2, <1>3, ThreadStep

\* An idle thread is a handler.
LEMMA IdleType == Idle \in Handler /\ Ready(Idle) /\ ~Working(Idle) /\ Idle.pc = "idle"
<1>1. <<>> \in Seq(Member)
  OBVIOUS
<1>2. QED
  BY <1>1 DEF Idle, Handler, Ready, Working

\* A client connects.
LEMMA AcceptStep ==
  ASSUME BInv, NEW t \in Thread, NEW i \in DOMAIN proxy, NEW c \in Client, Accept(t, i, c)
  PROVE  BInv' /\ AffinityPasses
<1> DEFINE h == [Idle EXCEPT !.pc = "accepted", !.on = i, !.client = c]
<1>1. /\ thread[t].pc = "idle" /\ Goes(t, h) /\ conns < MaxConns /\ conns' = conns + 1
      /\ UNCHANGED <<order, virtual, pool, saved, proxy, proxies, alive, commands, flips>>
  BY DEF Accept, At
<1>2. h \in Handler /\ h.pc = "accepted" /\ h.on = i /\ h.client = c
  <2>1. i \in Nat /\ <<>> \in Seq(Member)
    BY ProxyFields
  <2>2. QED
    BY <2>1 DEF Idle, Handler
<1> HIDE DEF h
<1>3. Ready(h) /\ ~Working(h) /\ ~Working(thread[t])
  BY <1>1, <1>2 DEF Ready, Working
<1>4. conns' \in 0 .. MaxConns /\ proxy' \in Seq(Proxy) /\ DOMAIN proxy' = DOMAIN proxy
  BY <1>1, ValueAssumption DEF BInv, TypeOK
<1>5. Configured' /\ Agree(proxy, proxies)' /\ Served' /\ PersistKnown'
  BY <1>1, ProxiesStay
<1>6. \A j \in DOMAIN proxy : /\ proxy'[j].active = proxy[j].active
                              /\ proxy'[j].affinity = proxy[j].affinity
  BY <1>1
<1>7. QED
  BY <1>1, <1>2, <1>3, <1>4, <1>5, <1>6, ThreadStep

\* The checks of the pool's members start.
LEMMA StartChecksStep ==
  ASSUME BInv, NEW t \in Thread, StartChecks(t)
  PROVE  BInv' /\ AffinityPasses
<1> DEFINE p == PoolSeen(thread[t].on)
           list == IF p = None THEN <<>> ELSE p.members
           h == [thread[t] EXCEPT !.pc = "check", !.todo = list]
<1>1. thread[t].pc = "accepted" /\ Goes(t, h) /\ Outside /\ UNCHANGED proxy
  BY DEF StartChecks, At
<1>2. thread[t].on \in DOMAIN proxy /\ thread[t].client \in Client
  BY <1>1, ThreadFacts DEF Ready
<1>3. list \in Seq(Member)
  <2>1. <<>> \in Seq(Member)
    OBVIOUS
  <2>2. QED
    BY <1>2, <2>1, PoolSeenType
<1> HIDE DEF list
<1>4. h \in Handler /\ h.pc = "check" /\ h.on = thread[t].on /\ h.client = thread[t].client
  BY <1>3, ThreadFacts DEF Handler
<1> HIDE DEF h
<1>5. Ready(h) /\ ~Working(h) /\ ~Working(thread[t])
  BY <1>1, <1>2, <1>4 DEF Ready, Working
<1>6. QED
  BY <1>1, <1>4, <1>5, QuietThread

\* A member is probed.
LEMMA CheckMemberStep ==
  ASSUME BInv, NEW t \in Thread, CheckMember(t)
  PROVE  BInv' /\ AffinityPasses
<1> DEFINE m == Head(thread[t].todo)
           H(b) == [thread[t] EXCEPT !.todo = Tail(@),
                                     !.up = IF m \in alive /\ ~b THEN Append(@, m) ELSE @]
<1>1. PICK b : Goes(t, H(b))
  BY DEF CheckMember
<1>2. thread[t].pc = "check" /\ thread[t].todo # <<>> /\ Outside /\ UNCHANGED proxy
  BY DEF CheckMember, At
<1>3. m \in Member /\ Tail(thread[t].todo) \in Seq(Member)
  BY <1>2, ThreadFacts
<1> HIDE DEF m
<1> DEFINE up == IF m \in alive /\ ~b THEN Append(thread[t].up, m) ELSE thread[t].up
           h == [thread[t] EXCEPT !.todo = Tail(thread[t].todo), !.up = up]
<1>4. Goes(t, h)
  BY <1>1
<1>5. up \in Seq(Member)
  BY <1>3, ThreadFacts
<1> HIDE DEF up
<1>6. h \in Handler /\ h.pc = "check" /\ h.on = thread[t].on /\ h.client = thread[t].client
  BY <1>2, <1>3, <1>5, ThreadFacts DEF Handler
<1> HIDE DEF h
<1>7. thread[t].on \in DOMAIN proxy /\ thread[t].client \in Client
  BY <1>2, ThreadFacts DEF Ready
<1>8. Ready(h) /\ ~Working(h) /\ ~Working(thread[t])
  BY <1>2, <1>6, <1>7 DEF Ready, Working
<1>9. QED
  BY <1>2, <1>4, <1>6, <1>8, QuietThread

\* The affinity is read.
LEMMA ReadAffinityStep ==
  ASSUME BInv, NEW t \in Thread, ReadAffinity(t)
  PROVE  BInv' /\ AffinityPasses
<1> DEFINE i == thread[t].on
           entry == proxy[i].affinity[thread[t].client]
           keeping == [thread[t] EXCEPT !.pc = "keep", !.persist = TRUE, !.member = entry.member]
           picking == [thread[t] EXCEPT !.pc = "pick", !.persist = PersistSeen(i)]
           h == IF thread[t].up = <<>> THEN Idle
                ELSE IF PersistSeen(i) /\ Hits(i, thread[t]) THEN keeping ELSE picking
<1>1. thread[t].pc = "check" /\ Goes(t, h) /\ Outside /\ UNCHANGED proxy
  BY DEF ReadAffinity, At
<1>2. i \in DOMAIN proxy /\ thread[t].client \in Client
  BY <1>1, ThreadFacts DEF Ready
<1>3. thread[t] \in Handler /\ PersistSeen(i) \in BOOLEAN
      /\ proxy[i].affinity \in [Client -> Affinity \cup {None}]
  BY <1>2, ThreadFacts, PersistSeenType, ProxyFields
<1>4. entry \in Affinity \cup {None}
  BY <1>2, <1>3
<1>5. ~Working(thread[t])
  BY <1>1 DEF Working
<1>6. CASE thread[t].up = <<>>
  BY <1>1, <1>5, <1>6, IdleType, QuietThread
<1>7. CASE thread[t].up # <<>> /\ PersistSeen(i) /\ Hits(i, thread[t])
  <2>1. entry # None /\ entry \in Affinity
    BY <1>4, <1>7 DEF Hits
  <2>2. entry.member \in Member
    BY <2>1 DEF Affinity
  <2> HIDE DEF entry, i
  <2>3. /\ keeping \in Handler /\ keeping.pc = "keep" /\ keeping.on = thread[t].on
        /\ keeping.client = thread[t].client /\ keeping.member = entry.member
    BY <1>3, <2>2 DEF Handler
  <2>4. Goes(t, keeping)
    BY <1>1, <1>7
  <2> HIDE DEF keeping
  <2>5. Seen(keeping) = entry
    BY <2>3 DEF Seen, entry, i
  <2>6. Ready(keeping) /\ ~Working(keeping) /\ Held(keeping, Seen(keeping))
    BY <1>2, <2>1, <2>2, <2>3, <2>5 DEF Ready, Working, Held, i
  <2>7. QED
    BY <1>1, <1>5, <2>3, <2>4, <2>6, QuietThread
<1>8. CASE thread[t].up # <<>> /\ ~(PersistSeen(i) /\ Hits(i, thread[t]))
  <2>1. PersistSeen(i) => entry = None \/ ~entry.fresh \/ entry.member \notin ToSet(thread[t].up)
    BY <1>8 DEF Hits
  <2> HIDE DEF entry, i
  <2>2. /\ picking \in Handler /\ picking.pc = "pick" /\ picking.on = thread[t].on
        /\ picking.client = thread[t].client /\ picking.up = thread[t].up
        /\ picking.persist = PersistSeen(i)
    BY <1>3 DEF Handler
  <2>3. Goes(t, picking)
    BY <1>1, <1>8
  <2> HIDE DEF picking
  <2>4. Seen(picking) = entry
    BY <2>2 DEF Seen, entry, i
  <2>5. Ready(picking) /\ ~Working(picking) /\ Held(picking, Seen(picking))
    BY <1>2, <1>8, <2>1, <2>2, <2>4 DEF Ready, Working, Held, i
  <2>6. QED
    BY <1>1, <1>5, <2>2, <2>3, <2>5, QuietThread
<1>9. QED
  BY <1>6, <1>7, <1>8

\* A member is chosen.
LEMMA PickStep ==
  ASSUME BInv, NEW t \in Thread, Pick(t)
  PROVE  BInv' /\ AffinityPasses
<1> DEFINE i == thread[t].on
           up == thread[t].up
           least == PoolSeen(i) # None /\ PoolSeen(i).least
           next == proxy[i].rr % Len(up)
           m == IF least THEN Fewest(i, up) ELSE up[next + 1]
           pc == IF thread[t].persist THEN "record" ELSE "count"
           h == [thread[t] EXCEPT !.pc = pc, !.member = m]
           q == [proxy[i] EXCEPT !.rr = next + 1]
<1>1. /\ thread[t].pc = "pick" /\ Goes(t, h) /\ Outside
      /\ proxy' = IF least THEN proxy ELSE [proxy EXCEPT ![i].rr = next + 1]
  BY DEF Pick, At
<1>2. i \in DOMAIN proxy /\ thread[t].client \in Client /\ up # <<>> /\ up \in Seq(Member)
  BY <1>1, ThreadFacts DEF Ready
<1>3. next \in 0 .. Len(up) - 1
  <2>1. proxy[i].rr \in Nat /\ Len(up) \in Nat \ {0}
    BY <1>2, ProxyFields
  <2>2. QED
    BY <2>1
<1>4. m \in Member
  <2>1. Fewest(i, up) \in Member
    BY <1>2, FewestIsUp
  <2>2. next + 1 \in DOMAIN up
    BY <1>2, <1>3
  <2>3. up[next + 1] \in Member
    BY <1>2, <2>2
  <2>4. QED
    BY <2>1, <2>3
<1>5. pc \in {"record", "count"} /\ (pc = "record" => thread[t].persist)
  OBVIOUS
<1> HIDE DEF least, m, pc
<1>6. /\ h \in Handler /\ h.pc = pc /\ h.on = i /\ h.client = thread[t].client
      /\ h.up = up /\ h.member = m /\ h.raced = thread[t].raced
  BY <1>4, <1>5, ThreadFacts DEF Handler
<1> HIDE DEF h
<1>7. Seen(h) = Seen(thread[t])
  BY <1>6 DEF Seen
<1>8. Ready(h) /\ ~Working(h) /\ ~Working(thread[t])
  BY <1>1, <1>2, <1>4, <1>5, <1>6 DEF Ready, Working
<1>9. Held(h, Seen(h))
  BY <1>1, <1>5, <1>6, <1>7, ThreadFacts DEF Held
<1>10. CASE least
  BY <1>1, <1>6, <1>8, <1>9, <1>10, QuietThread
<1>11. CASE ~least
  <2>1. proxy[i] \in Proxy
    BY <1>2, ProxyFields
  <2>2. next + 1 \in Nat
    BY <1>2, <1>3
  <2>3. proxy' = [proxy EXCEPT ![i] = q]
    BY <1>1, <1>11
  <2> HIDE DEF next
  <2>4. /\ q \in Proxy /\ SameDuty(proxy[i], q) /\ q.open = proxy[i].open
        /\ q.persist = proxy[i].persist /\ q.active = proxy[i].active
        /\ q.affinity = proxy[i].affinity
    BY <2>1, <2>2 DEF Proxy, SameDuty
  <2> HIDE DEF q, i
  <2>5. /\ UNCHANGED <<order, virtual, pool, saved, proxies, alive, commands, flips>>
        /\ conns' \in 0 .. MaxConns
    BY <1>1 DEF Outside, BInv, TypeOK
  <2>6. /\ proxy' \in Seq(Proxy) /\ DOMAIN proxy' = DOMAIN proxy
        /\ proxy'[i] = q /\ \A j \in DOMAIN proxy \ {i} : proxy'[j] = proxy[j]
        /\ Configured' /\ Agree(proxy, proxies)' /\ Served' /\ PersistKnown'
    BY <1>2, <2>3, <2>4, <2>5, ProxyChange
  <2>7. ASSUME NEW j \in DOMAIN proxy
        PROVE  proxy'[j].active = proxy[j].active /\ proxy'[j].affinity = proxy[j].affinity
    BY <2>4, <2>6
  <2>8. QED
    BY <1>1, <1>6, <1>8, <1>9, <2>5, <2>6, <2>7, ThreadStep
<1>12. QED
  BY <1>10, <1>11

\* A thread starts or ends its work on its member, and the counter with it.
LEMMA CountStep ==
  ASSUME BInv, NEW t \in Thread, NEW h \in Handler, Goes(t, h), Outside,
         NEW i \in DOMAIN proxy, NEW m \in Member, NEW n \in Nat, Counted(i, m, n),
         thread[t].on = i, thread[t].member = m,
         \/ /\ ~Working(thread[t]) /\ Working(h) /\ h.on = i /\ h.member = m
            /\ n = proxy[i].active[m] + 1
         \/ /\ Working(thread[t]) /\ ~Working(h)
            /\ n = proxy[i].active[m] - 1,
         Ready(h), h.pc \notin {"keep", "pick", "record"}
  PROVE  BInv' /\ AffinityPasses
<1> DEFINE q == [proxy[i] EXCEPT !.active = [proxy[i].active EXCEPT ![m] = n]]
<1>1. thread' = [thread EXCEPT ![t] = h] /\ thread \in [Thread -> Handler]
  BY ThreadFacts DEF Goes
<1>2. /\ thread' \in [Thread -> Handler] /\ thread'[t] = h
      /\ \A u \in Thread \ {t} : thread'[u] = thread[u]
  BY <1>1
<1>3. proxy[i] \in Proxy /\ proxy[i].active \in [Member -> Nat]
  BY ProxyFields
<1>4. [proxy[i].active EXCEPT ![m] = n] \in [Member -> Nat]
  BY <1>3
<1>5. proxy' = [proxy EXCEPT ![i] = q]
  BY DEF Counted
<1>6. /\ q \in Proxy /\ SameDuty(proxy[i], q) /\ q.open = proxy[i].open
      /\ q.persist = proxy[i].persist /\ q.affinity = proxy[i].affinity
      /\ q.active = [proxy[i].active EXCEPT ![m] = n]
  BY <1>3, <1>4 DEF Proxy, SameDuty
<1> HIDE DEF q
<1>7. q.active[m] = n /\ \A l \in Member \ {m} : q.active[l] = proxy[i].active[l]
  BY <1>3, <1>6
<1>8. /\ UNCHANGED <<order, virtual, pool, saved, proxies, alive, commands, flips>>
      /\ conns' \in 0 .. MaxConns
  BY DEF Outside, BInv, TypeOK
<1>9. /\ proxy' \in Seq(Proxy) /\ DOMAIN proxy' = DOMAIN proxy
      /\ proxy'[i] = q /\ \A j \in DOMAIN proxy \ {i} : proxy'[j] = proxy[j]
      /\ Configured' /\ Agree(proxy, proxies)' /\ Served' /\ PersistKnown'
  BY <1>5, <1>6, <1>8, ProxyChange
<1>10. TypeOK'
  BY <1>2, <1>8, <1>9, ConnectionTypes
<1>11. ASSUME NEW u \in Thread
       PROVE  Ready(thread[u])'
  <2>1. Ready(thread'[u])
    BY <1>2, ThreadFacts
  <2>2. QED
    BY <1>9, <2>1 DEF Ready
<1>12. \A j \in DOMAIN proxy : proxy'[j].affinity = proxy[j].affinity
  BY <1>6, <1>9
<1>13. ASSUME NEW u \in Thread
       PROVE  Held(thread'[u], Seen(thread[u])')
  <2>1. CASE thread'[u].pc \in {"keep", "pick", "record"}
    <3>1. u # t
      BY <1>2, <2>1
    <3>2. thread'[u] = thread[u] /\ Held(thread[u], Seen(thread[u])) /\ Ready(thread[u])
      BY <1>2, <3>1, ThreadFacts
    <3>3. thread[u].on \in DOMAIN proxy
      BY <2>1, <3>2 DEF Ready
    <3>4. Seen(thread[u])' = Seen(thread[u])
      BY <1>12, <3>2, <3>3 DEF Seen
    <3>5. QED
      BY <3>2, <3>4
  <2>2. CASE ~(thread'[u].pc \in {"keep", "pick", "record"})
    BY <2>2 DEF Held
  <2>3. QED
    BY <2>1, <2>2
<1>14. ASSUME NEW j \in DOMAIN proxy, NEW l \in Member
       PROVE  proxy'[j].active[l] = Cardinality(WorkingOn(j, l)')
  <2> DEFINE old == WorkingOn(j, l)
             new == WorkingOn(j, l)'
  <2>1. proxy[j].active[l] = Cardinality(old) /\ IsFiniteSet(old) /\ Cardinality(old) \in Nat
    BY CountedAsWorking, WorkingFinite DEF BInv
  <2>2. CASE j = i /\ l = m
    <3>1. CASE ~Working(thread[t]) /\ Working(h) /\ h.on = i /\ h.member = m
               /\ n = proxy[i].active[m] + 1
      <4>1. new = old \cup {t} /\ t \notin old
        BY <1>2, <2>2, <3>1 DEF WorkingOn
      <4> HIDE DEF old, new
      <4>2. Cardinality(new) = Cardinality(old) + 1
        BY <2>1, <4>1, FS_AddElement
      <4>3. QED
        BY <1>7, <1>9, <2>1, <2>2, <3>1, <4>2 DEF old, new
    <3>2. CASE Working(thread[t]) /\ ~Working(h) /\ n = proxy[i].active[m] - 1
      <4>1. new = old \ {t} /\ t \in old
        BY <1>2, <2>2, <3>2 DEF WorkingOn
      <4> HIDE DEF old, new
      <4>2. Cardinality(new) = Cardinality(old) - 1
        BY <2>1, <4>1, FS_RemoveElement
      <4>3. QED
        BY <1>7, <1>9, <2>1, <2>2, <3>2, <4>2 DEF old, new
    <3>3. QED
      BY <3>1, <3>2
  <2>3. CASE ~(j = i /\ l = m)
    <3>1. new = old
      BY <1>2, <2>3 DEF WorkingOn
    <3>2. proxy'[j].active[l] = proxy[j].active[l]
      BY <1>7, <1>9, <2>3
    <3>3. QED
      BY <2>1, <3>1, <3>2
  <2>4. QED
    BY <2>2, <2>3
<1>15. ConnsCounted'
  BY <1>9, <1>14, CountedAsWorking
<1>16. HandlersReady' /\ ReadHolds'
  BY <1>11, <1>13 DEF HandlersReady, ReadHolds
<1>17. QED
  BY <1>9, <1>10, <1>12, <1>15, <1>16, NoAffinityPasses DEF BInv

\* A thread that has a member has a proxy and a client, too, and a counter.
LEMMA MemberInHand ==
  ASSUME BInv, NEW t \in Thread,
         thread[t].pc \in {"keep", "record", "count", "connect", "relay"}
  PROVE  /\ thread[t].on \in DOMAIN proxy /\ thread[t].client \in Client
         /\ thread[t].member \in Member
         /\ proxy[thread[t].on].active[thread[t].member] \in Nat
         /\ thread[t].pc \in {"connect", "relay"}
               => proxy[thread[t].on].active[thread[t].member] # 0
<1>1. /\ thread[t].on \in DOMAIN proxy /\ thread[t].client \in Client
      /\ thread[t].member \in Member
  BY ThreadFacts DEF Ready
<1>2. proxy[thread[t].on].active[thread[t].member] \in Nat
  <2>1. proxy[thread[t].on].active \in [Member -> Nat]
    BY <1>1, ProxyFields
  <2>2. QED
    BY <1>1, <2>1
<1>3. ASSUME thread[t].pc \in {"connect", "relay"}
      PROVE  proxy[thread[t].on].active[thread[t].member] # 0
  <2> DEFINE W == WorkingOn(thread[t].on, thread[t].member)
  <2>1. t \in W
    BY <1>3 DEF WorkingOn, Working
  <2>2. IsFiniteSet(W) /\ proxy[thread[t].on].active[thread[t].member] = Cardinality(W)
    BY <1>1, CountedAsWorking, WorkingFinite DEF BInv
  <2> HIDE DEF W
  <2>3. Cardinality(W) # 0
    BY <2>1, <2>2, FS_EmptySet
  <2>4. QED
    BY <2>2, <2>3
<1>4. QED
  BY <1>1, <1>2, <1>3

\* A connection is counted before it is made.
LEMMA CountConnectionStep ==
  ASSUME BInv, NEW t \in Thread, CountConnection(t)
  PROVE  BInv' /\ AffinityPasses
<1> DEFINE i == thread[t].on
           m == thread[t].member
           n == proxy[i].active[m] + 1
           h == [thread[t] EXCEPT !.pc = "connect"]
<1>1. thread[t].pc = "count" /\ Counted(i, m, n) /\ Goes(t, h) /\ Outside
  BY DEF CountConnection, At
<1>2. i \in DOMAIN proxy /\ thread[t].client \in Client /\ m \in Member /\ n \in Nat
  BY <1>1, MemberInHand
<1>3. h \in Handler /\ h.pc = "connect" /\ h.on = i /\ h.member = m /\ h.client = thread[t].client
  BY ThreadFacts DEF Handler
<1> HIDE DEF h
<1>4. Ready(h) /\ Working(h) /\ ~Working(thread[t])
  BY <1>1, <1>2, <1>3 DEF Ready, Working
<1> HIDE DEF i, m
<1>5. thread[t].on = i /\ thread[t].member = m
  BY DEF i, m
<1>6. QED
  BY <1>1, <1>2, <1>3, <1>4, <1>5, CountStep

\* A connection at work ends.
LEMMA EndStep ==
  ASSUME BInv, NEW t \in Thread, Working(thread[t]), Goes(t, Idle), Outside,
         Counted(thread[t].on, thread[t].member,
                 proxy[thread[t].on].active[thread[t].member] - 1)
  PROVE  BInv' /\ AffinityPasses
<1> DEFINE i == thread[t].on
           m == thread[t].member
           n == proxy[i].active[m] - 1
<1>1. i \in DOMAIN proxy /\ m \in Member /\ n \in Nat
  BY MemberInHand DEF Working
<1>2. Counted(i, m, n) /\ thread[t].on = i /\ thread[t].member = m
  OBVIOUS
<1> HIDE DEF i, m
<1>3. QED
  BY <1>1, <1>2, IdleType, CountStep

\* The connection to the member is made or fails.
LEMMA ConnectStep ==
  ASSUME BInv, NEW t \in Thread, Connect(t)
  PROVE  BInv' /\ AffinityPasses
<1> DEFINE h == [thread[t] EXCEPT !.pc = "relay"]
<1>1. thread[t].pc = "connect" /\ Outside
  BY DEF Connect, At
<1>2. CASE thread[t].member \in alive
  <2>1. Goes(t, h) /\ UNCHANGED proxy
    BY <1>2 DEF Connect
  <2>2. /\ h \in Handler /\ h.pc = "relay" /\ h.on = thread[t].on
        /\ h.member = thread[t].member /\ h.client = thread[t].client
    BY ThreadFacts DEF Handler
  <2> HIDE DEF h
  <2>3. Ready(h) /\ Working(h) /\ Working(thread[t])
    BY <1>1, <2>2, MemberInHand DEF Ready, Working
  <2>4. QED
    BY <1>1, <2>1, <2>2, <2>3, QuietThread
<1>3. CASE thread[t].member \notin alive
  <2>1. Working(thread[t])
    BY <1>1 DEF Working
  <2>2. QED
    BY <1>1, <1>3, <2>1, EndStep DEF Connect, Failed
<1>4. QED
  BY <1>2, <1>3

\* A connection is closed.
LEMMA CloseStep ==
  ASSUME BInv, NEW t \in Thread, Close(t)
  PROVE  BInv' /\ AffinityPasses
<1>1. Working(thread[t])
  BY DEF Close, At, Working
<1>2. QED
  BY <1>1, EndStep DEF Close

\* The affinity of client c at proxy i becomes e.
Entered(i, c, e) == proxy' = [proxy EXCEPT ![i].affinity[c] = e]

\* A connection that goes from h to g stays with its proxy and its member, neither
\* starting nor ending its work.
Stays(h, g) == /\ g \in Handler /\ Ready(g) /\ g.on = h.on /\ g.member = h.member
               /\ Working(g) <=> Working(h)

\* One affinity entry of one proxy changes; nobody starts or ends work.
LEMMA EntryChange ==
  ASSUME BInv, Outside, NEW i \in DOMAIN proxy, NEW c \in Client, NEW e \in Affinity,
         Entered(i, c, e),
         thread' \in [Thread -> Handler], \A t \in Thread : Stays(thread[t], thread'[t])
  PROVE  /\ TypeOK' /\ Configured' /\ Agree(proxy, proxies)' /\ Served' /\ PersistKnown'
         /\ HandlersReady' /\ ConnsCounted'
         /\ proxy'[i].affinity[c] = e
         /\ \A j \in DOMAIN proxy, d \in Client :
               ~(j = i /\ d = c) => proxy'[j].affinity[d] = proxy[j].affinity[d]
<1> DEFINE q == [proxy[i] EXCEPT !.affinity = [proxy[i].affinity EXCEPT ![c] = e]]
<1>1. proxy[i] \in Proxy /\ proxy[i].affinity \in [Client -> Affinity \cup {None}]
  BY ProxyFields
<1>2. [proxy[i].affinity EXCEPT ![c] = e] \in [Client -> Affinity \cup {None}]
  BY <1>1
<1>3. /\ q \in Proxy /\ SameDuty(proxy[i], q) /\ q.open = proxy[i].open
      /\ q.persist = proxy[i].persist /\ q.active = proxy[i].active
      /\ q.affinity = [proxy[i].affinity EXCEPT ![c] = e]
  BY <1>1, <1>2 DEF Proxy, SameDuty
<1>4. proxy' = [proxy EXCEPT ![i] = q]
  BY DEF Entered
<1> HIDE DEF q
<1>5. q.affinity[c] = e /\ \A d \in Client \ {c} : q.affinity[d] = proxy[i].affinity[d]
  BY <1>1, <1>3
<1>6. /\ UNCHANGED <<order, virtual, pool, saved, proxies, alive, commands, flips>>
      /\ conns' \in 0 .. MaxConns
  BY DEF Outside, BInv, TypeOK
<1>7. /\ proxy' \in Seq(Proxy) /\ DOMAIN proxy' = DOMAIN proxy
      /\ proxy'[i] = q /\ \A j \in DOMAIN proxy \ {i} : proxy'[j] = proxy[j]
      /\ Configured' /\ Agree(proxy, proxies)' /\ Served' /\ PersistKnown'
  BY <1>3, <1>4, <1>6, ProxyChange
<1>8. TypeOK'
  BY <1>6, <1>7, ConnectionTypes
<1>9. ASSUME NEW t \in Thread
      PROVE  Ready(thread[t])'
  BY <1>7 DEF Ready, Stays
<1>10. HandlersReady'
  BY <1>9 DEF HandlersReady
<1>11. ASSUME NEW j \in DOMAIN proxy, NEW m \in Member
       PROVE  proxy'[j].active[m] = Cardinality(WorkingOn(j, m)')
  <2>1. WorkingOn(j, m)' = WorkingOn(j, m)
    BY DEF WorkingOn, Stays
  <2>2. proxy[j].active[m] = Cardinality(WorkingOn(j, m))
    BY CountedAsWorking DEF BInv
  <2>3. proxy'[j].active = proxy[j].active
    BY <1>3, <1>7
  <2>4. QED
    BY <2>1, <2>2, <2>3
<1>12. ConnsCounted'
  BY <1>7, <1>11, CountedAsWorking
<1>13. ASSUME NEW j \in DOMAIN proxy, NEW d \in Client, ~(j = i /\ d = c)
       PROVE  proxy'[j].affinity[d] = proxy[j].affinity[d]
  BY <1>5, <1>7, <1>13
<1>14. proxy'[i].affinity[c] = e
  BY <1>5, <1>7
<1>15. QED
  BY <1>7, <1>8, <1>10, <1>12, <1>13, <1>14

\* A thread writes the affinity of its client: it keeps its member or replaces
\* one it saw down, unless it raced.
LEMMA WriteAffinityStep ==
  ASSUME BInv, NEW t \in Thread, thread[t].pc \in {"keep", "record"}, WriteAffinity(t)
  PROVE  BInv' /\ AffinityPasses
<1> DEFINE h == thread[t]
           e == [member |-> h.member, fresh |-> TRUE]
           counting == [h EXCEPT !.pc = "count"]
           Raced(u) == u # t /\ thread[u].on = h.on /\ thread[u].client = h.client
                             /\ thread[u].pc \in {"keep", "pick", "record"}
           G(u) == IF u = t THEN counting
                   ELSE IF Raced(u) THEN [thread[u] EXCEPT !.raced = TRUE] ELSE thread[u]
<1>1. /\ proxy' = [proxy EXCEPT ![h.on].affinity[h.client] = e]
      /\ thread' = [u \in Thread |-> G(u)] /\ Outside
  BY DEF WriteAffinity
<1>2. h.on \in DOMAIN proxy /\ h.client \in Client /\ h.member \in Member
  BY MemberInHand
<1>3. e \in Affinity
  BY <1>2 DEF Affinity
<1>4. /\ counting \in Handler /\ counting.pc = "count" /\ counting.on = h.on
      /\ counting.client = h.client /\ counting.member = h.member
  BY ThreadFacts DEF Handler
<1>5. ASSUME NEW u \in Thread
      PROVE  /\ G(u) \in Handler /\ G(u).on = thread[u].on /\ G(u).member = thread[u].member
             /\ Working(G(u)) <=> Working(thread[u])
             /\ Ready(G(u))
             /\ u = t => G(u).pc = "count"
             /\ Raced(u) => G(u).raced
             /\ u # t /\ ~Raced(u) => G(u) = thread[u]
  <2>1. CASE u = t
    <3>1. Ready(counting) /\ ~Working(counting) /\ ~Working(h)
      BY <1>2, <1>4 DEF Ready, Working
    <3>2. G(u) = counting /\ ~Raced(u)
      BY <2>1
    <3> HIDE DEF counting, G, Raced
    <3>3. QED
      BY <1>4, <2>1, <3>1, <3>2
  <2>2. CASE Raced(u)
    <3> DEFINE g == [thread[u] EXCEPT !.raced = TRUE]
    <3>1. G(u) = g
      BY <2>2
    <3>2. thread[u] \in Handler /\ Ready(thread[u])
      BY ThreadFacts
    <3>3. /\ g \in Handler /\ g.raced /\ g.pc = thread[u].pc /\ g.on = thread[u].on
          /\ g.client = thread[u].client /\ g.member = thread[u].member /\ g.up = thread[u].up
      BY <3>2 DEF Handler
    <3>4. u # t
      BY <2>2
    <3> HIDE DEF g, G, Raced
    <3>5. Ready(g) /\ (Working(g) <=> Working(thread[u]))
      BY <3>2, <3>3 DEF Ready, Working
    <3>6. QED
      BY <2>2, <3>1, <3>3, <3>4, <3>5
  <2>3. CASE u # t /\ ~Raced(u)
    <3>1. G(u) = thread[u]
      BY <2>3
    <3> HIDE DEF G, Raced
    <3>2. QED
      BY <2>3, <3>1, ThreadFacts
  <2>4. QED
    BY <2>1, <2>2, <2>3
<1>6. ASSUME NEW u \in Thread
      PROVE  thread'[u] = G(u)
  BY <1>1
<1>7. thread' \in [Thread -> Handler]
  BY <1>1, <1>5
<1> HIDE DEF G
<1>8. ASSUME NEW u \in Thread
      PROVE  Stays(thread[u], thread'[u])
  BY <1>5, <1>6 DEF Stays
<1>9. /\ TypeOK' /\ Configured' /\ Agree(proxy, proxies)' /\ Served' /\ PersistKnown'
       /\ HandlersReady' /\ ConnsCounted'
       /\ proxy'[h.on].affinity[h.client] = e
       /\ \A j \in DOMAIN proxy, d \in Client :
             ~(j = h.on /\ d = h.client) => proxy'[j].affinity[d] = proxy[j].affinity[d]
  <2> DEFINE i == h.on
             c == h.client
  <2>1. i \in DOMAIN proxy /\ c \in Client /\ Entered(i, c, e) /\ Outside
    BY <1>1, <1>2 DEF Entered
  <2> HIDE DEF i, c, e
  <2>2. /\ TypeOK' /\ Configured' /\ Agree(proxy, proxies)' /\ Served' /\ PersistKnown'
        /\ HandlersReady' /\ ConnsCounted'
        /\ proxy'[i].affinity[c] = e
        /\ \A j \in DOMAIN proxy, d \in Client :
              ~(j = i /\ d = c) => proxy'[j].affinity[d] = proxy[j].affinity[d]
    BY <1>3, <1>7, <1>8, <2>1, EntryChange
  <2>3. QED
    BY <2>2 DEF i, c
<1>10. ASSUME NEW u \in Thread
       PROVE  Held(thread'[u], Seen(thread[u])')
  <2>1. CASE thread'[u].raced \/ thread'[u].pc \notin {"keep", "pick", "record"}
    BY <2>1 DEF Held
  <2>2. CASE ~thread'[u].raced /\ thread'[u].pc \in {"keep", "pick", "record"}
    <3>1. u # t /\ ~Raced(u) /\ thread'[u] = thread[u]
      BY <1>5, <1>6, <2>2
    <3>2. thread[u].on \in DOMAIN proxy /\ thread[u].client \in Client
      BY <2>2, <3>1, ThreadFacts DEF Ready
    <3>3. ~(thread[u].on = h.on /\ thread[u].client = h.client)
      BY <2>2, <3>1
    <3>4. Seen(thread[u])' = Seen(thread[u])
      BY <1>9, <3>1, <3>2, <3>3 DEF Seen
    <3>5. Held(thread[u], Seen(thread[u]))
      BY ThreadFacts
    <3>6. QED
      BY <3>1, <3>4, <3>5
  <2>3. QED
    BY <2>1, <2>2
<1>11. ReadHolds'
  BY <1>10 DEF ReadHolds
<1>12. ASSUME NEW i \in DOMAIN proxy, NEW c \in Client,
              proxy[i].affinity[c] # None, proxy[i].affinity[c].fresh,
              proxy'[i].affinity[c].member # proxy[i].affinity[c].member
       PROVE  /\ thread[t].on = i /\ Writes(t)
              /\ thread[t].raced \/ proxy[i].affinity[c].member \notin ToSet(thread[t].up)
  <2>1. i = h.on /\ c = h.client
    BY <1>9, <1>12
  <2>2. proxy[i].affinity[c] = Seen(h) /\ proxy'[i].affinity[c].member = h.member
    BY <1>9, <2>1 DEF Seen
  <2>3. Held(h, Seen(h))
    BY ThreadFacts
  <2>4. h.raced \/ Seen(h).member \notin ToSet(h.up)
    BY <1>12, <2>2, <2>3 DEF Held
  <2>5. Writes(t)
    BY <1>5, <1>6 DEF Writes
  <2>6. QED
    BY <2>1, <2>2, <2>4, <2>5
<1>13. AffinityPasses
  BY <1>12 DEF AffinityPasses
<1>14. QED
  BY <1>9, <1>11, <1>13 DEF BInv

\* An affinity entry expires.
LEMMA ExpireStep ==
  ASSUME BInv, NEW i \in DOMAIN proxy, NEW c \in Client, Expire(i, c)
  PROVE  BInv' /\ AffinityPasses
<1> DEFINE old == proxy[i].affinity[c]
           e == [old EXCEPT !.fresh = FALSE]
<1>1. /\ old # None /\ old.fresh /\ proxy' = [proxy EXCEPT ![i].affinity[c].fresh = FALSE]
      /\ UNCHANGED thread /\ Outside
  BY DEF Expire
<1>2. old \in Affinity
  <2>1. proxy[i].affinity \in [Client -> Affinity \cup {None}]
    BY ProxyFields
  <2>2. QED
    BY <1>1, <2>1
<1>3. Entered(i, c, e) /\ Outside
  BY <1>1 DEF Entered
<1> HIDE DEF old
<1>4. e \in Affinity /\ e.member = old.member /\ ~e.fresh
  BY <1>2 DEF Affinity
<1> HIDE DEF e
<1>5. /\ thread' \in [Thread -> Handler]
      /\ \A t \in Thread : Stays(thread[t], thread'[t])
  BY <1>1, ThreadFacts DEF BInv, TypeOK, Stays
<1>6. /\ TypeOK' /\ Configured' /\ Agree(proxy, proxies)' /\ Served' /\ PersistKnown'
      /\ HandlersReady' /\ ConnsCounted'
      /\ proxy'[i].affinity[c] = e
      /\ \A j \in DOMAIN proxy, d \in Client :
            ~(j = i /\ d = c) => proxy'[j].affinity[d] = proxy[j].affinity[d]
  BY <1>3, <1>4, <1>5, EntryChange
<1>7. e # None
  BY <1>4, ValueAssumption
<1>8. ASSUME NEW t \in Thread
      PROVE  Held(thread'[t], Seen(thread[t])')
  <2>1. CASE thread[t].pc \notin {"keep", "pick", "record"}
    BY <1>1, <2>1 DEF Held
  <2>2. CASE thread[t].pc \in {"keep", "pick", "record"}
    <3>1. /\ thread[t].on \in DOMAIN proxy /\ thread[t].client \in Client
          /\ Held(thread[t], Seen(thread[t]))
      BY <2>2, ThreadFacts DEF Ready
    <3>2. CASE thread[t].on = i /\ thread[t].client = c
      <4>1. Seen(thread[t])' = e /\ Seen(thread[t]) = old
        BY <1>1, <1>6, <3>2 DEF Seen, old
      <4>2. QED
        BY <1>1, <1>4, <1>7, <3>1, <4>1 DEF Held
    <3>3. CASE ~(thread[t].on = i /\ thread[t].client = c)
      <4>1. Seen(thread[t])' = Seen(thread[t])
        BY <1>1, <1>6, <3>1, <3>3 DEF Seen
      <4>2. QED
        BY <1>1, <3>1, <4>1
    <3>4. QED
      BY <3>2, <3>3
  <2>3. QED
    BY <2>1, <2>2
<1>9. ReadHolds'
  BY <1>8 DEF ReadHolds
<1>10. ASSUME NEW j \in DOMAIN proxy, NEW d \in Client
       PROVE  proxy'[j].affinity[d].member = proxy[j].affinity[d].member
  BY <1>4, <1>6 DEF old
<1>11. AffinityPasses
  BY <1>10 DEF AffinityPasses
<1>12. QED
  BY <1>6, <1>9, <1>11 DEF BInv

-----------------------------------------------------------------------------
(* The theorems.                                                           *)

\* The proxies of a restored configuration agree with it and are unused.
LEMMA BInit == Init => BInv
<1> SUFFICES ASSUME Init
             PROVE  BInv
  OBVIOUS
<1> DEFINE none == [v \in Virtual |-> 0]
           s == AllEnsured(<<>>, none, order, virtual)
<1>1. /\ saved \in Files /\ order = saved.order /\ virtual = saved.virtual /\ pool = saved.pool
      /\ proxy = s.px /\ proxies = s.table
      /\ thread = [t \in Thread |-> Idle]
      /\ alive = Member /\ commands = 0 /\ flips = 0 /\ conns = 0
  BY DEF Init
<1>2. Configuration(saved)
  BY <1>1, FilesAssumption
<1>3. /\ order \in Seq(Virtual) /\ virtual \in [Virtual -> VirtualServer \cup {None}]
      /\ pool \in Pools
      /\ \A j, k \in DOMAIN order : order[j] = order[k] => j = k
      /\ \A v \in Virtual : virtual[v] # None <=> \E k \in DOMAIN order : order[k] = v
  BY <1>1, <1>2 DEF Configuration
<1>4. Configured
  BY <1>2, <1>3, ConfigurationOf DEF Configured
<1>5. Agree(<<>>, none)
  <2>1. <<>> \in Seq(Proxy) /\ Len(<<>>) = 0 /\ DOMAIN <<>> = {}
    OBVIOUS
  <2>2. none \in [Virtual -> 0 .. 0]
    OBVIOUS
  <2>3. QED
    BY <2>1, <2>2 DEF Agree
<1>6. \A k \in DOMAIN order : order[k] \in Virtual
  BY <1>3
<1>7. \A k \in DOMAIN order : virtual[order[k]] \in VirtualServer
  BY <1>3, <1>6
<1> HIDE DEF none
<1>8. /\ Agree(s.px, s.table)
      /\ Continues(<<>>, s.px, {order[k] : k \in DOMAIN order})
      /\ \A k \in DOMAIN order : Matches(s.px, s.table, order[k], virtual[order[k]])
  BY <1>3, <1>5, <1>7, AllEnsuredFacts
<1> HIDE DEF s
<1>9. Agree(proxy, proxies)
  BY <1>1, <1>8
<1>10. Served
  BY <1>1, <1>3, <1>8 DEF Served
<1>11. \A i \in DOMAIN proxy : Unused(proxy[i]) /\ virtual[proxy[i].vs] # None
  <2>1. \A i \in DOMAIN proxy : i \notin DOMAIN <<>>
    OBVIOUS
  <2>2. \A i \in DOMAIN proxy : Unused(proxy[i]) /\ \E k \in DOMAIN order : proxy[i].vs = order[k]
    BY <1>1, <1>8, <2>1 DEF Continues
  <2>3. QED
    BY <1>3, <1>6, <2>2
<1>12. PersistKnown
  BY <1>11 DEF PersistKnown
<1>13. \A t \in Thread : thread[t] = Idle
  BY <1>1
<1>14. Idle.pc = "idle" /\ Idle \in Handler /\ Ready(Idle) /\ ~Working(Idle)
  BY IdleType
<1>15. HandlersReady
  BY <1>13, <1>14 DEF HandlersReady
<1>16. ReadHolds
  BY <1>13, <1>14 DEF ReadHolds, Held
<1>17. ConnsCounted
  <2> SUFFICES ASSUME NEW i \in DOMAIN proxy, NEW m \in Member
               PROVE  proxy[i].active[m] = Cardinality(WorkingOn(i, m))
    BY CountedAsWorking
  <2>1. proxy[i].active[m] = 0
    BY <1>11 DEF Unused
  <2>2. WorkingOn(i, m) = {}
    BY <1>13, <1>14 DEF WorkingOn
  <2>3. QED
    BY <2>1, <2>2, FS_EmptySet
<1>18. TypeOK
  <2>1. thread \in [Thread -> Handler]
    BY <1>1, <1>14
  <2>2. proxy \in Seq(Proxy) /\ proxies \in [Virtual -> 0 .. Len(proxy)]
    BY <1>9 DEF Agree
  <2>3. /\ saved.virtual \in [Virtual -> VirtualServer \cup {None}] /\ saved.pool \in Pools
        /\ alive \subseteq Member
        /\ commands \in 0 .. MaxCommands /\ flips \in 0 .. MaxFlips /\ conns \in 0 .. MaxConns
    BY <1>1, <1>3, ValueAssumption
  <2>4. QED
    BY <1>3, <2>1, <2>2, <2>3 DEF TypeOK
<1>19. QED
  BY <1>4, <1>9, <1>10, <1>12, <1>15, <1>16, <1>17, <1>18 DEF BInv

\* Every step keeps the invariant and the affinities.
LEMMA BNext == BInv /\ Next => BInv' /\ AffinityPasses
<1> SUFFICES ASSUME BInv, Next
             PROVE  BInv' /\ AffinityPasses
  OBVIOUS
<1>1. ASSUME NEW v \in Virtual, NEW a \in Address \cup {None},
             NEW p \in Pool \cup {None}, NEW persist \in BOOLEAN, SetVirtual(v, a, p, persist)
      PROVE  BInv' /\ AffinityPasses
  BY <1>1, SetVirtualStep
<1>2. ASSUME NEW p \in Pool, NEW m \in Member, NEW b \in BOOLEAN,
             \/ AddMember(p, m) \/ DeleteMember(p, m)
             \/ DisableMember(p, m, b) \/ SetMode(p, b)
      PROVE  BInv' /\ AffinityPasses
  BY <1>2, AddMemberStep, ChangePoolStep
<1>3. ASSUME NEW v \in Virtual, NEW bare \in BOOLEAN, DeleteVirtual(v, bare)
      PROVE  BInv' /\ AffinityPasses
  BY <1>3, DeleteVirtualStep
<1>4. CASE (\E p \in Pool : DeletePool(p)) \/ Save \/ (\E m \in Member : Toggle(m))
  BY <1>4, QuietStep
<1>5. CASE Reload \/ RemoveDevice
  BY <1>5, ReloadStep, RemoveDeviceStep
<1>6. ASSUME NEW t \in Thread, NEW i \in DOMAIN proxy, NEW c \in Client, Accept(t, i, c)
      PROVE  BInv' /\ AffinityPasses
  BY <1>6, AcceptStep
<1>7. ASSUME NEW t \in Thread,
             StartChecks(t) \/ CheckMember(t) \/ ReadAffinity(t) \/ Pick(t)
      PROVE  BInv' /\ AffinityPasses
  BY <1>7, StartChecksStep, CheckMemberStep, ReadAffinityStep, PickStep
<1>8. ASSUME NEW t \in Thread, KeepAffinity(t) \/ RecordAffinity(t)
      PROVE  BInv' /\ AffinityPasses
  <2>1. thread[t].pc \in {"keep", "record"} /\ WriteAffinity(t)
    BY <1>8 DEF KeepAffinity, RecordAffinity, At
  <2>2. QED
    BY <2>1, WriteAffinityStep
<1>9. ASSUME NEW t \in Thread, CountConnection(t) \/ Connect(t) \/ Close(t)
      PROVE  BInv' /\ AffinityPasses
  BY <1>9, CountConnectionStep, ConnectStep, CloseStep
<1>10. ASSUME NEW i \in DOMAIN proxy, NEW c \in Client, Expire(i, c)
       PROVE  BInv' /\ AffinityPasses
  BY <1>10, ExpireStep
<1>11. QED
  BY <1>1, <1>2, <1>3, <1>4, <1>5, <1>6, <1>7, <1>8, <1>9, <1>10 DEF Next

\* A step that changes nothing keeps the invariant.
LEMMA BStutter == BInv /\ UNCHANGED vars => BInv'
<1> SUFFICES ASSUME BInv, UNCHANGED vars
             PROVE  BInv'
  OBVIOUS
<1>1. UNCHANGED <<order, virtual, pool, saved, proxy, proxies, thread, alive,
                  commands, flips, conns>>
  BY DEF vars
<1>2. TypeOK' /\ Configured'
  BY <1>1 DEF BInv, TypeOK, Configured, Configuration
<1>3. Agree(proxy, proxies)' /\ Served' /\ PersistKnown'
  BY <1>1 DEF BInv, Agree, Served, Matches, PersistKnown
<1>4. HandlersReady' /\ ConnsCounted' /\ ReadHolds'
  BY <1>1 DEF BInv, HandlersReady, Ready, ConnsCounted, ReadHolds, Held, Seen
<1>5. QED
  BY <1>2, <1>3, <1>4 DEF BInv

\* The invariant holds in every reachable state.
THEOREM BigIpInvariant == Spec => []BInv
<1>1. Init => BInv
  BY BInit
<1>2. BInv /\ [Next]_vars => BInv'
  BY BNext, BStutter
<1>3. QED
  BY <1>1, <1>2, PTL DEF Spec

\* Whatever is deleted, reloaded, removed and created again in between, a socket
\* listens exactly if _proxies knows it, no two listen on one address, and a
\* virtual server's proxy has its destination and pool.
THEOREM ListenersAlwaysMatch == Spec => []ListenersMatch
<1>1. BInv => ListenersMatch
  BY BInvListeners
<1>2. QED
  BY <1>1, BigIpInvariant, PTL

\* The connection counters of every proxy, replaced ones included, are the
\* connections that threads have on its members.
THEOREM ConnectionsAreCounted == Spec => []ConnsCounted
<1>1. BInv => ConnsCounted
  BY DEF BInv
<1>2. QED
  BY <1>1, BigIpInvariant, PTL

\* A fresh affinity passes to another member only by a thread that found the old
\* member down or raced with another thread of the client.
THEOREM AffinityIsKept == Spec => AffinityHolds
<1>1. BInv /\ [Next]_vars => [AffinityPasses]_vars
  BY BNext
<1>2. QED
  BY <1>1, BigIpInvariant, PTL DEF Spec, AffinityHolds, AffinityPasses
=============================================================================
