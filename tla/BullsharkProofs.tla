-------------------------- MODULE BullsharkProofs ---------------------------
(***************************************************************************)
(* The theorems on Bullshark, for every committee, certified DAG, digest   *)
(* order, garbage collection depth, number of validators and number of     *)
(* crashes: the election, the inductive invariant and the agreement of two *)
(* validators, on the lemmas of module BullsharkSteps.                     *)
(***************************************************************************)
EXTENDS BullsharkSteps

\* The Synchronizer accepts a certificate.
LEMMA AcceptSound ==
  ASSUME Library, NEW P \in Dags, NEW lc, NEW dg, NEW tc, NEW ch, NEW gc, NEW store, NEW sd,
         Sound(P, lc, dg, tc, ch, gc, store, sd),
         NEW c \in DOMAIN P, Round(c) <= gc + 1 \/ P[c] \subseteq store, NEW n \in Nat, n >= 1
  PROVE  Sound(P, lc, dg, tc, ch \o [i \in 1..n |-> c], gc, store \cup {c}, sd)
<1> USE Zenon
<1>1. Held(P, lc, dg, ch, store) /\ Collected(P, lc, gc) /\ lc \in LastCommits
  BY DEF Sound, Committed
<1>2. Held(P, lc, dg, ch \o [i \in 1..n |-> c], store \cup {c})
  BY <1>1, AcceptHeld
<1> QED BY <1>2 DEF Sound

\* The GC round of the Synchronizer follows the last commit.
LEMMA GcSound ==
  ASSUME Library, NEW P \in Dags, NEW lc, NEW dg, NEW tc, NEW ch, NEW gc, NEW store, NEW sd,
         Sound(P, lc, dg, tc, ch, gc, store, sd)
  PROVE  Sound(P, lc, dg, tc, ch, saturating_sub(last_committed_round(lc), GcDepth), store, sd)
<1> USE Zenon
<1> DEFINE b == last_committed_round(lc)
           g == saturating_sub(b, GcDepth)
<1>1. lc \in LastCommits /\ sd \in Seq(SubDags(P)) /\ b = LastLeaderRound(sd)
  BY DEF Sound, Committed
<1>2. b \in Nat
  BY <1>1, LastRound
<1>3. GcDepth \in Nat
  BY BullsharkAssumption
<1>4. Calm => b <= GcDepth
  <2>1. SUFFICES ASSUME Calm
                 PROVE  b <= GcDepth
    BY SMT
  <2>2. CASE sd = <<>>
    BY <1>1, <1>3, <2>2, SMT DEF LastLeaderRound
  <2>3. CASE sd # <<>>
    <3>1. sd[Len(sd)] \in SubDags(P)
      BY <1>1, <2>3, SMT
    <3>2. sd[Len(sd)].leader \in DOMAIN P
      BY <3>1 DEF SubDags
    <3>3. Round(sd[Len(sd)].leader) <= GcDepth
      BY <2>1, <3>2 DEF Calm
    <3> QED BY <1>1, <2>3, <3>3 DEF LastLeaderRound
  <2> QED BY <2>2, <2>3
<1> HIDE DEF b
<1>5. g \in Nat /\ g <= b /\ (Calm => g = 0)
  BY <1>2, <1>3, <1>4, SMT DEF saturating_sub
<1> HIDE DEF g
<1>6. ASSUME NEW p \in DOMAIN P, Round(p) <= g
      PROVE  Settled(lc, p)
  <2>1. Round(p) \in Nat /\ Round(p) > 0
    BY DagFacts
  <2>2. ~ Calm
    BY <1>5, <1>6, <2>1, SMT
  <2>3. Round(p) <= b
    BY <1>2, <1>5, <1>6, <2>1, SMT
  <2> QED BY <1>1, <2>2, <2>3, SettledFacts DEF b
<1>7. Collected(P, lc, g)
  BY <1>5, <1>6 DEF Collected
<1> QED BY <1>7 DEF Sound, g, b

\* A restart: nothing is calm, and what is above the last commit is restored.
LEMMA RestartSound ==
  ASSUME Library, NEW P \in Dags, NEW lc, NEW dg, NEW tc, NEW ch, NEW gc, NEW store, NEW sd,
         Sound(P, lc, dg, tc, ch, gc, store, sd), MaxRestarts # 0
  PROVE  Sound(P, lc, construct_dag_from_cert_store(store, lc), <<>>, <<>>, 0, store, sd)
<1> USE Zenon
<1> DEFINE b == last_committed_round(lc)
           entries == {lc[a] : a \in {x \in Authorities : lc[x] > 0}}
           m == IF entries = {} THEN 0 ELSE Min(entries)
           D == construct_dag_from_cert_store(store, lc)
<1>0. ~ Calm
  BY DEF Calm
<1>1. Held(P, lc, dg, ch, store) /\ Committed(P, lc, sd) /\ lc \in LastCommits
  BY DEF Sound, Committed
<1>2. /\ store \in SUBSET DOMAIN P /\ IsFiniteSet(store)
      /\ \A c \in store : \A p \in P[c] : p \in store \/ Settled(lc, p)
  BY <1>1 DEF Held
<1>3. D = {c \in store : Round(c) >= m + 1 /\ Round(c) > lc[Author(c)]}
  BY DEF construct_dag_from_cert_store
<1>4. b \in Nat /\ \A a \in Authorities : lc[a] <= b
  BY <1>1, LastRound
<1>5. lc \in [Authorities -> Nat]
  BY <1>1 DEF LastCommits
<1>6. m \in Nat /\ m <= b
  <2>1. CASE entries = {}
    BY <1>4, <2>1, SMT
  <2>2. CASE entries # {}
    <3>1. entries \in SUBSET Nat
      BY <1>5
    <3>2. \E x \in entries : \A y \in entries : x <= y
      BY <2>2, <3>1 DEF Library, Least
    <3>3. Min(entries) \in entries
      BY <3>2 DEF Min
    <3>4. \A y \in entries : y \in Nat /\ y <= b
      BY <1>4, <1>5
    <3> HIDE DEF entries
    <3> QED BY <2>2, <3>3, <3>4
  <2> QED BY <2>1, <2>2
<1> HIDE DEF m, b, D
<1>7. D \in SUBSET store /\ \A c \in D : Round(c) > lc[Author(c)]
  BY <1>3
<1>8. ASSUME NEW c \in store
      PROVE  c \in D \/ Settled(lc, c)
  <2>1. c \in DOMAIN P /\ Round(c) \in Nat /\ Author(c) \in Authorities
    BY <1>2, DagFacts
  <2>2. CASE Round(c) <= b
    BY <1>0, <1>1, <2>1, <2>2, SettledFacts DEF b
  <2>3. CASE ~ (Round(c) <= b)
    <3>1. lc[Author(c)] \in Nat /\ lc[Author(c)] <= b
      BY <1>4, <1>5, <2>1
    <3>2. Round(c) >= m + 1 /\ Round(c) > lc[Author(c)]
      BY <1>4, <1>6, <2>1, <2>3, <3>1, SMT
    <3> QED BY <1>3, <3>2
  <2> QED BY <2>2, <2>3
<1>9. \A c \in D : \A p \in P[c] : p \in D \/ Settled(lc, p)
  BY <1>2, <1>7, <1>8
<1>10. <<>> \in Seq(store) /\ <<>> \in Seq(D) /\ DOMAIN <<>> = {}
  BY EmptySeq, SMT
<1>11. Held(P, lc, D, <<>>, store)
  BY <1>2, <1>7, <1>8, <1>9, <1>10 DEF Held
<1>12. Waiting(lc, D, <<>>)
  BY <1>10 DEF Waiting
<1>13. Collected(P, lc, 0)
  <2>1. \A p \in DOMAIN P : Round(p) \in Nat /\ Round(p) > 0
    BY DagFacts
  <2>2. \A p \in DOMAIN P : ~ (Round(p) <= 0)
    BY <2>1, SMT
  <2> QED BY <2>2 DEF Collected
<1> QED BY <1>0, <1>1, <1>11, <1>12, <1>13 DEF Sound, D

\* The start.
LEMMA StartSound ==
  ASSUME Library, NEW P \in Dags
  PROVE  Sound(P, [a \in Authorities |-> 0], {}, <<>>, <<>>, 0, {}, <<>>)
<1> USE Zenon
<1> DEFINE z == [a \in Authorities |-> 0]
<1>1. z \in LastCommits /\ \A a \in Authorities : z[a] = 0
  BY DEF LastCommits
<1> HIDE DEF z
<1>2. last_committed_round(z) = 0
  BY <1>1, LastRound
<1>3. /\ \A S : <<>> \in Seq(S)
      /\ DOMAIN <<>> = {} /\ Len(<<>>) = 0
  BY EmptySeq, SMT
<1>4. Places(<<>>) = {}
  BY <1>3 DEF Places
<1>5. Held(P, z, {}, <<>>, {})
  BY <1>3, EmptyFinite DEF Held
<1>6. Collected(P, z, 0)
  <2>1. \A p \in DOMAIN P : Round(p) \in Nat /\ Round(p) > 0
    BY DagFacts
  <2>2. \A p \in DOMAIN P : ~ (Round(p) <= 0)
    BY <2>1, SMT
  <2> QED BY <2>2 DEF Collected
<1>7. Committed(P, z, <<>>)
  <2>1. Fits(z, <<>>, Len(<<>>))
    BY <1>1, <1>4 DEF Fits
  <2>2. Once(<<>>) /\ Advance(<<>>) /\ LastLeaderRound(<<>>) = 0
    BY <1>3, <1>4 DEF Once, Advance, LastLeaderRound
  <2> QED BY <1>1, <1>2, <1>3, <2>1, <2>2 DEF Committed
<1>8. Waiting(z, {}, <<>>) /\ NoneWaits(P, z, {}, <<>>)
  BY <1>3 DEF Waiting, NoneWaits
<1>9. Causal(P, <<>>) /\ Ordered(P, <<>>)
  BY <1>3, <1>4 DEF Causal, Ordered
<1>10. Elected(P, Leaders(<<>>, <<>>), Len(<<>>) + Len(<<>>))
  <2>1. Len(<<>>) + Len(<<>>) = 0
    BY <1>3, SMT
  <2>2. Elected(P, Leaders(<<>>, <<>>), 0)
    BY SMT DEF Elected, Linked
  <2> QED BY <2>1, <2>2
<1> QED BY <1>5, <1>6, <1>7, <1>8, <1>9, <1>10 DEF Sound, z

-----------------------------------------------------------------------------
(* The election.                                                           *)

\* Nobody's stake is no support.
LEMMA NoValidity == ~ IsValidity({})
<1>1. StakeOf({}) = 0 /\ total_votes > 0 /\ total_votes \in Nat
  <2>1. StakeOf(Authorities) \in Nat
    BY StakeOfAssumption, Zenon
  <2> QED BY <2>1, TotalAssumption, Zenon DEF total_votes
<1>2. validity_threshold >= 1
  BY <1>1 DEF validity_threshold
<1>3. ~ (0 >= validity_threshold)
  BY <1>1, <1>2 DEF validity_threshold
<1> QED BY <1>1, <1>3, Zenon DEF IsValidity

\* The last committed round is even.
LEMMA LastRoundEven ==
  ASSUME NEW P \in Dags, NEW lc, NEW sd, Committed(P, lc, sd)
  PROVE  last_committed_round(lc) % 2 = 0
<1> USE Zenon
<1>1. sd \in Seq(SubDags(P)) /\ last_committed_round(lc) = LastLeaderRound(sd) /\ Advance(sd)
  BY DEF Committed
<1>2. CASE sd = <<>>
  BY <1>1, <1>2, SMT DEF LastLeaderRound
<1>3. CASE sd # <<>>
  <2>1. Len(sd) \in DOMAIN sd
    BY <1>1, <1>3, SMT
  <2>2. Round(sd[Len(sd)].leader) % 2 = 0
    BY <1>1, <2>1 DEF Advance
  <2> QED BY <1>1, <1>3, <2>2 DEF LastLeaderRound
<1> QED BY <1>2, <1>3

\* Above the last commit a validator sees the paths there are.
LEMMA SameLinks ==
  ASSUME Library, NEW P \in Dags, NEW lc \in LastCommits, NEW E \in SUBSET DOMAIN P,
         \A x \in E : \A p \in P[x] : p \in E \/ Settled(lc, p),
         NEW c \in E, NEW m \in DOMAIN P, Round(m) > last_committed_round(lc), Round(m) <= Round(c)
  PROVE  /\ linked(State(P, lc, E), c, m) <=> linked(Whole(P), c, m)
         /\ linked(State(P, lc, E), c, m) => m \in E
<1> USE Zenon
<1> DEFINE s == State(P, lc, E)
           b == last_committed_round(lc)
           n == Round(c) - Round(m)
<1>1. s.parents = P /\ s.dag = E
  BY DEF State
<1>2. b \in Nat
  BY LastRound
<1>3. c \in DOMAIN P
  BY SMT
<1>4. Round(c) \in Nat /\ Round(m) \in Nat
  BY <1>3, DagFacts
<1>5. n \in Nat /\ Round(c) - n > b /\ n \in 0..n
  BY <1>2, <1>4, SMT
<1>6. \A x \in E : \A p \in P[x] : p \in E \/ Round(p) <= b
  <2>1. SUFFICES ASSUME NEW x \in E, NEW p \in P[x], Settled(lc, p)
                 PROVE  Round(p) <= b
    OBVIOUS
  <2>2. x \in DOMAIN P
    BY SMT
  <2>3. p \in DOMAIN P
    BY <2>1, <2>2, DagFacts
  <2> QED BY <2>1, <2>3, SettledFacts
<1> HIDE DEF s, b, n
<1>7. \A k \in 0..n : Reached(s, c, n)[k] = Reached(Whole(P), c, n)[k]
  <2>1. s.dag \subseteq DOMAIN P /\ c \in s.dag /\ \A x \in s.dag : \A p \in P[x] : p \in s.dag \/ Round(p) <= b
    BY <1>1, <1>6
  <2> QED BY <1>1, <1>2, <1>5, <2>1, SamePaths, SMT
<1>8. linked(s, c, m) <=> linked(Whole(P), c, m)
  BY <1>5, <1>7 DEF linked, n
<1>9. linked(s, c, m) => m \in E
  <2>1. \A k \in 0..n : \A x \in Reached(s, c, n)[k] : x \in s.dag /\ Round(x) = Round(c) - k
    <3>1. c \in s.dag /\ Round(c) \in Int
      BY <1>1, <1>4, SMT
    <3> QED BY <1>5, <3>1, ReachedIn, SMT
  <2>2. linked(s, c, m) => m \in Reached(s, c, n)[n]
    BY DEF linked, n
  <2> QED BY <1>1, <1>5, <2>1, <2>2
<1> QED BY <1>8, <1>9 DEF s

\* The leader below c is elected with the chain that leads to it.
Elects(s, c, X) ==
  /\ leader(Round(c) - 1) \in s.dag /\ Round(leader(Round(c) - 1)) = Round(c) - 1
  /\ Electable(leader(Round(c) - 1)) /\ Round(c) - 1 > last_committed_round(s.lc)
  /\ IsValidity(Support(s, leader(Round(c) - 1)))
  /\ ChainFrom(s, leader(Round(c) - 1), X, last_committed_round(s.lc) + 2)

\* What elect returns.
LEMMA ElectFacts ==
  ASSUME Library,
         NEW P \in Dags, NEW lc \in LastCommits, NEW E \in SUBSET DOMAIN P, NEW c \in E,
         last_committed_round(lc) % 2 = 0, NEW s, s = State(P, lc, E)
  PROVE  \/ Elects(s, c, elect(s, c))
         \/ /\ elect(s, c) = <<>>
            /\ \A m \in E : /\ Electable(m) /\ Round(m) = Round(c) - 1
                            /\ Round(m) > last_committed_round(lc)
                            => ~ IsValidity(Support(s, m))
<1> USE Zenon
<1> DEFINE r == Round(c) - 1
           l == leader(r)
           b == last_committed_round(lc)
           No == \/ c \notin s.dag
                 \/ r % 2 # 0 \/ r < 2
                 \/ r <= b
                 \/ l \notin s.dag
                 \/ ~ IsValidity(Support(s, l))
<1>1. s.dag = E /\ s.lc = lc /\ s.parents = P
  BY DEF State
<1>2. elect(s, c) = IF No THEN <<>> ELSE order_leaders(s, l)
  BY <1>1 DEF elect
<1>3. \A x \in E : Round(x) \in Nat
  BY DagFacts
<1>4. b \in Nat
  BY LastRound
<1>5. r \in Int /\ Round(l) = r
  BY <1>3, SMT DEF leader, Round
<1> HIDE DEF r, l, b
<1>6. CASE No
  <2>1. elect(s, c) = <<>>
    BY <1>2, <1>6
  <2>2. ASSUME NEW m \in E, Electable(m), Round(m) = r, Round(m) > b
        PROVE  ~ IsValidity(Support(s, m))
    <3>1. m = l /\ r % 2 = 0
      BY <2>2 DEF Electable, l
    <3>2. ~ (r < 2) /\ ~ (r <= b)
      BY <1>4, <1>5, <2>2, <3>1, SMT
    <3> QED BY <1>1, <1>6, <2>2, <3>1, <3>2
  <2> QED BY <2>1, <2>2 DEF r, b
<1>7. CASE ~ No
  <2>1. elect(s, c) = order_leaders(s, l)
    BY <1>2, <1>7
  <2>2. r % 2 = 0 /\ ~ (r <= b) /\ l \in s.dag /\ IsValidity(Support(s, l))
    BY <1>7
  <2>3. Electable(l) /\ r > b
    BY <1>4, <1>5, <2>2, SMT DEF Electable, l
  <2>4. ChainFrom(s, l, order_leaders(s, l), b + 2)
    <3>1. \A m \in s.dag : Round(m) \in Nat
      BY <1>1, <1>3
    <3>2. Round(l) > last_committed_round(s.lc) /\ last_committed_round(s.lc) % 2 = 0
      BY <1>1, <1>5, <2>3 DEF b
    <3> QED BY <1>1, <2>2, <2>3, <3>1, <3>2, OrderLeaders DEF b
  <2>5. Elects(s, c, elect(s, c))
    BY <1>1, <1>5, <2>1, <2>2, <2>3, <2>4 DEF Elects, b, r, l
  <2> QED BY <2>5
<1> QED BY <1>6, <1>7

\* The leaders elected wait to be committed.
LEMMA ElectWaiting ==
  ASSUME Library, NEW P \in Dags, NEW lc \in LastCommits, NEW E \in SUBSET DOMAIN P, NEW c,
         NEW X, Elects(State(P, lc, E), c, X)
  PROVE  Waiting(lc, E, X)
<1> USE Zenon
<1>1. State(P, lc, E).dag = E /\ State(P, lc, E).lc = lc
  BY DEF State
<1>2. /\ X \in Seq(E)
      /\ \A i \in DOMAIN X : Electable(X[i]) /\ Round(X[i]) >= last_committed_round(lc) + 2
      /\ \A i, j \in DOMAIN X : i < j => Round(X[i]) < Round(X[j])
  BY <1>1 DEF Elects, ChainFrom
<1>3. ASSUME NEW i \in DOMAIN X
      PROVE  Round(X[i]) > last_committed_round(lc)
  <2>1. X[i] \in DOMAIN P
    BY <1>2, SMT
  <2>2. Round(X[i]) \in Nat /\ last_committed_round(lc) \in Nat
    BY <2>1, DagFacts, LastRound
  <2>3. Round(X[i]) >= last_committed_round(lc) + 2
    BY <1>2
  <2> QED BY <2>2, <2>3, SMT
<1> QED BY <1>2, <1>3 DEF Waiting

\* A leader with the support it needs is elected.
LEMMA ElectNoneWaits ==
  ASSUME Library,
         NEW P \in Dags, NEW lc \in LastCommits, NEW dg \in SUBSET DOMAIN P, NEW c \in DOMAIN P,
         NEW E, E = dg \cup {c}, \A x \in dg : \A p \in P[x] : p \in dg \/ Settled(lc, p),
         NoneWaits(P, lc, dg, <<>>), NEW X,
         \/ Elects(State(P, lc, E), c, X)
         \/ /\ X = <<>>
            /\ \A m \in E : /\ Electable(m) /\ Round(m) = Round(c) - 1
                            /\ Round(m) > last_committed_round(lc)
                            => ~ IsValidity(Support(State(P, lc, E), m))
  PROVE  NoneWaits(P, lc, E, X)
<1> USE Zenon
<1> DEFINE s == State(P, lc, E)
           b == last_committed_round(lc)
<1>1. \A x \in DOMAIN P : Round(x) \in Nat
  BY DagFacts
<1>2. ASSUME NEW m \in E, Electable(m), Round(m) > b, X # <<>> => Round(m) > Round(X[Len(X)])
      PROVE  ~ IsValidity(Support(s, m))
  <2>0. m \in DOMAIN P /\ Round(m) \in Nat /\ Round(c) \in Nat /\ b \in Nat
    <3>1. m \in DOMAIN P
      BY SMT
    <3>2. b \in Nat
      BY LastRound
    <3> QED BY <1>1, <3>1, <3>2
  <2>1. CASE Round(m) = Round(c) - 1
    <3>1. ASSUME Elects(s, c, X)
          PROVE  FALSE
      <4>1. X # <<>> /\ X[Len(X)] = leader(Round(c) - 1) /\ Round(leader(Round(c) - 1)) = Round(c) - 1
        BY <3>1 DEF Elects, ChainFrom
      <4>2. Round(m) > Round(c) - 1
        BY <1>2, <4>1
      <4> QED BY <2>0, <2>1, <4>2, SMT
    <3> QED BY <1>2, <2>1, <3>1
  <2>2. CASE Round(m) # Round(c) - 1 /\ m \in dg
    <3>1. Support(s, m) = Support(State(P, lc, dg), m)
      <4>1. Round(c) # Round(m) + 1
        BY <2>0, <2>2, SMT
      <4>2. s.dag = dg \cup {c} /\ State(P, lc, dg).dag = dg /\ s.parents = P /\ State(P, lc, dg).parents = P
        BY DEF State
      <4> HIDE DEF s
      <4>3. Layer(s, Round(m) + 1) = Layer(State(P, lc, dg), Round(m) + 1)
        BY <4>1, <4>2 DEF Layer
      <4> QED BY <4>2, <4>3 DEF Support
    <3>2. ~ IsValidity(Support(State(P, lc, dg), m))
      BY <1>2, <2>2 DEF NoneWaits
    <3> QED BY <3>1, <3>2
  <2>3. CASE m \notin dg
    <3>1. m = c
      BY <2>3
    <3>2. ~ Settled(lc, c)
      <4>1. ~ (Round(c) <= b)
        BY <1>2, <2>0, <3>1, SMT
      <4> QED BY <4>1, SettledFacts
    <3>3. \A y \in dg : c \notin P[y]
      BY <2>3, <3>1, <3>2
    <3>4. Support(s, c) = {}
      <4>1. Round(c) # Round(c) + 1
        BY <2>0, SMT
      <4>2. s.dag = dg \cup {c} /\ s.parents = P
        BY DEF State
      <4> HIDE DEF s
      <4>3. {y \in Layer(s, Round(c) + 1) : c \in P[y]} = {}
        BY <3>3, <4>1, <4>2 DEF Layer
      <4> QED BY <4>2, <4>3 DEF Support
    <3> QED BY <3>1, <3>4, NoValidity
  <2> QED BY <2>1, <2>2, <2>3
<1> QED BY <1>2 DEF NoneWaits

\* The chain of the elected leader continues the leaders committed.
LEMMA ElectElected ==
  ASSUME Library,
         NEW P \in Dags, NEW lc, NEW E \in SUBSET DOMAIN P, NEW c, NEW sd, Committed(P, lc, sd),
         \A x \in E : \A p \in P[x] : p \in E \/ Settled(lc, p),
         NEW X, Elects(State(P, lc, E), c, X), Elected(P, Leaders(sd, <<>>), Len(sd))
  PROVE  Elected(P, Leaders(sd, X), Len(sd) + Len(X))
<1> USE Zenon
<1> DEFINE s == State(P, lc, E)
           b == last_committed_round(lc)
           K == Leaders(sd, <<>>)
           L == Leaders(sd, X)
           n == Len(sd)
           N == n + Len(X)
           l == leader(Round(c) - 1)
<1>1. lc \in LastCommits /\ sd \in Seq(SubDags(P)) /\ b = LastLeaderRound(sd)
  BY DEF Committed
<1>2. s.dag = E /\ s.lc = lc
  BY DEF State
<1>3. ChainFrom(s, l, X, b + 2) /\ IsValidity(Support(s, l))
  BY <1>2 DEF Elects
<1> HIDE DEF s
<1>4. /\ X \in Seq(E) /\ X # <<>> /\ X[Len(X)] = l
      /\ \A i \in DOMAIN X : Electable(X[i]) /\ Round(X[i]) >= b + 2
      /\ \A i, j \in DOMAIN X : i < j => Round(X[i]) < Round(X[j])
      /\ \A i \in DOMAIN X : i > 1 => linked(s, X[i], X[i - 1])
      /\ \A i \in DOMAIN X : \A m \in E :
           /\ Electable(m) /\ b + 2 <= Round(m) /\ Round(m) < Round(X[i])
           /\ i > 1 => Round(X[i - 1]) < Round(m)
           => ~ linked(s, X[i], m)
  BY <1>2, <1>3 DEF ChainFrom
<1>5. n \in Nat /\ Len(X) \in Nat /\ Len(X) > 0 /\ DOMAIN X = 1..Len(X) /\ N \in Nat /\ N > 0
  BY <1>1, <1>4, SMT
<1>6. /\ \A i \in 1..n : K[i] = sd[i].leader /\ L[i] = sd[i].leader
      /\ \A j \in 1..Len(X) : L[n + j] = X[j]
  <2>1. \A i \in 1..n : K[i] = sd[i].leader
    BY <1>5, SMT DEF Leaders
  <2>2. L = [i \in 1..(n + Len(X)) |-> IF i <= n THEN sd[i].leader ELSE X[i - n]]
    BY DEF Leaders
  <2>3. \A i \in 1..n : i \in 1..(n + Len(X)) /\ i <= n
    BY <1>5, SMT
  <2>4. \A j \in 1..Len(X) : n + j \in 1..(n + Len(X)) /\ ~ (n + j <= n) /\ (n + j) - n = j
    BY <1>5, SMT
  <2> HIDE DEF L, n
  <2>5. \A i \in 1..n : L[i] = sd[i].leader
    BY <2>2, <2>3
  <2>6. ASSUME NEW j \in 1..Len(X)
        PROVE  L[n + j] = X[j]
    BY <2>2, <2>4
  <2> QED BY <2>1, <2>5, <2>6
<1>7. /\ \A i \in 1..n : IsLeader(P, K[i])
      /\ \A i \in 1..n : i > 1 => linked(Whole(P), K[i], K[i - 1]) /\ Round(K[i - 1]) < Round(K[i])
      /\ \A i \in 1..n : \A m \in DOMAIN P :
           Electable(m) /\ Round(m) < Round(K[i]) /\ (i > 1 => Round(K[i - 1]) < Round(m))
             => ~ linked(Whole(P), K[i], m)
      /\ n > 0 => IsValidity(Support(Whole(P), K[n]))
  BY DEF Elected, Linked
<1> HIDE DEF K, L, N, l, b, n
<1>8. \A x \in DOMAIN P : Round(x) \in Nat
  BY DagFacts
<1>9. b \in Nat /\ b % 2 = 0
  BY <1>1, LastRound, LastRoundEven DEF b
<1>10. n > 0 => b = Round(K[n])
  <2>1. SUFFICES ASSUME n > 0
                 PROVE  b = Round(K[n])
    BY SMT
  <2>2. sd # <<>> /\ n \in 1..n
    BY <1>1, <1>5, <2>1, SMT DEF n
  <2> QED BY <1>1, <1>6, <2>2 DEF LastLeaderRound, n
<1>11. n = 0 => b = 0
  <2>1. n = 0 => sd = <<>>
    BY <1>1, SMT DEF n
  <2> QED BY <1>1, <2>1 DEF LastLeaderRound
<1>12. ASSUME NEW j \in 1..Len(X)
       PROVE  X[j] \in E /\ X[j] \in DOMAIN P /\ Round(X[j]) \in Nat /\ Electable(X[j]) /\ Round(X[j]) >= b + 2
  <2>1. X[j] \in E
    BY <1>4, SMT
  <2>2. X[j] \in DOMAIN P /\ Round(X[j]) \in Nat
    BY <1>8, <2>1
  <2> QED BY <1>4, <1>5, <2>1, <2>2
<1>13. ASSUME NEW j \in 1..Len(X), NEW m \in DOMAIN P, Round(m) > b, Round(m) <= Round(X[j])
       PROVE  /\ linked(s, X[j], m) <=> linked(Whole(P), X[j], m)
              /\ linked(s, X[j], m) => m \in E
  BY <1>1, <1>12, <1>13, SameLinks DEF s, b
<1>14. ASSUME NEW j \in 1..Len(X)
       PROVE  /\ IsLeader(P, X[j])
              /\ j > 1 => linked(Whole(P), X[j], X[j - 1]) /\ Round(X[j - 1]) < Round(X[j])
              /\ j = 1 /\ n > 0 => linked(Whole(P), X[j], K[n]) /\ Round(K[n]) < Round(X[j])
  <2>1. IsLeader(P, X[j])
    BY <1>12 DEF IsLeader
  <2>2. ASSUME j > 1
        PROVE  linked(Whole(P), X[j], X[j - 1]) /\ Round(X[j - 1]) < Round(X[j])
    <3>1. j - 1 \in 1..Len(X) /\ j - 1 < j
      BY <2>2, SMT
    <3>2. linked(s, X[j], X[j - 1]) /\ Round(X[j - 1]) < Round(X[j])
      BY <1>4, <1>5, <2>2, <3>1
    <3>3. X[j - 1] \in DOMAIN P /\ Round(X[j - 1]) \in Nat /\ Round(X[j - 1]) >= b + 2
      BY <1>12, <3>1
    <3>4. Round(X[j - 1]) > b /\ Round(X[j - 1]) <= Round(X[j])
      BY <1>9, <1>12, <3>2, <3>3, SMT
    <3> QED BY <1>13, <3>2, <3>3, <3>4
  <2>3. ASSUME n > 0
        PROVE  linked(Whole(P), X[j], K[n]) /\ Round(K[n]) < Round(X[j])
    <3>1. K[n] \in DOMAIN P /\ IsValidity(Support(Whole(P), K[n]))
      <4>1. n \in 1..n
        BY <1>5, <2>3, SMT
      <4> QED BY <1>7, <2>3, <4>1 DEF IsLeader
    <3>2. Round(X[j]) >= Round(K[n]) + 2
      BY <1>10, <1>12, <2>3
    <3>3. linked(Whole(P), X[j], K[n])
      BY <1>12, <3>1, <3>2, SupportedIsReached
    <3>4. Round(K[n]) < Round(X[j])
      BY <1>8, <1>12, <3>1, <3>2, SMT
    <3> QED BY <3>3, <3>4
  <2> QED BY <2>1, <2>2, <2>3
<1>15. ASSUME NEW j \in 1..Len(X), NEW m \in DOMAIN P, Electable(m), Round(m) < Round(X[j]),
              j > 1 => Round(X[j - 1]) < Round(m), j = 1 /\ n > 0 => Round(K[n]) < Round(m)
       PROVE  ~ linked(Whole(P), X[j], m)
  <2>1. Round(m) \in Nat /\ Round(m) > 0 /\ Round(m) % 2 = 0
    BY <1>15, DagFacts DEF Electable
  <2>2. Round(m) > b
    <3>1. CASE j > 1
      <4>1. j - 1 \in 1..Len(X)
        BY <3>1, SMT
      <4>2. Round(X[j - 1]) \in Nat /\ Round(X[j - 1]) >= b + 2 /\ Round(X[j - 1]) < Round(m)
        BY <1>12, <1>15, <3>1, <4>1
      <4> QED BY <1>9, <2>1, <4>2, SMT
    <3>2. CASE j = 1 /\ n > 0
      BY <1>9, <1>10, <1>15, <2>1, <3>2
    <3>3. CASE j = 1 /\ n = 0
      BY <1>11, <2>1, <3>3
    <3> QED BY <1>5, <3>1, <3>2, <3>3, SMT
  <2>3. b + 2 <= Round(m) /\ Round(m) <= Round(X[j])
    <3>1. \A x, y \in Nat : x % 2 = 0 /\ y % 2 = 0 /\ x > y => y + 2 <= x
      BY SMT
    <3>2. b + 2 <= Round(m)
      BY <1>9, <2>1, <2>2, <3>1
    <3>3. Round(m) <= Round(X[j])
      BY <1>12, <1>15, <2>1, SMT
    <3> QED BY <3>2, <3>3
  <2>4. ASSUME m \in E
        PROVE  ~ linked(s, X[j], m)
    BY <1>4, <1>5, <1>15, <2>3, <2>4
  <2> QED BY <1>13, <2>2, <2>3, <2>4
<1>16. ASSUME NEW i \in 1..N
       PROVE  \/ i \in 1..n /\ L[i] = K[i] /\ (i > 1 => L[i - 1] = K[i - 1])
              \/ \E j \in 1..Len(X) :
                   /\ L[i] = X[j]
                   /\ \/ j > 1 /\ i > 1 /\ L[i - 1] = X[j - 1]
                      \/ j = 1 /\ n > 0 /\ i > 1 /\ L[i - 1] = K[n]
                      \/ j = 1 /\ n = 0 /\ ~ (i > 1)
  <2>1. CASE i <= n
    <3>1. i \in 1..n /\ (i > 1 => i - 1 \in 1..n)
      BY <1>5, <2>1, SMT
    <3> QED BY <1>6, <3>1
  <2>2. CASE ~ (i <= n)
    <3> DEFINE j == i - n
    <3>1. j \in 1..Len(X) /\ n + j = i
      BY <1>5, <2>2, SMT DEF N
    <3>2. L[i] = X[j]
      BY <1>6, <3>1
    <3>3. CASE j > 1
      <4>1. j - 1 \in 1..Len(X) /\ n + (j - 1) = i - 1 /\ i > 1
        BY <1>5, <3>1, <3>3, SMT
      <4>2. L[i - 1] = X[j - 1]
        BY <1>6, <4>1
      <4> HIDE DEF j
      <4> QED BY <3>1, <3>2, <3>3, <4>1, <4>2
    <3>4. CASE j = 1 /\ n > 0
      <4>1. n \in 1..n /\ i - 1 = n /\ i > 1
        BY <1>5, <3>1, <3>4, SMT
      <4>2. L[i - 1] = K[n]
        BY <1>6, <4>1
      <4> HIDE DEF j
      <4> QED BY <3>1, <3>2, <3>4, <4>1, <4>2
    <3>5. CASE j = 1 /\ n = 0
      <4>1. ~ (i > 1)
        BY <3>1, <3>5, SMT
      <4> HIDE DEF j
      <4> QED BY <3>1, <3>2, <3>5, <4>1
    <3>6. j > 1 \/ (j = 1 /\ n > 0) \/ (j = 1 /\ n = 0)
      BY <1>5, <3>1, SMT
    <3> QED BY <3>3, <3>4, <3>5, <3>6
  <2> QED BY <2>1, <2>2
<1>17. ASSUME NEW i \in 1..N
       PROVE  /\ IsLeader(P, L[i])
              /\ i > 1 => linked(Whole(P), L[i], L[i - 1]) /\ Round(L[i - 1]) < Round(L[i])
  <2>1. CASE i \in 1..n /\ L[i] = K[i] /\ (i > 1 => L[i - 1] = K[i - 1])
    BY <1>7, <2>1
  <2>2. ASSUME NEW j \in 1..Len(X), L[i] = X[j],
               \/ j > 1 /\ i > 1 /\ L[i - 1] = X[j - 1]
               \/ j = 1 /\ n > 0 /\ i > 1 /\ L[i - 1] = K[n]
               \/ j = 1 /\ n = 0 /\ ~ (i > 1)
        PROVE  /\ IsLeader(P, L[i])
               /\ i > 1 => linked(Whole(P), L[i], L[i - 1]) /\ Round(L[i - 1]) < Round(L[i])
    BY <1>14, <2>2
  <2> QED BY <1>16, <2>1, <2>2
<1>18. ASSUME NEW i \in 1..N, NEW m \in DOMAIN P, Electable(m), Round(m) < Round(L[i]),
              i > 1 => Round(L[i - 1]) < Round(m)
       PROVE  ~ linked(Whole(P), L[i], m)
  <2>1. CASE i \in 1..n /\ L[i] = K[i] /\ (i > 1 => L[i - 1] = K[i - 1])
    BY <1>7, <1>18, <2>1
  <2>2. ASSUME NEW j \in 1..Len(X), L[i] = X[j],
               \/ j > 1 /\ i > 1 /\ L[i - 1] = X[j - 1]
               \/ j = 1 /\ n > 0 /\ i > 1 /\ L[i - 1] = K[n]
               \/ j = 1 /\ n = 0 /\ ~ (i > 1)
        PROVE  ~ linked(Whole(P), L[i], m)
    <3>1. Round(m) < Round(X[j])
      BY <1>18, <2>2
    <3>2. j > 1 => Round(X[j - 1]) < Round(m)
      <4>1. j > 1 => j # 1
        BY SMT
      <4> QED BY <1>18, <2>2, <4>1
    <3>3. j = 1 /\ n > 0 => Round(K[n]) < Round(m)
      <4>1. /\ j = 1 => ~ (j > 1)
            /\ n > 0 => n # 0
        BY SMT
      <4> QED BY <1>18, <2>2, <4>1
    <3>4. ~ linked(Whole(P), X[j], m)
      BY <1>15, <1>18, <3>1, <3>2, <3>3
    <3> QED BY <2>2, <3>4
  <2> QED BY <1>16, <2>1, <2>2
<1>19. IsValidity(Support(Whole(P), L[N]))
  <2>1. Len(X) \in 1..Len(X)
    BY <1>5, SMT
  <2>2. L[N] = l
    BY <1>4, <1>6, <2>1 DEF N
  <2>3. IsValidity(Support(Whole(P), l))
    BY <1>3, SupportFacts DEF s
  <2> QED BY <2>2, <2>3
<1>20. Elected(P, L, N)
  BY <1>17, <1>18, <1>19 DEF Elected, Linked
<1> QED BY <1>20 DEF L, N, n

\* Consensus takes a certificate.
LEMMA ProcessSound ==
  ASSUME Library, NEW P \in Dags, NEW lc, NEW dg, NEW ch, NEW gc, NEW store, NEW sd,
         Sound(P, lc, dg, <<>>, ch, gc, store, sd), ch # <<>>,
         NEW c, c = Head(ch), NEW s, s = try_insert(State(P, lc, dg), c),
         NEW X, X = IF Round(c) <= s.lc[Author(c)] THEN <<>> ELSE elect(s, c)
  PROVE  Sound(P, lc, s.dag, X, Tail(ch), gc, store, sd)
<1> USE Zenon
<1> DEFINE E == dg \cup {c}
           D == s.dag
<1>1. /\ Held(P, lc, dg, ch, store) /\ Collected(P, lc, gc)
      /\ Committed(P, lc, sd) /\ Waiting(lc, dg, <<>>)
      /\ MaxRestarts = 0 => NoneWaits(P, lc, dg, <<>>)
      /\ Calm => Causal(P, sd) /\ Ordered(P, sd) /\ Elected(P, Leaders(sd, <<>>), Len(sd) + Len(<<>>))
  BY DEF Sound
<1>2. lc \in LastCommits /\ Len(sd) \in Nat
  <2>1. lc \in LastCommits /\ sd \in Seq(SubDags(P))
    BY <1>1 DEF Committed
  <2> QED BY <2>1, SMT
<1>3. /\ store \in SUBSET DOMAIN P /\ dg \in SUBSET store /\ ch \in Seq(store)
      /\ \A x \in dg : \A p \in P[x] : p \in dg \/ Settled(lc, p)
  BY <1>1 DEF Held
<1>4. c \in DOMAIN P /\ dg \in SUBSET DOMAIN P
  <2>1. Head(ch) \in store
    BY <1>3, SMT
  <2> QED BY <1>3, <2>1
<1>5. s.lc = lc /\ s = IF Round(c) <= lc[Author(c)] THEN State(P, lc, dg) ELSE State(P, lc, E)
  BY DEF try_insert, State
<1>6. State(P, lc, dg).dag = dg /\ State(P, lc, E).dag = E
  BY DEF State
<1>7. D = IF Round(c) <= lc[Author(c)] THEN dg ELSE dg \cup {c}
  BY <1>5, <1>6
<1>8. Held(P, lc, D, Tail(ch), store)
  BY <1>1, <1>2, <1>7, ProcessHeld
<1>9. CASE Round(c) <= lc[Author(c)]
  <2>1. D = dg /\ X = <<>>
    BY <1>5, <1>7, <1>9
  <2> QED BY <1>1, <1>8, <2>1 DEF Sound
<1>10. CASE ~ (Round(c) <= lc[Author(c)])
  <2>1. D = E /\ s = State(P, lc, E) /\ X = elect(s, c)
    BY <1>5, <1>7, <1>10
  <2>2. E \in SUBSET DOMAIN P /\ c \in E
    BY <1>4
  <2>3. last_committed_round(lc) % 2 = 0
    BY <1>1, LastRoundEven
  <2>4. \A x \in E : \A p \in P[x] : p \in E \/ Settled(lc, p)
    BY <1>8, <2>1 DEF Held
  <2> HIDE DEF E, D
  <2>5. \/ Elects(s, c, X)
        \/ /\ X = <<>>
           /\ \A m \in E : /\ Electable(m) /\ Round(m) = Round(c) - 1
                           /\ Round(m) > last_committed_round(lc)
                           => ~ IsValidity(Support(s, m))
    BY <1>2, <2>1, <2>2, <2>3, ElectFacts
  <2>6. MaxRestarts = 0 => NoneWaits(P, lc, E, X)
    <3>1. SUFFICES ASSUME MaxRestarts = 0
                   PROVE  NoneWaits(P, lc, E, X)
      BY SMT
    <3>2. NoneWaits(P, lc, dg, <<>>)
      BY <1>1, <3>1
    <3> QED BY <1>2, <1>3, <1>4, <2>1, <2>5, <3>2, ElectNoneWaits DEF E
  <2>7. Waiting(lc, E, X)
    <3>1. CASE Elects(s, c, X)
      BY <1>2, <2>1, <2>2, <3>1, ElectWaiting
    <3>2. CASE X = <<>>
      <4>1. <<>> \in Seq(E) /\ DOMAIN <<>> = {}
        BY EmptySeq, SMT
      <4> QED BY <3>2, <4>1 DEF Waiting
    <3> QED BY <2>5, <3>1, <3>2
  <2>8. ASSUME Calm
        PROVE  Causal(P, sd) /\ Ordered(P, sd) /\ Elected(P, Leaders(sd, X), Len(sd) + Len(X))
    <3>1. CASE Elects(s, c, X)
      <4>1. Len(sd) + Len(<<>>) = Len(sd)
        BY <1>2, SMT
      <4>2. Elected(P, Leaders(sd, <<>>), Len(sd))
        BY <1>1, <2>8, <4>1
      <4>3. Elected(P, Leaders(sd, X), Len(sd) + Len(X))
        BY <1>1, <2>1, <2>2, <2>4, <3>1, <4>2, ElectElected
      <4> QED BY <1>1, <2>8, <4>3
    <3>2. CASE X = <<>>
      BY <1>1, <2>8, <3>2
    <3> QED BY <2>5, <3>1, <3>2
  <2>9. Sound(P, lc, D, X, Tail(ch), gc, store, sd)
    BY <1>1, <1>8, <2>1, <2>6, <2>7, <2>8 DEF Sound
  <2> QED BY <2>9 DEF D
<1> QED BY <1>9, <1>10

\* Every round up to the elected leader is in the dag.
LEMMA SoundHistory ==
  ASSUME Library, NEW P \in Dags, NEW lc, NEW dg, NEW tc, NEW ch, NEW gc, NEW store, NEW sd,
         Sound(P, lc, dg, tc, ch, gc, store, sd), tc # <<>>,
         NEW r \in (last_committed_round(lc) + 1)..Round(tc[Len(tc)])
  PROVE  Layer(State(P, lc, dg), r) # {}
<1> USE Zenon
<1> DEFINE s == State(P, lc, dg)
           b == last_committed_round(lc)
           l == tc[Len(tc)]
           n == Round(l) - r
<1>1. /\ lc \in LastCommits /\ store \in SUBSET DOMAIN P /\ dg \in SUBSET store
      /\ \A x \in dg : \A p \in P[x] : p \in dg \/ Settled(lc, p)
  BY DEF Sound, Held, Committed
<1>2. tc \in Seq(dg)
  BY DEF Sound, Waiting
<1>3. l \in dg /\ l \in DOMAIN P
  BY <1>1, <1>2, SMT
<1>4. s.parents = P /\ s.dag = dg
  BY DEF State
<1>5. b \in Nat /\ Round(l) \in Nat
  BY <1>1, <1>3, LastRound, DagFacts
<1>6. n \in Nat /\ Round(l) - n = r /\ r > b /\ n < Round(l) /\ n \in 0..n
  BY <1>5, SMT
<1>7. \A x \in dg : \A p \in P[x] : p \in dg \/ Round(p) <= b
  <2>1. SUFFICES ASSUME NEW x \in dg, NEW p \in P[x], Settled(lc, p)
                 PROVE  Round(p) <= b
    BY <1>1
  <2>2. x \in DOMAIN P
    BY <1>1
  <2>3. p \in DOMAIN P
    BY <2>1, <2>2, DagFacts
  <2> QED BY <1>1, <2>1, <2>3, SettledFacts
<1> HIDE DEF s, b, l, n
<1>8. s.dag \subseteq DOMAIN P /\ l \in s.dag /\ \A x \in s.dag : \A p \in P[x] : p \in s.dag \/ Round(p) <= b
  BY <1>1, <1>3, <1>4, <1>7
<1>9. Round(l) - n > b
  BY <1>6
<1>10. \A k \in 0..n : Reached(s, l, n)[k] = Reached(Whole(P), l, n)[k]
  BY <1>4, <1>5, <1>6, <1>8, <1>9, SamePaths, SMT
<1>11. Reached(Whole(P), l, n)[n] # {}
  BY <1>3, <1>6, PathsGoDown
<1>12. PICK x : x \in Reached(s, l, n)[n]
  BY <1>6, <1>10, <1>11
<1>13. \A k \in 0..n : \A y \in Reached(s, l, n)[k] : y \in s.dag /\ Round(y) = Round(l) - k
  <2>1. Round(l) \in Int
    BY <1>5, SMT
  <2> QED BY <1>6, <1>8, <2>1, ReachedIn, SMT
<1>14. x \in s.dag /\ Round(x) = r
  BY <1>6, <1>12, <1>13
<1>15. Layer(s, r) # {}
  BY <1>14 DEF Layer
<1> QED BY <1>15 DEF s

-----------------------------------------------------------------------------
(* The inductive invariant.                                                *)

Valid(v) ==
  /\ Sound(parents, last_committed[v], dag[v], to_commit[v], channel[v], gc_round[v],
           cert_store[v], committed_sub_dags[v])
  /\ stored_last_committed[v] = last_committed[v]

Inv == TypeOK /\ \A v \in Validators : Valid(v)

\* What was committed by v stays committed.
FinalFor(v) ==
  /\ \A i \in DOMAIN committed_sub_dags[v] :
       i \in DOMAIN committed_sub_dags'[v] /\ committed_sub_dags'[v][i] = committed_sub_dags[v][i]
  /\ \A a \in Authorities : last_committed'[v][a] >= last_committed[v][a]

\* v's state is what it was.
Same(v) ==
  /\ last_committed'[v] = last_committed[v] /\ dag'[v] = dag[v] /\ to_commit'[v] = to_commit[v]
  /\ channel'[v] = channel[v] /\ gc_round'[v] = gc_round[v] /\ cert_store'[v] = cert_store[v]
  /\ stored_last_committed'[v] = stored_last_committed[v]
  /\ committed_sub_dags'[v] = committed_sub_dags[v]

\* A value of a function changes.
LEMMA Updated ==
  ASSUME NEW V, NEW S, NEW f \in [V -> S], NEW v \in V, NEW e \in S, NEW g, g = [f EXCEPT ![v] = e]
  PROVE  g \in [V -> S] /\ g[v] = e /\ \A w \in V : w # v => g[w] = f[w]
OBVIOUS

\* The types of the parts.
LEMMA TypedParts ==
  TypeOK <=> /\ parents \in Dags
             /\ last_committed \in [Validators -> LastCommits]
             /\ stored_last_committed \in [Validators -> LastCommits]
             /\ dag \in [Validators -> SUBSET DOMAIN parents]
             /\ cert_store \in [Validators -> SUBSET DOMAIN parents]
             /\ dropped \in [Validators -> SUBSET DOMAIN parents]
             /\ to_commit \in [Validators -> Seq(DOMAIN parents)]
             /\ channel \in [Validators -> Seq(DOMAIN parents)]
             /\ gc_round \in [Validators -> Nat]
             /\ committed_sub_dags \in [Validators -> Seq(SubDags(parents))]
             /\ restarts \in 0..MaxRestarts
BY Zenon DEF TypeOK, LastCommits, SubDags, Certs

\* What holds of a validator gives the types of its parts.
LEMMA SoundTyped ==
  ASSUME NEW P \in Dags, NEW lc, NEW dg, NEW tc, NEW ch, NEW gc, NEW store, NEW sd,
         Sound(P, lc, dg, tc, ch, gc, store, sd)
  PROVE  /\ lc \in LastCommits /\ dg \in SUBSET DOMAIN P /\ store \in SUBSET DOMAIN P
         /\ tc \in Seq(DOMAIN P) /\ ch \in Seq(DOMAIN P) /\ gc \in Nat /\ sd \in Seq(SubDags(P))
<1> USE Zenon
<1>1. /\ store \in SUBSET DOMAIN P /\ dg \in SUBSET store /\ ch \in Seq(store) /\ tc \in Seq(dg)
      /\ gc \in Nat /\ lc \in LastCommits /\ sd \in Seq(SubDags(P))
  BY DEF Sound, Held, Collected, Committed, Waiting
<1>2. dg \in SUBSET DOMAIN P
  BY <1>1
<1>3. tc \in Seq(DOMAIN P) /\ ch \in Seq(DOMAIN P)
  BY <1>1, <1>2, SMT
<1> QED BY <1>1, <1>2, <1>3

\* A validator that does nothing.
LEMMA SameValid ==
  ASSUME NEW w \in Validators, parents' = parents, Same(w)
  PROVE  Valid(w) => Valid(w)'
BY Zenon DEF Valid, Same

\* A validator that commits nothing takes nothing back.
LEMMA SameFinal ==
  ASSUME TypeOK, NEW w \in Validators, last_committed'[w] = last_committed[w],
         committed_sub_dags'[w] = committed_sub_dags[w]
  PROVE  FinalFor(w)
<1>1. last_committed[w] \in LastCommits
  BY TypedParts, Zenon
<1>2. \A a \in Authorities : last_committed[w][a] >= last_committed[w][a]
  BY <1>1 DEF LastCommits
<1> QED BY <1>2, Zenon DEF FinalFor

\* A step of one validator.
LEMMA OneMoves ==
  ASSUME Inv, TypeOK', parents' = parents, NEW v \in Validators,
         \A w \in Validators : w # v => Same(w), Valid(v)', FinalFor(v)
  PROVE  Inv' /\ \A w \in Validators : FinalFor(w)
<1> USE Zenon
<1>1. TypeOK /\ \A w \in Validators : Valid(w)
  BY DEF Inv
<1>2. ASSUME NEW w \in Validators
      PROVE  Valid(w)' /\ FinalFor(w)
  <2>1. CASE w = v
    BY <2>1
  <2>2. CASE w # v
    <3>1. Same(w)
      BY <2>2
    <3>2. last_committed'[w] = last_committed[w] /\ committed_sub_dags'[w] = committed_sub_dags[w]
      BY <3>1 DEF Same
    <3> QED BY <1>1, <3>1, <3>2, SameValid, SameFinal
  <2> QED BY <2>1, <2>2
<1> QED BY <1>2 DEF Inv

\* AcceptCertificate.
LEMMA AcceptKeeps ==
  ASSUME Library, Inv, NEW v \in Validators, NEW c \in Certs, AcceptCertificate(v, c)
  PROVE  Inv' /\ \A w \in Validators : FinalFor(w)
<1> USE Zenon
<1>1. TypeOK /\ Valid(v)
  BY DEF Inv
<1>2. /\ parents \in Dags
      /\ cert_store \in [Validators -> SUBSET DOMAIN parents]
      /\ channel \in [Validators -> Seq(DOMAIN parents)]
  BY <1>1, TypedParts
<1>3. /\ parents' = parents /\ last_committed' = last_committed /\ dag' = dag /\ to_commit' = to_commit
      /\ gc_round' = gc_round /\ dropped' = dropped /\ restarts' = restarts
      /\ stored_last_committed' = stored_last_committed /\ committed_sub_dags' = committed_sub_dags
      /\ Round(c) <= gc_round[v] + 1 \/ parents[c] \subseteq cert_store[v]
      /\ cert_store' = [cert_store EXCEPT ![v] = cert_store[v] \cup {c}]
  BY DEF AcceptCertificate
<1>4. PICK n \in 1..MaxDeliveries : channel' = [channel EXCEPT ![v] = channel[v] \o [i \in 1..n |-> c]]
  BY DEF AcceptCertificate
<1>5. n \in Nat /\ n >= 1
  BY BullsharkAssumption, SMT
<1> DEFINE C == channel[v] \o [i \in 1..n |-> c]
           S == cert_store[v] \cup {c}
<1>6. Sound(parents, last_committed[v], dag[v], to_commit[v], C, gc_round[v], S, committed_sub_dags[v])
  <2>1. c \in DOMAIN parents
    BY DEF Certs
  <2>2. Sound(parents, last_committed[v], dag[v], to_commit[v], channel[v], gc_round[v],
              cert_store[v], committed_sub_dags[v])
    BY <1>1 DEF Valid
  <2> QED BY <1>2, <1>3, <1>5, <2>1, <2>2, AcceptSound
<1>7. C \in Seq(DOMAIN parents) /\ S \in SUBSET DOMAIN parents
  BY <1>2, <1>6, SoundTyped, SMT
<1> HIDE DEF C, S
<1>8. channel' \in [Validators -> Seq(DOMAIN parents)] /\ channel'[v] = C
      /\ \A w \in Validators : w # v => channel'[w] = channel[w]
  BY <1>2, <1>4, <1>7, Updated DEF C
<1>9. cert_store' \in [Validators -> SUBSET DOMAIN parents] /\ cert_store'[v] = S
      /\ \A w \in Validators : w # v => cert_store'[w] = cert_store[w]
  BY <1>2, <1>3, <1>7, Updated DEF S
<1>10. TypeOK'
  <2>1. /\ parents \in Dags
        /\ last_committed \in [Validators -> LastCommits]
        /\ stored_last_committed \in [Validators -> LastCommits]
        /\ dag \in [Validators -> SUBSET DOMAIN parents]
        /\ dropped \in [Validators -> SUBSET DOMAIN parents]
        /\ to_commit \in [Validators -> Seq(DOMAIN parents)]
        /\ gc_round \in [Validators -> Nat]
        /\ committed_sub_dags \in [Validators -> Seq(SubDags(parents))]
        /\ restarts \in 0..MaxRestarts
    BY <1>1, TypedParts
  <2> QED BY <1>3, <1>8, <1>9, <2>1 DEF TypeOK, LastCommits, SubDags, Certs
<1>11. Valid(v)' /\ FinalFor(v)
  <2>1. Valid(v)'
    BY <1>1, <1>3, <1>6, <1>8, <1>9 DEF Valid
  <2>2. FinalFor(v)
    BY <1>1, <1>3, SameFinal
  <2> QED BY <2>1, <2>2
<1>12. \A w \in Validators : w # v => Same(w)
  BY <1>3, <1>8, <1>9 DEF Same
<1> QED BY <1>3, <1>10, <1>11, <1>12, OneMoves

\* DropCertificate.
LEMMA DropKeeps ==
  ASSUME Inv, NEW v \in Validators, NEW c \in Certs, DropCertificate(v, c)
  PROVE  Inv' /\ \A w \in Validators : FinalFor(w)
<1> USE Zenon
<1>1. TypeOK /\ Valid(v)
  BY DEF Inv
<1>2. /\ parents' = parents /\ last_committed' = last_committed /\ dag' = dag /\ to_commit' = to_commit
      /\ channel' = channel /\ gc_round' = gc_round /\ cert_store' = cert_store /\ restarts' = restarts
      /\ stored_last_committed' = stored_last_committed /\ committed_sub_dags' = committed_sub_dags
      /\ dropped' = [dropped EXCEPT ![v] = dropped[v] \cup {c}]
  BY DEF DropCertificate, durable
<1>3. TypeOK'
  <2>1. /\ parents \in Dags
        /\ last_committed \in [Validators -> LastCommits]
        /\ stored_last_committed \in [Validators -> LastCommits]
        /\ dag \in [Validators -> SUBSET DOMAIN parents]
        /\ cert_store \in [Validators -> SUBSET DOMAIN parents]
        /\ dropped \in [Validators -> SUBSET DOMAIN parents]
        /\ to_commit \in [Validators -> Seq(DOMAIN parents)]
        /\ channel \in [Validators -> Seq(DOMAIN parents)]
        /\ gc_round \in [Validators -> Nat]
        /\ committed_sub_dags \in [Validators -> Seq(SubDags(parents))]
        /\ restarts \in 0..MaxRestarts
    BY <1>1, TypedParts
  <2>2. dropped[v] \cup {c} \in SUBSET DOMAIN parents
    BY <2>1 DEF Certs
  <2>3. dropped' \in [Validators -> SUBSET DOMAIN parents]
    BY <1>2, <2>1, <2>2, Updated
  <2> QED BY <1>2, <2>1, <2>3 DEF TypeOK, LastCommits, SubDags, Certs
<1>4. \A w \in Validators : Same(w)
  BY <1>2 DEF Same
<1>5. Valid(v)' /\ FinalFor(v)
  BY <1>1, <1>2, <1>4, SameValid, SameFinal
<1> QED BY <1>2, <1>3, <1>4, <1>5, OneMoves

\* ProcessCertificate.
LEMMA ProcessKeeps ==
  ASSUME Library, Inv, NEW v \in Validators, ProcessCertificate(v)
  PROVE  Inv' /\ \A w \in Validators : FinalFor(w)
<1> USE Zenon
<1> DEFINE c == Head(channel[v])
           t == State(parents, last_committed[v], dag[v])
           s == try_insert(t, c)
           X == IF Round(c) <= s.lc[Author(c)] THEN <<>> ELSE elect(s, c)
           D == s.dag
           C == Tail(channel[v])
<1>1. TypeOK /\ Valid(v)
  BY DEF Inv
<1>2. /\ parents' = parents /\ last_committed' = last_committed
      /\ gc_round' = gc_round /\ cert_store' = cert_store /\ restarts' = restarts
      /\ dropped' = dropped
      /\ stored_last_committed' = stored_last_committed /\ committed_sub_dags' = committed_sub_dags
      /\ to_commit[v] = <<>> /\ channel[v] # <<>>
  BY DEF ProcessCertificate, durable
<1>3. StateOf(v) = t
  BY DEF StateOf, State
<1> HIDE DEF t
<1>4. /\ dag' = [dag EXCEPT ![v] = D] /\ to_commit' = [to_commit EXCEPT ![v] = X]
      /\ channel' = [channel EXCEPT ![v] = C]
  BY <1>3 DEF ProcessCertificate
<1>5. parents \in Dags
  BY <1>1, TypedParts
<1> HIDE DEF c, X, s, D, C
<1>6. Sound(parents, last_committed[v], D, X, C, gc_round[v], cert_store[v], committed_sub_dags[v])
  <2>1. Sound(parents, last_committed[v], dag[v], <<>>, channel[v], gc_round[v],
              cert_store[v], committed_sub_dags[v])
    BY <1>1, <1>2 DEF Valid
  <2> QED BY <1>2, <1>5, <2>1, ProcessSound DEF c, t, s, X, D, C
<1>7. D \in SUBSET DOMAIN parents /\ X \in Seq(DOMAIN parents) /\ C \in Seq(DOMAIN parents)
  BY <1>5, <1>6, SoundTyped, SMT
<1>8. /\ dag \in [Validators -> SUBSET DOMAIN parents] /\ to_commit \in [Validators -> Seq(DOMAIN parents)]
      /\ channel \in [Validators -> Seq(DOMAIN parents)]
  BY <1>1, TypedParts
<1>9. /\ dag' \in [Validators -> SUBSET DOMAIN parents] /\ dag'[v] = D
      /\ \A w \in Validators : w # v => dag'[w] = dag[w]
  BY <1>4, <1>7, <1>8, Updated
<1>10. /\ to_commit' \in [Validators -> Seq(DOMAIN parents)] /\ to_commit'[v] = X
       /\ \A w \in Validators : w # v => to_commit'[w] = to_commit[w]
  BY <1>4, <1>7, <1>8, Updated
<1>11. /\ channel' \in [Validators -> Seq(DOMAIN parents)] /\ channel'[v] = C
       /\ \A w \in Validators : w # v => channel'[w] = channel[w]
  BY <1>4, <1>7, <1>8, Updated
<1>12. TypeOK'
  <2>1. /\ parents \in Dags
        /\ last_committed \in [Validators -> LastCommits]
        /\ stored_last_committed \in [Validators -> LastCommits]
        /\ dag \in [Validators -> SUBSET DOMAIN parents]
        /\ cert_store \in [Validators -> SUBSET DOMAIN parents]
        /\ dropped \in [Validators -> SUBSET DOMAIN parents]
        /\ to_commit \in [Validators -> Seq(DOMAIN parents)]
        /\ channel \in [Validators -> Seq(DOMAIN parents)]
        /\ gc_round \in [Validators -> Nat]
        /\ committed_sub_dags \in [Validators -> Seq(SubDags(parents))]
        /\ restarts \in 0..MaxRestarts
    BY <1>1, TypedParts
  <2> QED BY <1>2, <1>9, <1>10, <1>11, <2>1 DEF TypeOK, LastCommits, SubDags, Certs
<1>13. Valid(v)'
  BY <1>1, <1>2, <1>6, <1>9, <1>10, <1>11 DEF Valid
<1>14. FinalFor(v)
  BY <1>1, <1>2, SameFinal
<1>15. \A w \in Validators : w # v => Same(w)
  BY <1>2, <1>9, <1>10, <1>11 DEF Same
<1> QED BY <1>2, <1>12, <1>13, <1>14, <1>15, OneMoves

\* UpdateGcRound.
LEMMA UpdateGcKeeps ==
  ASSUME Library, Inv, NEW v \in Validators, UpdateGcRound(v)
  PROVE  Inv' /\ \A w \in Validators : FinalFor(w)
<1> USE Zenon
<1> DEFINE g == saturating_sub(last_committed_round(last_committed[v]), GcDepth)
<1>1. TypeOK /\ Valid(v)
  BY DEF Inv
<1>2. /\ parents' = parents /\ last_committed' = last_committed /\ dag' = dag /\ to_commit' = to_commit
      /\ channel' = channel /\ dropped' = dropped /\ cert_store' = cert_store /\ restarts' = restarts
      /\ stored_last_committed' = stored_last_committed /\ committed_sub_dags' = committed_sub_dags
      /\ gc_round' = [gc_round EXCEPT ![v] = g]
  BY DEF UpdateGcRound, durable
<1>3. parents \in Dags /\ gc_round \in [Validators -> Nat]
  BY <1>1, TypedParts
<1> HIDE DEF g
<1>4. Sound(parents, last_committed[v], dag[v], to_commit[v], channel[v], g,
            cert_store[v], committed_sub_dags[v])
  <2>1. Sound(parents, last_committed[v], dag[v], to_commit[v], channel[v], gc_round[v],
              cert_store[v], committed_sub_dags[v])
    BY <1>1 DEF Valid
  <2> QED BY <1>3, <2>1, GcSound DEF g
<1>5. g \in Nat
  BY <1>3, <1>4, SoundTyped
<1>6. /\ gc_round' \in [Validators -> Nat] /\ gc_round'[v] = g
      /\ \A w \in Validators : w # v => gc_round'[w] = gc_round[w]
  BY <1>2, <1>3, <1>5, Updated
<1>7. TypeOK'
  <2>1. /\ parents \in Dags
        /\ last_committed \in [Validators -> LastCommits]
        /\ stored_last_committed \in [Validators -> LastCommits]
        /\ dag \in [Validators -> SUBSET DOMAIN parents]
        /\ cert_store \in [Validators -> SUBSET DOMAIN parents]
        /\ dropped \in [Validators -> SUBSET DOMAIN parents]
        /\ to_commit \in [Validators -> Seq(DOMAIN parents)]
        /\ channel \in [Validators -> Seq(DOMAIN parents)]
        /\ gc_round \in [Validators -> Nat]
        /\ committed_sub_dags \in [Validators -> Seq(SubDags(parents))]
        /\ restarts \in 0..MaxRestarts
    BY <1>1, TypedParts
  <2> QED BY <1>2, <1>6, <2>1 DEF TypeOK, LastCommits, SubDags, Certs
<1>8. Valid(v)'
  BY <1>1, <1>2, <1>4, <1>6 DEF Valid
<1>9. FinalFor(v)
  BY <1>1, <1>2, SameFinal
<1>10. \A w \in Validators : w # v => Same(w)
  BY <1>2, <1>6 DEF Same
<1> QED BY <1>2, <1>7, <1>8, <1>9, <1>10, OneMoves

\* CommitLeader.
LEMMA CommitKeeps ==
  ASSUME Library, Inv, NEW v \in Validators, CommitLeader(v)
  PROVE  Inv' /\ \A w \in Validators : FinalFor(w)
<1> USE Zenon
<1> DEFINE l == Head(to_commit[v])
           t == State(parents, last_committed[v], dag[v])
           o == order_dag(t, l)
           u == update(t, Range(o))
           ld == u.lc
           D == u.dag
           T == Tail(to_commit[v])
           se == Append(committed_sub_dags[v], [leader |-> l, certificates |-> o])
<1>1. TypeOK /\ Valid(v)
  BY DEF Inv
<1>2. /\ parents' = parents /\ channel' = channel /\ gc_round' = gc_round
      /\ dropped' = dropped /\ cert_store' = cert_store /\ restarts' = restarts
      /\ to_commit[v] # <<>>
  BY DEF CommitLeader
<1>3. StateOf(v) = t
  BY DEF StateOf, State
<1> HIDE DEF t
<1>4. /\ last_committed' = [last_committed EXCEPT ![v] = ld] /\ dag' = [dag EXCEPT ![v] = D]
      /\ stored_last_committed' = [stored_last_committed EXCEPT ![v] = ld]
      /\ committed_sub_dags' = [committed_sub_dags EXCEPT ![v] = se]
      /\ to_commit' = [to_commit EXCEPT ![v] = T]
  BY <1>3 DEF CommitLeader
<1>5. parents \in Dags
  BY <1>1, TypedParts
<1> HIDE DEF l, o, u, ld, D, T, se
<1>6. /\ Sound(parents, ld, D, T, channel[v], gc_round[v], cert_store[v], se)
      /\ \A a \in Authorities : last_committed[v][a] <= ld[a]
      /\ Longer(parents, committed_sub_dags[v], se, l, o)
  <2>1. Sound(parents, last_committed[v], dag[v], to_commit[v], channel[v], gc_round[v],
              cert_store[v], committed_sub_dags[v])
    BY <1>1 DEF Valid
  <2> QED BY <1>2, <1>5, <2>1, CommitSound DEF l, t, o, u, ld, D, T, se
<1>7. /\ ld \in LastCommits /\ D \in SUBSET DOMAIN parents /\ T \in Seq(DOMAIN parents)
      /\ se \in Seq(SubDags(parents))
  BY <1>5, <1>6, SoundTyped, SMT
<1>8. /\ dag \in [Validators -> SUBSET DOMAIN parents] /\ to_commit \in [Validators -> Seq(DOMAIN parents)]
      /\ last_committed \in [Validators -> LastCommits]
      /\ stored_last_committed \in [Validators -> LastCommits]
      /\ committed_sub_dags \in [Validators -> Seq(SubDags(parents))]
  BY <1>1, TypedParts
<1>9. /\ dag' \in [Validators -> SUBSET DOMAIN parents] /\ dag'[v] = D
      /\ \A w \in Validators : w # v => dag'[w] = dag[w]
  BY <1>4, <1>7, <1>8, Updated
<1>10. /\ to_commit' \in [Validators -> Seq(DOMAIN parents)] /\ to_commit'[v] = T
       /\ \A w \in Validators : w # v => to_commit'[w] = to_commit[w]
  BY <1>4, <1>7, <1>8, Updated
<1>11. /\ last_committed' \in [Validators -> LastCommits] /\ last_committed'[v] = ld
       /\ \A w \in Validators : w # v => last_committed'[w] = last_committed[w]
  BY <1>4, <1>7, <1>8, Updated
<1>12. /\ stored_last_committed' \in [Validators -> LastCommits] /\ stored_last_committed'[v] = ld
       /\ \A w \in Validators : w # v => stored_last_committed'[w] = stored_last_committed[w]
  BY <1>4, <1>7, <1>8, Updated
<1>13. /\ committed_sub_dags' \in [Validators -> Seq(SubDags(parents))] /\ committed_sub_dags'[v] = se
       /\ \A w \in Validators : w # v => committed_sub_dags'[w] = committed_sub_dags[w]
  BY <1>4, <1>7, <1>8, Updated
<1>14. TypeOK'
  <2>1. /\ parents \in Dags
        /\ last_committed \in [Validators -> LastCommits]
        /\ stored_last_committed \in [Validators -> LastCommits]
        /\ dag \in [Validators -> SUBSET DOMAIN parents]
        /\ cert_store \in [Validators -> SUBSET DOMAIN parents]
        /\ dropped \in [Validators -> SUBSET DOMAIN parents]
        /\ to_commit \in [Validators -> Seq(DOMAIN parents)]
        /\ channel \in [Validators -> Seq(DOMAIN parents)]
        /\ gc_round \in [Validators -> Nat]
        /\ committed_sub_dags \in [Validators -> Seq(SubDags(parents))]
        /\ restarts \in 0..MaxRestarts
    BY <1>1, TypedParts
  <2> QED BY <1>2, <1>9, <1>10, <1>11, <1>12, <1>13, <2>1 DEF TypeOK, LastCommits, SubDags, Certs
<1>15. Valid(v)'
  BY <1>2, <1>6, <1>9, <1>10, <1>11, <1>12, <1>13 DEF Valid
<1>16. FinalFor(v)
  <2> DEFINE sd == committed_sub_dags[v]
             lc == last_committed[v]
  <2>1. /\ Len(sd) \in Nat /\ DOMAIN sd = 1..Len(sd) /\ DOMAIN se = 1..(Len(sd) + 1)
        /\ \A i \in 1..Len(sd) : se[i] = sd[i]
    BY <1>6 DEF Longer
  <2>2. \A i \in 1..Len(sd) : i \in 1..(Len(sd) + 1)
    BY <2>1, SMT
  <2>3. \A a \in Authorities : ld[a] >= lc[a]
    <3>1. lc \in [Authorities -> Nat] /\ ld \in [Authorities -> Nat]
      BY <1>7, <1>8 DEF LastCommits
    <3>2. \A a \in Authorities : lc[a] <= ld[a]
      BY <1>6
    <3> HIDE DEF lc
    <3> QED BY <3>1, <3>2
  <2> HIDE DEF sd, lc
  <2>4. \A i \in DOMAIN sd : i \in DOMAIN se /\ se[i] = sd[i]
    BY <2>1, <2>2
  <2> QED BY <1>11, <1>13, <2>3, <2>4 DEF FinalFor, sd, lc
<1>17. \A w \in Validators : w # v => Same(w)
  BY <1>2, <1>9, <1>10, <1>11, <1>12, <1>13 DEF Same
<1> QED BY <1>2, <1>14, <1>15, <1>16, <1>17, OneMoves

\* Restart.
LEMMA RestartKeeps ==
  ASSUME Library, Inv, NEW v \in Validators, Restart(v)
  PROVE  Inv' /\ \A w \in Validators : FinalFor(w)
<1> USE Zenon
<1> DEFINE lc == last_committed[v]
           D == construct_dag_from_cert_store(cert_store[v], lc)
<1>1. TypeOK /\ Valid(v) /\ stored_last_committed[v] = lc
  BY DEF Inv, Valid
<1>2. /\ parents' = parents /\ cert_store' = cert_store
      /\ stored_last_committed' = stored_last_committed /\ committed_sub_dags' = committed_sub_dags
      /\ restarts < MaxRestarts /\ restarts' = restarts + 1
      /\ to_commit' = [to_commit EXCEPT ![v] = <<>>] /\ channel' = [channel EXCEPT ![v] = <<>>]
      /\ gc_round' = [gc_round EXCEPT ![v] = 0] /\ dropped' = [dropped EXCEPT ![v] = {}]
  BY DEF Restart, durable
<1>3. last_committed' = [last_committed EXCEPT ![v] = lc] /\ dag' = [dag EXCEPT ![v] = D]
  BY <1>1 DEF Restart
<1>4. /\ parents \in Dags /\ restarts \in 0..MaxRestarts
      /\ dag \in [Validators -> SUBSET DOMAIN parents] /\ to_commit \in [Validators -> Seq(DOMAIN parents)]
      /\ channel \in [Validators -> Seq(DOMAIN parents)] /\ gc_round \in [Validators -> Nat]
      /\ dropped \in [Validators -> SUBSET DOMAIN parents]
      /\ last_committed \in [Validators -> LastCommits]
  BY <1>1, TypedParts
<1>5. MaxRestarts # 0 /\ restarts' \in 0..MaxRestarts
  BY <1>2, <1>4, BullsharkAssumption, SMT
<1> HIDE DEF D
<1>6. Sound(parents, lc, D, <<>>, <<>>, 0, cert_store[v], committed_sub_dags[v])
  <2>1. Sound(parents, lc, dag[v], to_commit[v], channel[v], gc_round[v],
              cert_store[v], committed_sub_dags[v])
    BY <1>1 DEF Valid
  <2> QED BY <1>4, <1>5, <2>1, RestartSound DEF D
<1>7. lc \in LastCommits /\ D \in SUBSET DOMAIN parents /\ <<>> \in Seq(DOMAIN parents) /\ 0 \in Nat
  BY <1>4, <1>6, SoundTyped, SMT
<1>8. {} \in SUBSET DOMAIN parents
  BY SMT
<1> HIDE DEF lc
<1>9. /\ dag' \in [Validators -> SUBSET DOMAIN parents] /\ dag'[v] = D
      /\ \A w \in Validators : w # v => dag'[w] = dag[w]
  BY <1>3, <1>4, <1>7, Updated
<1>10. /\ to_commit' \in [Validators -> Seq(DOMAIN parents)] /\ to_commit'[v] = <<>>
       /\ \A w \in Validators : w # v => to_commit'[w] = to_commit[w]
  BY <1>2, <1>4, <1>7, Updated
<1>11. /\ last_committed' \in [Validators -> LastCommits] /\ last_committed'[v] = lc
       /\ \A w \in Validators : w # v => last_committed'[w] = last_committed[w]
  BY <1>3, <1>4, <1>7, Updated
<1>12. /\ channel' \in [Validators -> Seq(DOMAIN parents)] /\ channel'[v] = <<>>
       /\ \A w \in Validators : w # v => channel'[w] = channel[w]
  BY <1>2, <1>4, <1>7, Updated
<1>13. /\ gc_round' \in [Validators -> Nat] /\ gc_round'[v] = 0
       /\ \A w \in Validators : w # v => gc_round'[w] = gc_round[w]
  BY <1>2, <1>4, <1>7, Updated
<1>14. dropped' \in [Validators -> SUBSET DOMAIN parents]
  BY <1>2, <1>4, <1>8, Updated
<1>15. TypeOK'
  <2>1. /\ parents \in Dags
        /\ last_committed \in [Validators -> LastCommits]
        /\ stored_last_committed \in [Validators -> LastCommits]
        /\ dag \in [Validators -> SUBSET DOMAIN parents]
        /\ cert_store \in [Validators -> SUBSET DOMAIN parents]
        /\ dropped \in [Validators -> SUBSET DOMAIN parents]
        /\ to_commit \in [Validators -> Seq(DOMAIN parents)]
        /\ channel \in [Validators -> Seq(DOMAIN parents)]
        /\ gc_round \in [Validators -> Nat]
        /\ committed_sub_dags \in [Validators -> Seq(SubDags(parents))]
        /\ restarts \in 0..MaxRestarts
    BY <1>1, TypedParts
  <2> QED BY <1>2, <1>5, <1>9, <1>10, <1>11, <1>12, <1>13, <1>14, <2>1
          DEF TypeOK, LastCommits, SubDags, Certs
<1>16. Valid(v)'
  BY <1>1, <1>2, <1>6, <1>9, <1>10, <1>11, <1>12, <1>13 DEF Valid
<1>17. FinalFor(v)
  BY <1>1, <1>2, <1>11, SameFinal DEF lc
<1>18. \A w \in Validators : w # v => Same(w)
  BY <1>2, <1>9, <1>10, <1>11, <1>12, <1>13 DEF Same
<1> QED BY <1>2, <1>15, <1>16, <1>17, <1>18, OneMoves

-----------------------------------------------------------------------------
(* Two validators.                                                         *)

\* Of a leader that two validators elect or commit, the one before it for one is
\* not above the one before it for the other.
LEMMA LeaderBefore ==
  ASSUME NEW P \in Dags, NEW L, NEW n \in Nat, Linked(P, L, n), NEW M, NEW k \in Nat, Linked(P, M, k),
         NEW i \in 1..n, NEW j \in 1..k, L[i] = M[j], i > 1
  PROVE  j > 1 /\ ~ (Round(M[j - 1]) < Round(L[i - 1]))
<1> USE Zenon
<1>1. linked(Whole(P), L[i], L[i - 1]) /\ Round(L[i - 1]) < Round(L[i])
  BY DEF Linked
<1>2. i - 1 \in 1..n
  BY SMT
<1>3. L[i - 1] \in DOMAIN P /\ Electable(L[i - 1])
  BY <1>2 DEF Linked, IsLeader
<1>4. ~ (Electable(L[i - 1]) /\ Round(L[i - 1]) < Round(M[j])
         /\ (j > 1 => Round(M[j - 1]) < Round(L[i - 1])))
  BY <1>1, <1>3 DEF Linked
<1> QED BY <1>1, <1>3, <1>4

\* So it is the same.
LEMMA SameBefore ==
  ASSUME NEW P \in Dags, NEW L, NEW n \in Nat, Linked(P, L, n), NEW M, NEW k \in Nat, Linked(P, M, k),
         NEW i \in 1..n, NEW j \in 1..k, L[i] = M[j], i > 1
  PROVE  j > 1 /\ L[i - 1] = M[j - 1]
<1> USE Zenon
<1>1. j > 1 /\ ~ (Round(M[j - 1]) < Round(L[i - 1]))
  BY LeaderBefore
<1>2. ~ (Round(L[i - 1]) < Round(M[j - 1]))
  BY <1>1, LeaderBefore
<1>3. i - 1 \in 1..n /\ j - 1 \in 1..k
  BY <1>1, SMT
<1>4. IsLeader(P, L[i - 1]) /\ IsLeader(P, M[j - 1])
  BY <1>3 DEF Linked
<1>5. L[i - 1] = leader(Round(L[i - 1])) /\ M[j - 1] = leader(Round(M[j - 1]))
  BY <1>4 DEF IsLeader, Electable
<1>6. Round(L[i - 1]) \in Nat /\ Round(M[j - 1]) \in Nat
  BY <1>4, DagFacts DEF IsLeader
<1>7. Round(L[i - 1]) = Round(M[j - 1])
  BY <1>1, <1>2, <1>6, SMT
<1> QED BY <1>1, <1>5, <1>7

\* The leaders of a validator that is behind are those of one that is ahead.
LEMMA SameLeaders ==
  ASSUME Library, NEW P \in Dags, NEW L, NEW n \in Nat, n > 0, Elected(P, L, n),
         NEW M, NEW k \in Nat, k > 0, Elected(P, M, k), Round(L[n]) <= Round(M[k])
  PROVE  \A i \in 1..n : i \in 1..k /\ L[i] = M[i]
<1> DEFINE a == L[n]
<1>1. Linked(P, L, n) /\ Linked(P, M, k) /\ IsValidity(Support(Whole(P), a))
  BY Zenon DEF Elected
<1>2. /\ \A i \in 1..n : L[i] \in DOMAIN P /\ Electable(L[i])
      /\ \A i \in 1..k : M[i] \in DOMAIN P /\ Electable(M[i])
  BY <1>1, Zenon DEF Linked, IsLeader
<1>3. a \in DOMAIN P /\ Electable(a) /\ Round(a) \in Nat
  <2>1. n \in 1..n
    OBVIOUS
  <2> QED BY <1>2, <2>1, DagFacts, Zenon
<1>4. \A i \in 1..k : Round(M[i]) \in Nat
  BY <1>2, DagFacts, Zenon
<1> DEFINE J == {i \in 1..k : Round(a) <= Round(M[i])}
<1>5. PICK j \in J : \A i \in J : j <= i
  <2>1. J \in SUBSET Nat /\ k \in J
    OBVIOUS
  <2>2. J # {}
    BY <2>1, Zenon
  <2> HIDE DEF J
  <2> QED BY <2>1, <2>2, Zenon DEF Library, Least
<1>6. j \in 1..k /\ Round(a) <= Round(M[j])
  OBVIOUS
<1>7. j > 1 => Round(M[j - 1]) < Round(a)
  <2>1. SUFFICES ASSUME j > 1
                 PROVE  Round(M[j - 1]) < Round(a)
    OBVIOUS
  <2>2. j - 1 \in 1..k /\ ~ (j <= j - 1)
    BY <1>6, <2>1
  <2>3. j - 1 \notin J
    BY <1>5, <2>2, Zenon
  <2> QED BY <1>3, <1>4, <2>2, <2>3
<1> HIDE DEF J, a
<1>8. M[j] = a
  <2>1. Round(M[j]) \in Nat /\ Electable(M[j]) /\ M[j] \in DOMAIN P
    BY <1>2, <1>4, <1>6, Zenon
  <2>2. ~ (Round(a) < Round(M[j]))
    <3>1. SUFFICES ASSUME Round(a) < Round(M[j])
                   PROVE  FALSE
      OBVIOUS
    <3>2. ~ linked(Whole(P), M[j], a)
      BY <1>1, <1>3, <1>6, <1>7, <3>1, Zenon DEF Linked
    <3>3. Round(a) % 2 = 0 /\ Round(M[j]) % 2 = 0
      BY <1>3, <2>1, Zenon DEF Electable
    <3>4. \A x, y \in Nat : x % 2 = 0 /\ y % 2 = 0 /\ y < x => x >= y + 2
      OBVIOUS
    <3>5. Round(M[j]) >= Round(a) + 2
      BY <1>3, <2>1, <3>1, <3>3, <3>4, Zenon
    <3> QED BY <1>1, <1>3, <2>1, <3>2, <3>5, SupportedIsReached, Zenon
  <2>3. Round(M[j]) = Round(a)
    BY <1>3, <1>6, <2>1, <2>2
  <2> QED BY <1>3, <2>1, <2>3, Zenon DEF Electable
<1> DEFINE T == {d \in Nat : d < n => d < j /\ L[n - d] = M[j - d]}
<1>9. 0 \in T
  BY <1>6, <1>8 DEF a
<1>10. ASSUME NEW d \in Nat, d \in T
       PROVE  d + 1 \in T
  <2>1. SUFFICES ASSUME d + 1 < n
                 PROVE  d + 1 < j /\ L[n - (d + 1)] = M[j - (d + 1)]
    OBVIOUS
  <2>2. d < j /\ L[n - d] = M[j - d]
    BY <1>10, <2>1
  <2>3. n - d \in 1..n /\ n - d > 1 /\ j - d \in 1..k
    BY <1>6, <2>1, <2>2
  <2>4. j - d > 1 /\ L[(n - d) - 1] = M[(j - d) - 1]
    BY <1>1, <2>2, <2>3, SameBefore
  <2>5. d + 1 < j /\ (n - d) - 1 = n - (d + 1) /\ (j - d) - 1 = j - (d + 1)
    BY <1>6, <2>4
  <2> QED BY <2>4, <2>5, Zenon
<1> HIDE DEF T
<1>11. Nat \subseteq T
  BY <1>9, <1>10, SetInduction, Zenon
<1>12. \A d \in Nat : d < n => d < j /\ L[n - d] = M[j - d]
  BY <1>11, Zenon DEF T
<1>13. j = n
  <2>1. n - 1 \in Nat /\ n - 1 < n /\ n - (n - 1) = 1
    OBVIOUS
  <2>2. n - 1 < j /\ L[1] = M[j - (n - 1)]
    BY <1>12, <2>1, Zenon
  <2>3. j - (n - 1) \in 1..k /\ 1 \in 1..n
    BY <1>6, <2>2
  <2>4. ~ (j - (n - 1) > 1)
    <3>1. ~ (1 > 1)
      OBVIOUS
    <3> QED BY <1>1, <2>2, <2>3, <3>1, SameBefore
  <2> QED BY <1>6, <2>2, <2>4
<1>14. ASSUME NEW i \in 1..n
       PROVE  i \in 1..k /\ L[i] = M[i]
  <2>1. n - i \in Nat /\ n - i < n /\ n - (n - i) = i /\ j - (n - i) = i /\ i \in 1..k
    BY <1>6, <1>13
  <2> QED BY <1>12, <2>1, Zenon
<1> QED BY <1>14, Zenon

\* Where two validators both have a leader, it is the same.
LEMMA LeadersAgree ==
  ASSUME Library,
         NEW P \in Dags, NEW L, NEW n \in Nat, Elected(P, L, n), NEW M, NEW k \in Nat, Elected(P, M, k)
  PROVE  \A i \in 1..n : i \in 1..k => L[i] = M[i]
<1>1. SUFFICES ASSUME NEW i \in 1..n, i \in 1..k
               PROVE  L[i] = M[i]
  BY Zenon
<1>2. n > 0 /\ k > 0 /\ n \in 1..n /\ k \in 1..k
  BY <1>1
<1>3. Round(L[n]) \in Nat /\ Round(M[k]) \in Nat
  BY <1>2, DagFacts, Zenon DEF Elected, Linked, IsLeader
<1>4. CASE Round(L[n]) <= Round(M[k])
  BY <1>1, <1>2, <1>4, SameLeaders
<1>5. CASE Round(M[k]) <= Round(L[n])
  BY <1>1, <1>2, <1>5, SameLeaders
<1> QED BY <1>3, <1>4, <1>5

\* The commits of a prefix of the sub-dags are one.
LEMMA FitsUnique ==
  ASSUME NEW sd, NEW n, NEW lc \in LastCommits, Fits(lc, sd, n), NEW ld \in LastCommits, Fits(ld, sd, n)
  PROVE  lc = ld
<1> USE Zenon
<1>1. lc \in [Authorities -> Nat] /\ ld \in [Authorities -> Nat]
  BY DEF LastCommits
<1>2. ASSUME NEW a \in Authorities
      PROVE  lc[a] = ld[a]
  <2>1. lc[a] \in Nat /\ ld[a] \in Nat
    BY <1>1
  <2>2. lc[a] <= ld[a]
    <3>1. CASE lc[a] = 0
      BY <2>1, <3>1, SMT
    <3>2. CASE lc[a] # 0
      BY <3>2 DEF Fits
    <3> QED BY <3>1, <3>2
  <2>3. ld[a] <= lc[a]
    <3>1. CASE ld[a] = 0
      BY <2>1, <3>1, SMT
    <3>2. CASE ld[a] # 0
      BY <3>2 DEF Fits
    <3> QED BY <3>1, <3>2
  <2> QED BY <2>1, <2>2, <2>3, SMT
<1> QED BY <1>1, <1>2, SMT

\* They depend on nothing after the prefix.
LEMMA FitsPrefix ==
  ASSUME NEW S, NEW sd \in Seq(S), NEW se \in Seq(S), NEW n \in Nat, n <= Len(sd), n <= Len(se),
         \A i \in 1..n : sd[i] = se[i], NEW lc, Fits(lc, sd, n)
  PROVE  Fits(lc, se, n)
<1> USE Zenon
<1>1. DOMAIN sd = 1..Len(sd) /\ DOMAIN se = 1..Len(se) /\ Len(sd) \in Nat /\ Len(se) \in Nat
  BY SMT
<1>2. ASSUME NEW x, x[1] <= n
      PROVE  /\ x \in Places(sd) => x \in Places(se) /\ At(se, x) = At(sd, x)
             /\ x \in Places(se) => x \in Places(sd) /\ At(se, x) = At(sd, x)
  <2>1. ASSUME x \in Places(sd)
        PROVE  x \in Places(se) /\ At(se, x) = At(sd, x)
    <3>1. x[1] \in 1..Len(sd) /\ x[2] \in DOMAIN sd[x[1]].certificates /\ x = <<x[1], x[2]>>
      BY <1>1, <2>1, PlaceFacts
    <3>2. x[1] \in 1..n /\ x[1] \in DOMAIN se
      BY <1>1, <1>2, <3>1, SMT
    <3>3. sd[x[1]] = se[x[1]]
      BY <3>2
    <3>4. <<x[1], x[2]>> \in Places(se)
      BY <3>1, <3>2, <3>3, PlaceFacts
    <3> QED BY <3>1, <3>3, <3>4 DEF At
  <2>2. ASSUME x \in Places(se)
        PROVE  x \in Places(sd) /\ At(se, x) = At(sd, x)
    <3>1. x[1] \in 1..Len(se) /\ x[2] \in DOMAIN se[x[1]].certificates /\ x = <<x[1], x[2]>>
      BY <1>1, <2>2, PlaceFacts
    <3>2. x[1] \in 1..n /\ x[1] \in DOMAIN sd
      BY <1>1, <1>2, <3>1, SMT
    <3>3. sd[x[1]] = se[x[1]]
      BY <3>2
    <3>4. <<x[1], x[2]>> \in Places(sd)
      BY <3>1, <3>2, <3>3, PlaceFacts
    <3> QED BY <3>1, <3>3, <3>4 DEF At
  <2> QED BY <2>1, <2>2
<1>3. ASSUME NEW x \in Places(se), x[1] <= n
      PROVE  Round(At(se, x)) <= lc[Author(At(se, x))]
  <2>1. x \in Places(sd) /\ At(se, x) = At(sd, x)
    BY <1>2, <1>3
  <2>2. Round(At(sd, x)) <= lc[Author(At(sd, x))]
    BY <1>3, <2>1 DEF Fits
  <2> QED BY <2>1, <2>2
<1>4. ASSUME NEW a \in Authorities, lc[a] # 0
      PROVE  \E x \in Places(se) : x[1] <= n /\ Author(At(se, x)) = a /\ Round(At(se, x)) = lc[a]
  <2>1. PICK x \in Places(sd) : x[1] <= n /\ Author(At(sd, x)) = a /\ Round(At(sd, x)) = lc[a]
    BY <1>4 DEF Fits
  <2>2. x \in Places(se) /\ At(se, x) = At(sd, x)
    BY <1>2, <2>1
  <2> QED BY <2>1, <2>2
<1> QED BY <1>3, <1>4 DEF Fits

\* A sub-dag is its leader and its certificates.
LEMMA SameSubDag ==
  ASSUME NEW P, NEW x \in SubDags(P), NEW y \in SubDags(P),
         x.leader = y.leader, x.certificates = y.certificates
  PROVE  x = y
BY DEF SubDags

\* The first leaders are those of the sub-dags.
LEMMA LeadersCommitted ==
  ASSUME NEW S, NEW sd \in Seq(S), NEW T, NEW tc \in Seq(T)
  PROVE  /\ Len(sd) + Len(tc) \in Nat
         /\ \A k \in DOMAIN sd : k \in 1..(Len(sd) + Len(tc)) /\ Leaders(sd, tc)[k] = sd[k].leader
<1>1. Len(sd) \in Nat /\ Len(tc) \in Nat /\ DOMAIN sd = 1..Len(sd)
  OBVIOUS
<1>2. \A k \in 1..Len(sd) : k <= Len(sd) /\ k \in 1..(Len(sd) + Len(tc))
  BY <1>1
<1> QED BY <1>1, <1>2 DEF Leaders

\* Two validators with the same leaders commit the same sub-dags.
LEMMA SubDagsAgree ==
  ASSUME Library, NEW P \in Dags, NEW sd \in Seq(SubDags(P)), NEW se \in Seq(SubDags(P)),
         Ordered(P, sd), Ordered(P, se),
         \A i \in DOMAIN sd \cap DOMAIN se : sd[i].leader = se[i].leader
  PROVE  \A i \in DOMAIN sd \cap DOMAIN se : sd[i] = se[i]
<1> USE Zenon
<1>1. DOMAIN sd = 1..Len(sd) /\ DOMAIN se = 1..Len(se) /\ Len(sd) \in Nat /\ Len(se) \in Nat
  BY SMT
<1> DEFINE T == {n \in Nat : n <= Len(sd) /\ n <= Len(se) => \A i \in 1..n : sd[i] = se[i]}
<1>2. 0 \in T
  BY SMT
<1>3. ASSUME NEW n \in Nat, n \in T
      PROVE  n + 1 \in T
  <2>1. SUFFICES ASSUME n + 1 <= Len(sd) /\ n + 1 <= Len(se)
                 PROVE  \A i \in 1..(n + 1) : sd[i] = se[i]
    BY SMT
  <2>2. /\ n <= Len(sd) /\ n <= Len(se) /\ n + 1 \in DOMAIN sd /\ n + 1 \in DOMAIN se
        /\ (n + 1) - 1 = n
    BY <1>1, <2>1, SMT
  <2>3. \A i \in 1..n : sd[i] = se[i]
    BY <1>3, <2>2
  <2> HIDE DEF T
  <2> DEFINE l == sd[n + 1].leader
  <2>4. se[n + 1].leader = l
    BY <2>2
  <2>5. PICK lc \in LastCommits, dg \in SUBSET DOMAIN P : OrderedFrom(P, sd, n + 1, lc, dg)
    BY <2>2 DEF Ordered
  <2>6. PICK ld \in LastCommits, D \in SUBSET DOMAIN P : OrderedFrom(P, se, n + 1, ld, D)
    BY <2>2 DEF Ordered
  <2> DEFINE s == State(P, lc, dg)
             t == State(P, ld, D)
  <2>7. Fits(lc, sd, n) /\ l \in dg /\ Formed(s) /\ Closed(s) /\ sd[n + 1].certificates = order_dag(s, l)
    BY <2>2, <2>5 DEF OrderedFrom
  <2>8. Fits(ld, se, n) /\ l \in D /\ Formed(t) /\ Closed(t) /\ se[n + 1].certificates = order_dag(t, l)
    BY <2>2, <2>4, <2>6 DEF OrderedFrom
  <2>9. lc = ld
    <3>1. Fits(lc, se, n)
      BY <2>2, <2>3, <2>7, FitsPrefix
    <3> QED BY <2>8, <3>1, FitsUnique
  <2>10. s.lc = lc /\ t.lc = ld /\ s.parents = P /\ t.parents = P /\ s.dag = dg /\ t.dag = D
    BY DEF State
  <2> HIDE DEF s, t, l
  <2>11. SameCommits(s, t)
    BY <2>7, <2>8, <2>9, <2>10 DEF SameCommits
  <2>12. l \in s.dag /\ l \in t.dag
    BY <2>7, <2>8, <2>10
  <2>13. order_dag(s, l) = order_dag(t, l)
    BY <2>11, <2>12, SameOrder
  <2>14. sd[n + 1] \in SubDags(P) /\ se[n + 1] \in SubDags(P)
    <3>1. (\A i \in 1..Len(sd) : sd[i] \in SubDags(P)) /\ \A i \in 1..Len(se) : se[i] \in SubDags(P)
      BY SMT
    <3> QED BY <1>1, <2>2, <3>1
  <2>15. sd[n + 1].certificates = se[n + 1].certificates /\ sd[n + 1].leader = se[n + 1].leader
    BY <2>4, <2>7, <2>8, <2>13 DEF l
  <2>16. sd[n + 1] = se[n + 1]
    BY <2>14, <2>15, SameSubDag
  <2> QED BY <2>3, <2>16, SMT
<1> HIDE DEF T
<1>4. Nat \subseteq T
  BY <1>2, <1>3, SetInduction
<1>5. ASSUME NEW i \in DOMAIN sd \cap DOMAIN se
      PROVE  sd[i] = se[i]
  <2>1. i \in Nat /\ i <= Len(sd) /\ i <= Len(se) /\ i \in 1..i
    BY <1>1, SMT
  <2>2. i \in T
    BY <1>4, <2>1
  <2> QED BY <2>1, <2>2 DEF T
<1> QED BY <1>5

-----------------------------------------------------------------------------
(* The steps of every validator.                                           *)

\* The invariant holds at the start.
LEMMA InitEstablishes ==
  ASSUME Library
  PROVE  Init => Inv
<1> USE Zenon
<1> SUFFICES ASSUME Init
             PROVE  Inv
  BY SMT
<1> DEFINE z == [a \in Authorities |-> 0]
<1>1. /\ parents \in Dags /\ last_committed = [v \in Validators |-> z] /\ dag = [v \in Validators |-> {}]
      /\ to_commit = [v \in Validators |-> <<>>] /\ channel = [v \in Validators |-> <<>>]
      /\ gc_round = [v \in Validators |-> 0] /\ dropped = [v \in Validators |-> {}]
      /\ cert_store = [v \in Validators |-> {}]
      /\ stored_last_committed = [v \in Validators |-> z]
      /\ committed_sub_dags = [v \in Validators |-> <<>>] /\ restarts = 0
  BY DEF Init
<1>2. z \in LastCommits
  BY DEF LastCommits
<1>3. MaxRestarts \in Nat
  BY BullsharkAssumption
<1> HIDE DEF z
<1>4. TypeOK
  <2>1. /\ last_committed \in [Validators -> LastCommits] /\ dag \in [Validators -> SUBSET DOMAIN parents]
        /\ stored_last_committed \in [Validators -> LastCommits]
        /\ cert_store \in [Validators -> SUBSET DOMAIN parents]
        /\ dropped \in [Validators -> SUBSET DOMAIN parents]
        /\ gc_round \in [Validators -> Nat] /\ restarts \in 0..MaxRestarts
    BY <1>1, <1>2, <1>3, SMT
  <2>2. \A S : <<>> \in Seq(S)
    BY SMT
  <2>3. /\ to_commit \in [Validators -> Seq(DOMAIN parents)] /\ channel \in [Validators -> Seq(DOMAIN parents)]
        /\ committed_sub_dags \in [Validators -> Seq(SubDags(parents))]
    BY <1>1, <2>2
  <2> QED BY <1>1, <2>1, <2>3, TypedParts
<1>5. ASSUME NEW v \in Validators
      PROVE  Valid(v)
  <2>1. Sound(parents, z, {}, <<>>, <<>>, 0, {}, <<>>)
    BY <1>1, StartSound DEF z
  <2>2. /\ last_committed[v] = z /\ dag[v] = {} /\ to_commit[v] = <<>> /\ channel[v] = <<>>
        /\ gc_round[v] = 0 /\ cert_store[v] = {} /\ stored_last_committed[v] = z
        /\ committed_sub_dags[v] = <<>>
    BY <1>1
  <2> QED BY <2>1, <2>2 DEF Valid
<1> QED BY <1>4, <1>5 DEF Inv

\* Every step keeps the invariant and what was committed.
LEMMA NextKeeps ==
  ASSUME Library, Inv, [Next]_vars
  PROVE  Inv' /\ (Next => \A w \in Validators : FinalFor(w))
<1> USE Zenon
<1>1. CASE Next
  <2>1. PICK v \in Validators :
          \/ \E c \in Certs : AcceptCertificate(v, c) \/ DropCertificate(v, c)
          \/ ProcessCertificate(v) \/ CommitLeader(v) \/ UpdateGcRound(v) \/ Restart(v)
    BY <1>1 DEF Next
  <2>2. ASSUME NEW c \in Certs, AcceptCertificate(v, c)
        PROVE  Inv' /\ \A w \in Validators : FinalFor(w)
    BY <2>2, AcceptKeeps
  <2>3. ASSUME NEW c \in Certs, DropCertificate(v, c)
        PROVE  Inv' /\ \A w \in Validators : FinalFor(w)
    BY <2>3, DropKeeps
  <2>4. CASE ProcessCertificate(v)
    BY <2>4, ProcessKeeps
  <2>5. CASE CommitLeader(v)
    BY <2>5, CommitKeeps
  <2>6. CASE UpdateGcRound(v)
    BY <2>6, UpdateGcKeeps
  <2>7. CASE Restart(v)
    BY <2>7, RestartKeeps
  <2> QED BY <2>1, <2>2, <2>3, <2>4, <2>5, <2>6, <2>7
<1>2. CASE UNCHANGED vars /\ ~ Next
  <2>1. /\ parents' = parents /\ last_committed' = last_committed /\ dag' = dag /\ to_commit' = to_commit
        /\ channel' = channel /\ gc_round' = gc_round /\ dropped' = dropped /\ cert_store' = cert_store
        /\ stored_last_committed' = stored_last_committed /\ committed_sub_dags' = committed_sub_dags
        /\ restarts' = restarts
    BY <1>2 DEF vars, volatile, durable
  <2>2. TypeOK /\ \A v \in Validators : Valid(v)
    BY DEF Inv
  <2>3. TypeOK'
    BY <2>1, <2>2 DEF TypeOK, Certs
  <2>4. ASSUME NEW v \in Validators
        PROVE  Valid(v)'
    BY <2>1, <2>2 DEF Valid
  <2> QED BY <1>2, <2>3, <2>4 DEF Inv
<1> QED BY <1>1, <1>2

-----------------------------------------------------------------------------
(* The facts that module BullsharkSteps assumes.                           *)

FS == INSTANCE FiniteSetTheorems

\* A nonempty set of natural numbers has a least element.
LEMMA LeastElement ==
  ASSUME NEW T \in SUBSET Nat, T # {}
  PROVE  \E m \in T : \A k \in T : m <= k
<1> USE Zenon
<1> DEFINE R == FS!OpToRel(<, Nat)
<1>1. FS!IsWellFoundedOn(R, Nat)
  BY FS!NatLessThanWellFounded
<1>2. \A x, y \in Nat : <<y, x>> \in R <=> y < x
  BY DEF FS!OpToRel
<1> HIDE DEF R
<1>3. PICK m \in T : \A k \in T : ~ (<<k, m>> \in R)
  BY <1>1, FS!WFMin
<1>4. \A k \in T : ~ (k < m)
  BY <1>2, <1>3
<1> QED BY <1>4, SMT

\* The theorems of the library are about the same operators.
LEMMA SameSets ==
  /\ \A S : FS!IsFiniteSet(S) <=> IsFiniteSet(S)
  /\ \A S : FS!Cardinality(S) = Cardinality(S)
  /\ \A S, T : FS!Injection(S, T) = Injection(S, T)
  /\ \A S, T : FS!Surjection(S, T) = Surjection(S, T)
<1> USE Zenon
<1>1. \A S : FS!IsFiniteSet(S) <=> IsFiniteSet(S)
  BY DEF FS!IsFiniteSet, IsFiniteSet
<1>2. \A S : FS!Cardinality(S) = Cardinality(S)
  BY DEF FS!Cardinality, Cardinality, FS!IsFiniteSet, IsFiniteSet
<1>3. \A S, T : FS!Injection(S, T) = Injection(S, T)
  BY DEF FS!Injection, Injection, FS!IsInjective, IsInjective
<1>4. \A S, T : FS!Surjection(S, T) = Surjection(S, T)
  BY DEF FS!Surjection, Surjection
<1> QED BY <1>1, <1>2, <1>3, <1>4

\* So what is assumed is so.
LEMMA LibraryHolds == Library
<1> USE Zenon
<1>1. Least
  BY LeastElement DEF Least
<1>2. CardNat
  BY SameSets, FS!FS_CardinalityType DEF CardNat
<1>3. CardSubset
  BY SameSets, FS!FS_Subset DEF CardSubset
<1>4. CardAdd
  BY SameSets, FS!FS_AddElement DEF CardAdd
<1>5. CardRemove
  BY SameSets, FS!FS_RemoveElement DEF CardRemove
<1>6. CardUpTo
  <2>1. ASSUME NEW n \in Nat
        PROVE  FS!IsFiniteSet(1..n) /\ FS!Cardinality(1..n) = n
    BY FS!FS_Interval, SMT
  <2> QED BY <2>1, SameSets DEF CardUpTo
<1>7. CardInjection
  BY SameSets, FS!FS_Injection DEF CardInjection
<1>8. ImageFinite
  BY SameSets, FS!FS_Surjection DEF ImageFinite
<1> QED BY <1>1, <1>2, <1>3, <1>4, <1>5, <1>6, <1>7, <1>8 DEF Library

-----------------------------------------------------------------------------
(* The theorems.                                                           *)

\* Whatever the committee, the DAG, the GC depth and the crashes: what a validator
\* holds, has elected and has committed fits together after every step.
THEOREM BullsharkInvariant == Spec => []Inv
<1>1. Inv /\ [Next]_vars => Inv'
  BY NextKeeps, LibraryHolds, Zenon
<1> QED BY <1>1, InitEstablishes, LibraryHolds, PTL DEF Spec

\* The consensus state and its stores keep their shape.
THEOREM BullsharkTyped == Spec => []TypeOK
<1>1. Inv => TypeOK
  BY Zenon DEF Inv
<1> QED BY <1>1, BullsharkInvariant, PTL

\* No certificate is committed twice: not after a second delivery, nor after a
\* crash between two leaders of one commit.
THEOREM CommitsOnce == Spec => []CommittedOnce
<1>1. Inv => CommittedOnce
  BY Zenon DEF Inv, Valid, Sound, Committed, Once, CommittedOnce
<1> QED BY <1>1, BullsharkInvariant, PTL

\* A sub-dag ends with its leader, and the rounds of the leaders are even and grow.
THEOREM CommitsAdvance == Spec => []LeadersAdvance
<1>1. Inv => LeadersAdvance
  BY Zenon DEF Inv, Valid, Sound, Committed, Advance, LeadersAdvance
<1> QED BY <1>1, BullsharkInvariant, PTL

\* The expect of the election never panics: every round between the last commit
\* and an elected leader is in the dag, also after garbage collection and crashes.
THEOREM HistoryIsWhole == Spec => []WholeHistory
<1> USE Zenon
<1>1. Inv => WholeHistory
  <2>1. SUFFICES ASSUME Inv, NEW v \in Validators, to_commit[v] # <<>>,
                        NEW r \in (last_committed_round(last_committed[v]) + 1)
                                  ..Round(to_commit[v][Len(to_commit[v])])
                 PROVE  Layer(StateOf(v), r) # {}
    BY DEF WholeHistory
  <2>2. StateOf(v) = State(parents, last_committed[v], dag[v])
    BY DEF StateOf, State
  <2>3. parents \in Dags
    BY <2>1, TypedParts DEF Inv
  <2>4. Sound(parents, last_committed[v], dag[v], to_commit[v], channel[v], gc_round[v],
              cert_store[v], committed_sub_dags[v])
    BY <2>1 DEF Inv, Valid
  <2> QED BY <2>1, <2>2, <2>3, <2>4, SoundHistory, LibraryHolds
<1> QED BY <1>1, BullsharkInvariant, PTL

\* What was committed stays committed, and no last committed round goes down.
THEOREM CommitsStay == Spec => CommitsAreFinal
<1>1. Inv /\ [Next]_vars =>
        [\A v \in Validators :
           /\ \A i \in DOMAIN committed_sub_dags[v] :
                i \in DOMAIN committed_sub_dags'[v] /\ committed_sub_dags'[v][i] = committed_sub_dags[v][i]
           /\ \A a \in Authorities : last_committed'[v][a] >= last_committed[v][a]]_vars
  BY NextKeeps, LibraryHolds, Zenon DEF FinalFor
<1> QED BY <1>1, BullsharkInvariant, PTL DEF Spec, CommitsAreFinal

\* Without crashes no leader with f + 1 support is left once the channel is
\* drained.
THEOREM SupportedLeadersCommit ==
  ASSUME MaxRestarts = 0
  PROVE  Spec => []NoSupportedLeaderWaits
<1> USE Zenon
<1>1. Inv => NoSupportedLeaderWaits
  <2>1. SUFFICES ASSUME Inv, NEW v \in Validators, channel[v] = <<>>, to_commit[v] = <<>>,
                        NEW c \in dag[v], Round(c) % 2 = 0, c = leader(Round(c)),
                        Round(c) > last_committed_round(last_committed[v])
                 PROVE  ~ IsValidity(Support(StateOf(v), c))
    BY DEF NoSupportedLeaderWaits
  <2>2. StateOf(v) = State(parents, last_committed[v], dag[v])
    BY DEF StateOf, State
  <2>3. NoneWaits(parents, last_committed[v], dag[v], <<>>)
    BY <2>1 DEF Inv, Valid, Sound
  <2>4. Electable(c)
    BY <2>1 DEF Electable
  <2> QED BY <2>1, <2>2, <2>3, <2>4 DEF NoneWaits
<1> QED BY <1>1, BullsharkInvariant, PTL

\* Without crashes, and with a GC depth that no round exceeds, a certificate
\* follows each of its parents, or a later certificate of the parent's author.
THEOREM CommitsAreCausal ==
  ASSUME Calm
  PROVE  Spec => []CausalCommit
<1>1. Inv => CausalCommit
  BY Zenon DEF Inv, Valid, Sound, Causal, CausalCommit
<1> QED BY <1>1, BullsharkInvariant, PTL

\* Under the same conditions two validators commit the same sub-dags in the same
\* order, whatever order their certificates came in.
THEOREM ValidatorsAgree ==
  ASSUME Calm
  PROVE  Spec => []Agreement
<1> USE Zenon
<1>1. Inv => Agreement
  <2>1. SUFFICES ASSUME Inv, NEW v \in Validators, NEW w \in Validators,
                        NEW i \in DOMAIN committed_sub_dags[v] \cap DOMAIN committed_sub_dags[w]
                 PROVE  committed_sub_dags[v][i] = committed_sub_dags[w][i]
    BY DEF Agreement
  <2> DEFINE sd(x) == committed_sub_dags[x]
             tc(x) == to_commit[x]
             L(x) == Leaders(sd(x), tc(x))
             n(x) == Len(sd(x)) + Len(tc(x))
  <2>2. parents \in Dags
    BY <2>1, TypedParts DEF Inv
  <2>3. ASSUME NEW x \in Validators
        PROVE  /\ sd(x) \in Seq(SubDags(parents)) /\ Ordered(parents, sd(x)) /\ Elected(parents, L(x), n(x))
               /\ n(x) \in Nat /\ \A k \in DOMAIN sd(x) : k \in 1..n(x) /\ L(x)[k] = sd(x)[k].leader
    <3>1. Sound(parents, last_committed[x], dag[x], tc(x), channel[x], gc_round[x],
                cert_store[x], sd(x))
      BY <2>1 DEF Inv, Valid
    <3>2. Ordered(parents, sd(x)) /\ Elected(parents, L(x), n(x))
      BY <3>1 DEF Sound
    <3>3. sd(x) \in Seq(SubDags(parents)) /\ tc(x) \in Seq(DOMAIN parents)
      BY <2>2, <3>1, SoundTyped
    <3>4. n(x) \in Nat /\ \A k \in DOMAIN sd(x) : k \in 1..n(x) /\ L(x)[k] = sd(x)[k].leader
      BY <3>3, LeadersCommitted
    <3> QED BY <3>2, <3>3, <3>4
  <2> HIDE DEF sd, tc, L, n
  <2>4. \A k \in 1..n(v) : k \in 1..n(w) => L(v)[k] = L(w)[k]
    BY <2>2, <2>3, LeadersAgree, LibraryHolds, SMT
  <2>5. \A k \in DOMAIN sd(v) \cap DOMAIN sd(w) : sd(v)[k].leader = sd(w)[k].leader
    BY <2>3, <2>4
  <2>6. \A k \in DOMAIN sd(v) \cap DOMAIN sd(w) : sd(v)[k] = sd(w)[k]
    BY <2>2, <2>3, <2>5, SubDagsAgree, LibraryHolds
  <2> QED BY <2>1, <2>6 DEF sd
<1> QED BY <1>1, BullsharkInvariant, PTL
=============================================================================
