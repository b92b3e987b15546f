--------------------------- MODULE ProposerProofs ---------------------------
(***************************************************************************)
(* Proofs about the proposer for any committee, any rounds and crashes.    *)
(* For any schedule: the shape of its state, and its vote for the leader.  *)
(* For a primary that is left alone until it has recovered its parents     *)
(* (QuietStart): that it proposes on quorums, never proposes two headers   *)
(* of one round and loses no digest.                                       *)
(***************************************************************************)
EXTENDS Proposer, FiniteSetTheorems, TLAPS

Messages == [parents : SUBSET Certificates, round : 1..MaxRound, from : Feeders]
Headers == [round : 0..MaxRound, payload : Seq(Digests), parents : SUBSET Authorities]

\* The certificates that header parents of round r are taken from.
Known(certs, r) == IF r = 0 THEN Genesis ELSE InRound(certs, r)

\* A message holds certificates of its round that are in the store.
Stored(certs, m) == m \in Messages /\ m.parents \subseteq InRound(certs, m.round)

\* The certificates on their way to the proposer.
FeedInv ==
  /\ store \in SUBSET Certificates /\ recovering \in SUBSET store
  /\ aggregators \in [1..MaxRound -> [used : SUBSET Authorities, certificates : SUBSET Certificates]]
  /\ \A r \in 1..MaxRound : aggregators[r].certificates \subseteq InRound(store, r)
  /\ outbox \in [Feeders -> Seq(Messages)]
  /\ \A f \in Feeders : outbox[f] = <<>> \/ \E m : Stored(store, m) /\ outbox[f] = <<m>>
  /\ tx_parents \in Seq(Messages) /\ \A i \in 1..Len(tx_parents) : Stored(store, tx_parents[i])
  /\ last_parents \subseteq Known(store, round)

\* The loop, its flags and numbers.
LoopInv ==
  /\ pc \in {"top", "send", "select"} /\ round \in 0..MaxRound /\ last_leader \in 0..MaxRound
  /\ commit_round \in 0..MaxRound /\ advance \in BOOLEAN /\ elapsed \in {"none", "min", "max"}
  /\ restarts \in 0..MaxRestarts

\* The headers, one a round among those that are tracked.
HeaderInv ==
  /\ sent \subseteq Headers /\ proposed_headers \subseteq Headers /\ last_proposed \in Headers
  /\ certified \subseteq sent /\ sequenced \subseteq certified
  /\ IsFiniteSet(proposed_headers) /\ \A h \in proposed_headers : h.round <= round
  /\ \A g, h \in proposed_headers : g.round = h.round => g = h
  /\ digests \in Seq(Digests) /\ reported \subseteq Digests

\* If the proposer may advance from an even round, it has the leader.
LeaderInv ==
  (advance /\ round % 2 = 0 /\ last_parents # {}) => LeaderOf[round] \in Origins(last_parents)

ShapeInv == FeedInv /\ LoopInv /\ HeaderInv /\ LeaderInv

-----------------------------------------------------------------------------
(* Quorums, certificates, messages.                                        *)

\* More authorities are a quorum if fewer are.
LEMMA QuorumGrows ==
  ASSUME NEW S \in SUBSET Authorities, NEW T \in SUBSET Authorities, S \subseteq T, IsQuorum(S)
  PROVE  IsQuorum(T)
<1>1. StakeOf(S) \in Nat /\ StakeOf(T) \in Nat /\ StakeOf(S) <= StakeOf(T)
  BY StakeOfAssumption, Zenon
<1>2. StakeOf(Authorities) \in Nat
  BY StakeOfAssumption, Zenon
<1>3. quorum_threshold \in Nat
  BY <1>2 DEF quorum_threshold, total_votes
<1> QED BY <1>1, <1>3 DEF IsQuorum

\* Nobody is no quorum.
LEMMA NoEmptyQuorum == ~ IsQuorum({})
<1>1. StakeOf(Authorities) \in Nat
  BY StakeOfAssumption, Zenon
<1>2. quorum_threshold \in Nat /\ quorum_threshold >= 1
  BY <1>1 DEF quorum_threshold, total_votes
<1>3. StakeOf({}) = 0
  BY TotalAssumption, Zenon
<1> QED BY <1>2, <1>3 DEF IsQuorum

\* All together are one.
LEMMA AllAreQuorum == IsQuorum(Authorities)
<1> DEFINE t == StakeOf(Authorities)
<1>1. t \in Nat /\ t > 0
  BY StakeOfAssumption, TotalAssumption, Zenon DEF total_votes
<1> HIDE DEF t
<1>2. (2 * t) \div 3 + 1 <= t
  BY <1>1
<1> QED BY <1>2, Zenon DEF IsQuorum, quorum_threshold, total_votes, t

\* The origins of certificates are authorities; those of the genesis are all.
LEMMA OriginsType ==
  ASSUME NEW S \in SUBSET (Certificates \cup Genesis)
  PROVE  Origins(S) \in SUBSET Authorities
  BY Zenon DEF Origins, Certificates, Genesis

\* The genesis has a certificate of everybody.
LEMMA GenesisOrigins == Origins(Genesis) = Authorities /\ Genesis # {}
<1> USE Zenon
<1>1. ASSUME NEW a \in Authorities PROVE a \in Origins(Genesis)
  <2>1. [origin |-> a, round |-> 0, votes |-> FALSE] \in Genesis
    BY DEF Genesis
  <2> QED BY <2>1, SMT DEF Origins
<1>2. Origins(Genesis) \subseteq Authorities
  BY DEF Origins, Genesis
<1>3. Me \in Authorities
  BY ProposerAssumption
<1>4. Genesis # {}
  BY <1>1, <1>3 DEF Origins
<1> QED BY <1>1, <1>2, <1>4

\* More certificates have more origins.
LEMMA OriginsGrow ==
  ASSUME NEW S, NEW T, S \subseteq T
  PROVE  Origins(S) \subseteq Origins(T)
  BY Zenon DEF Origins

\* The origins of two sets together.
LEMMA OriginsOfUnion ==
  ASSUME NEW S, NEW T
  PROVE  Origins(S \cup T) = Origins(S) \cup Origins(T)
  BY Zenon DEF Origins

\* One more certificate.
LEMMA OriginsAdd ==
  ASSUME NEW S, NEW c
  PROVE  Origins(S \cup {c}) = Origins(S) \cup {c.origin}
  BY Zenon DEF Origins

\* A round holds more when the store does.
LEMMA InRoundGrows ==
  ASSUME NEW S, NEW T, S \subseteq T, NEW r
  PROVE  InRound(S, r) \subseteq InRound(T, r) /\ Known(S, r) \subseteq Known(T, r)
  BY Zenon DEF InRound, Known

\* What parents are taken from are certificates.
LEMMA KnownType ==
  ASSUME NEW S \in SUBSET Certificates, NEW r
  PROVE  Known(S, r) \in SUBSET (Certificates \cup Genesis) /\ InRound(S, r) \in SUBSET Certificates
  BY Zenon DEF InRound, Known

\* A message stays good when the store grows.
LEMMA StoredGrows ==
  ASSUME NEW S, NEW T, S \subseteq T, NEW m, Stored(S, m)
  PROVE  Stored(T, m)
  BY InRoundGrows, Zenon DEF Stored

-----------------------------------------------------------------------------
(* append.                                                                 *)

\* What append counts, holds and hands over for certificate c.
Used(A, c) == A[c.round].used \cup {c.origin}
HeldBy(A, c) == A[c.round].certificates \cup {c}
MessageOf(A, f, c) == [parents |-> HeldBy(A, c), round |-> c.round, from |-> f]
Add(A, c, K) == [A EXCEPT ![c.round] = [used |-> Used(A, c), certificates |-> K]]

Aggregators == [1..MaxRound -> [used : SUBSET Authorities, certificates : SUBSET Certificates]]

\* append does nothing, hands over a message, or holds the certificate.
LEMMA AppendCases ==
  ASSUME NEW f, NEW c, append(f, c)
  PROVE  \/ /\ c.origin \in aggregators[c.round].used
            /\ aggregators' = aggregators /\ outbox' = outbox
         \/ /\ c.origin \notin aggregators[c.round].used /\ IsQuorum(Used(aggregators, c))
            /\ aggregators' = Add(aggregators, c, {})
            /\ outbox' = [outbox EXCEPT ![f] = <<MessageOf(aggregators, f, c)>>]
         \/ /\ c.origin \notin aggregators[c.round].used /\ ~ IsQuorum(Used(aggregators, c))
            /\ aggregators' = Add(aggregators, c, HeldBy(aggregators, c))
            /\ outbox' = outbox
<1> USE Zenon
<1> DEFINE U == aggregators[c.round].used \cup {c.origin}
           H == aggregators[c.round].certificates \cup {c}
<1>1. IF c.origin \in aggregators[c.round].used THEN aggregators' = aggregators /\ outbox' = outbox
      ELSE IF IsQuorum(U)
           THEN /\ aggregators' = [aggregators EXCEPT ![c.round] = [used |-> U, certificates |-> {}]]
                /\ outbox' = [outbox EXCEPT ![f] = <<[parents |-> H, round |-> c.round, from |-> f]>>]
           ELSE /\ aggregators' = [aggregators EXCEPT ![c.round] = [used |-> U, certificates |-> H]]
                /\ outbox' = outbox
  BY DEF append
<1>2. U = Used(aggregators, c) /\ H = HeldBy(aggregators, c)
  BY DEF Used, HeldBy
<1> HIDE DEF U, H
<1> QED BY <1>1, <1>2 DEF Add, MessageOf

\* The aggregators after one more certificate.
LEMMA AddParts ==
  ASSUME NEW A \in Aggregators, NEW c \in Certificates, NEW K \in SUBSET Certificates
  PROVE  /\ Add(A, c, K) \in Aggregators
         /\ Add(A, c, K)[c.round].used = Used(A, c) /\ Add(A, c, K)[c.round].certificates = K
         /\ \A r \in 1..MaxRound : r # c.round => Add(A, c, K)[r] = A[r]
         /\ Used(A, c) \in SUBSET Authorities /\ HeldBy(A, c) \in SUBSET Certificates
<1> USE Zenon
<1>1. c.round \in 1..MaxRound /\ c.origin \in Authorities
  BY DEF Certificates
<1>2. A[c.round] \in [used : SUBSET Authorities, certificates : SUBSET Certificates]
  BY <1>1 DEF Aggregators
<1>3. Used(A, c) \in SUBSET Authorities
  BY <1>1, <1>2 DEF Used
<1>4. HeldBy(A, c) \in SUBSET Certificates
  BY <1>2 DEF HeldBy
<1> DEFINE e == [used |-> Used(A, c), certificates |-> K]
<1>5. e \in [used : SUBSET Authorities, certificates : SUBSET Certificates]
      /\ e.used = Used(A, c) /\ e.certificates = K
  BY <1>3
<1>6. Add(A, c, K) = [A EXCEPT ![c.round] = e]
  BY DEF Add
<1> HIDE DEF e
<1>7. Add(A, c, K) \in Aggregators /\ Add(A, c, K)[c.round] = e
      /\ \A r \in 1..MaxRound : r # c.round => Add(A, c, K)[r] = A[r]
  BY <1>1, <1>5, <1>6 DEF Aggregators
<1> QED BY <1>3, <1>4, <1>5, <1>7

\* What it hands over is a message.
LEMMA MessageType ==
  ASSUME NEW A \in Aggregators, NEW c \in Certificates, NEW f \in Feeders,
         NEW S, c \in S, A[c.round].certificates \subseteq InRound(S, c.round)
  PROVE  /\ Stored(S, MessageOf(A, f, c))
         /\ MessageOf(A, f, c).parents = HeldBy(A, c)
         /\ MessageOf(A, f, c).round = c.round /\ MessageOf(A, f, c).from = f
         /\ HeldBy(A, c) \subseteq InRound(S, c.round)
<1> USE Zenon
<1>1. c.round \in 1..MaxRound
  BY DEF Certificates
<1>2. HeldBy(A, c) \in SUBSET Certificates
  BY AddParts
<1>3. HeldBy(A, c) \subseteq InRound(S, c.round)
  BY DEF HeldBy, InRound
<1>4. MessageOf(A, f, c) \in Messages
  BY <1>1, <1>2 DEF MessageOf, Messages
<1>5. /\ MessageOf(A, f, c).parents = HeldBy(A, c)
      /\ MessageOf(A, f, c).round = c.round /\ MessageOf(A, f, c).from = f
  BY DEF MessageOf
<1> QED BY <1>3, <1>4, <1>5 DEF Stored

-----------------------------------------------------------------------------
(* Requeued.                                                               *)

\* A slot is a place in the payload of one of the headers.
LEMMA SlotParts ==
  ASSUME NEW P \in SUBSET Headers, NEW t
  PROVE  t \in Slots(P) <=> /\ t = <<t[1], t[2]>> /\ t[1] \in P
                            /\ t[2] \in 1..Len(t[1].payload)
  BY DEF Slots

\* There are finitely many of them,
LEMMA SlotsFinite ==
  ASSUME NEW P \in SUBSET Headers, IsFiniteSet(P)
  PROVE  IsFiniteSet(Slots(P)) /\ Cardinality(Slots(P)) \in Nat
<1> USE Zenon
<1> DEFINE C(h) == {h} \X (1..Len(h.payload))
           D == {C(h) : h \in P}
           f == [h \in P |-> C(h)]
<1>1. f \in Surjection(P, D)
  BY DEF Surjection
<1>2. IsFiniteSet(D)
  BY <1>1, FS_Surjection
<1>3. ASSUME NEW h \in P PROVE IsFiniteSet(C(h))
  <2>1. Len(h.payload) \in Nat
    BY SMT DEF Headers
  <2>2. IsFiniteSet(1..Len(h.payload))
    BY <2>1, FS_Interval, SMT
  <2>3. IsFiniteSet({h})
    BY FS_Singleton
  <2> QED BY <2>2, <2>3, FS_Product
<1>4. \A c \in D : IsFiniteSet(c)
  BY <1>3
<1>5. Slots(P) = UNION D
  BY DEF Slots
<1> HIDE DEF D
<1>6. IsFiniteSet(Slots(P))
  BY <1>2, <1>4, <1>5, FS_UNION
<1> QED BY <1>6, FS_CardinalityType

\* and, if the headers are of different rounds, each has a rank of its own.
LEMMA BeforeIsTotal ==
  ASSUME NEW P \in SUBSET Headers, \A g, h \in P : g.round = h.round => g = h,
         NEW s \in Slots(P), NEW t \in Slots(P)
  PROVE  /\ ~ Before(s, s)
         /\ s # t => Before(s, t) \/ Before(t, s)
         /\ \A u \in Slots(P) : Before(u, s) /\ Before(s, t) => Before(u, t)
<1>1. \A u \in Slots(P) : /\ u = <<u[1], u[2]>> /\ u[1] \in P
                          /\ u[2] \in Nat /\ u[1].round \in Nat
  <2> SUFFICES ASSUME NEW u \in Slots(P)
               PROVE  u = <<u[1], u[2]>> /\ u[1] \in P /\ u[2] \in Nat /\ u[1].round \in Nat
    OBVIOUS
  <2>1. u = <<u[1], u[2]>> /\ u[1] \in P /\ u[2] \in 1..Len(u[1].payload)
    BY SlotParts, Zenon
  <2> QED BY <2>1 DEF Headers
<1>2. ~ Before(s, s)
  BY <1>1 DEF Before
<1>3. s # t => Before(s, t) \/ Before(t, s)
  <2> SUFFICES ASSUME ~ Before(s, t), ~ Before(t, s) PROVE s = t
    OBVIOUS
  <2>1. s[1].round = t[1].round /\ s[2] = t[2]
    BY <1>1 DEF Before
  <2>2. s[1] = t[1]
    BY <1>1, <2>1, Zenon
  <2> QED BY <1>1, <2>1, <2>2, Zenon
<1>4. ASSUME NEW u \in Slots(P), Before(u, s), Before(s, t) PROVE Before(u, t)
  BY <1>1, <1>4 DEF Before
<1> QED BY <1>2, <1>3, <1>4, Zenon

\* The slots have ranks from 1 to their number, no two the same.
LEMMA RanksAreDistinct ==
  ASSUME NEW P \in SUBSET Headers, IsFiniteSet(P), \A g, h \in P : g.round = h.round => g = h,
         NEW s \in Slots(P), NEW t \in Slots(P)
  PROVE  /\ Rank(Slots(P), s) \in 1..Cardinality(Slots(P))
         /\ Rank(Slots(P), s) = Rank(Slots(P), t) => s = t
<1> USE Zenon
<1> DEFINE S == Slots(P)
           E(u) == {v \in S : Before(v, u)}
<1>1. IsFiniteSet(S) /\ Cardinality(S) \in Nat
  BY SlotsFinite
<1>2. ASSUME NEW u \in S
      PROVE  /\ IsFiniteSet(E(u)) /\ Cardinality(E(u)) \in Nat /\ u \notin E(u)
             /\ IsFiniteSet(E(u) \cup {u}) /\ Cardinality(E(u) \cup {u}) = Cardinality(E(u)) + 1
             /\ Cardinality(E(u)) + 1 <= Cardinality(S)
             /\ Rank(S, u) = Cardinality(E(u)) + 1
  <2> DEFINE F == E(u)
  <2>1. u \notin F /\ F \in SUBSET S
    BY BeforeIsTotal
  <2>5. Rank(S, u) = Cardinality(F) + 1
    BY DEF Rank
  <2> HIDE DEF F, S
  <2>2. IsFiniteSet(F)
    BY <1>1, <2>1, FS_Subset
  <2>3. Cardinality(F) \in Nat /\ IsFiniteSet(F \cup {u}) /\ Cardinality(F \cup {u}) = Cardinality(F) + 1
    BY <2>1, <2>2, FS_AddElement, FS_CardinalityType
  <2>4. F \cup {u} \in SUBSET S
    BY <1>2, <2>1
  <2>6. Cardinality(F \cup {u}) <= Cardinality(S)
    BY <1>1, <2>4, FS_Subset
  <2>7. Cardinality(F) + 1 <= Cardinality(S)
    BY <2>3, <2>6
  <2> QED BY <2>1, <2>2, <2>3, <2>5, <2>7 DEF F
<1>3. ASSUME NEW u \in S, NEW v \in S, Before(u, v)
      PROVE  Cardinality(E(u)) < Cardinality(E(v))
  <2>1. E(u) \cup {u} \in SUBSET E(v)
    <3>1. ASSUME NEW w \in E(u) PROVE w \in E(v)
      BY <1>3, BeforeIsTotal
    <3> QED BY <1>3, <3>1
  <2>2. /\ IsFiniteSet(E(v)) /\ Cardinality(E(u)) \in Nat /\ Cardinality(E(v)) \in Nat
        /\ Cardinality(E(u) \cup {u}) = Cardinality(E(u)) + 1
    BY <1>2
  <2> HIDE DEF E
  <2>3. Cardinality(E(u) \cup {u}) <= Cardinality(E(v))
    BY <2>1, <2>2, FS_Subset
  <2> QED BY <2>2, <2>3, SMT
<1>4. Rank(S, s) \in 1..Cardinality(S)
  <2>1. /\ Cardinality(E(s)) \in Nat /\ Cardinality(E(s)) + 1 <= Cardinality(S)
        /\ Rank(S, s) = Cardinality(E(s)) + 1
    BY <1>2
  <2> HIDE DEF E, S
  <2> QED BY <1>1, <2>1, SMT
<1>5. ASSUME Rank(S, s) = Rank(S, t) PROVE s = t
  <2>1. /\ Cardinality(E(s)) \in Nat /\ Cardinality(E(t)) \in Nat
        /\ Rank(S, s) = Cardinality(E(s)) + 1 /\ Rank(S, t) = Cardinality(E(t)) + 1
    BY <1>2
  <2>2. Before(s, t) => Cardinality(E(s)) < Cardinality(E(t))
    BY <1>3
  <2>3. Before(t, s) => Cardinality(E(t)) < Cardinality(E(s))
    BY <1>3
  <2>4. s # t => Before(s, t) \/ Before(t, s)
    BY BeforeIsTotal
  <2> DEFINE a == Cardinality(E(s))
             b == Cardinality(E(t))
  <2>5. a \in Nat /\ b \in Nat /\ a + 1 = b + 1
    BY <1>5, <2>1
  <2>6. (Before(s, t) => a < b) /\ (Before(t, s) => b < a)
    BY <2>2, <2>3
  <2> HIDE DEF a, b
  <2>7. ~ (a < b) /\ ~ (b < a)
    BY <2>5, SMT
  <2> QED BY <2>4, <2>6, <2>7
<1> QED BY <1>4, <1>5

\* Requeued, for some queue of digests and some headers.
Queued(P, D) ==
  LET slots == Slots(P)
      Slot(k) == CHOOSE t \in slots : Rank(slots, t) = k
  IN [k \in 1..Cardinality(slots) |-> Slot(k)[1].payload[Slot(k)[2]]] \o D

\* It keeps the digests that are queued, adds those of the headers and no other,
\* and changes nothing if there are no headers.
LEMMA RequeuedDigests ==
  ASSUME NEW P \in SUBSET Headers, IsFiniteSet(P), \A g, h \in P : g.round = h.round => g = h,
         NEW D \in Seq(Digests)
  PROVE  /\ Queued(P, D) \in Seq(Digests)
         /\ Range(Queued(P, D)) = Range(D) \cup UNION {PayloadOf(h) : h \in P}
         /\ P = {} => Queued(P, D) = D
<1> USE Zenon
<1> DEFINE S == Slots(P)
           n == Cardinality(S)
           Slot(k) == CHOOSE t \in S : Rank(S, t) = k
           q == [k \in 1..n |-> Slot(k)[1].payload[Slot(k)[2]]]
<1>1. IsFiniteSet(S) /\ n \in Nat
  BY SlotsFinite
<1>2. /\ \A t \in S : Rank(S, t) \in 1..n
      /\ \A s, t \in S : Rank(S, s) = Rank(S, t) => s = t
  BY RanksAreDistinct
<1>3. \A k \in 1..n : \E t \in S : Rank(S, t) = k
  <2> DEFINE f == [t \in S |-> Rank(S, t)]
  <2>1. f \in Injection(S, 1..n)
    <3> HIDE DEF S, n
    <3> QED BY <1>2 DEF Injection, IsInjective
  <2>2. IsFiniteSet(1..n) /\ Cardinality(1..n) = n
    <3> HIDE DEF n
    <3> QED BY <1>1, FS_Interval, SMT
  <2>3. f \in Surjection(S, 1..n)
    <3>1. Cardinality(S) = Cardinality(1..n)
      BY <2>2
    <3> HIDE DEF f, S, n
    <3> QED BY <2>1, <2>2, <3>1, FS_Injection
  <2> HIDE DEF S, n
  <2> QED BY <2>3 DEF Surjection
<1>4. ASSUME NEW k \in 1..n
      PROVE  Slot(k) \in S /\ Rank(S, Slot(k)) = k
  <2> HIDE DEF S
  <2> QED BY <1>3, <1>4
<1>5. ASSUME NEW t \in S
      PROVE  Slot(Rank(S, t)) = t
  <2>1. Rank(S, t) \in 1..n
    BY <1>2
  <2>2. Slot(Rank(S, t)) \in S /\ Rank(S, Slot(Rank(S, t))) = Rank(S, t)
    BY <1>4, <2>1
  <2> HIDE DEF S, Slot
  <2> QED BY <1>2, <1>5, <2>2
<1>6. ASSUME NEW t \in S
      PROVE  /\ t[1] \in P /\ t[1].payload \in Seq(Digests) /\ t[2] \in 1..Len(t[1].payload)
             /\ t[1].payload[t[2]] \in Digests /\ t[1].payload[t[2]] \in PayloadOf(t[1])
  <2>1. t[1] \in P /\ t[2] \in 1..Len(t[1].payload)
    BY SlotParts
  <2>2. t[1].payload \in Seq(Digests)
    BY <2>1 DEF Headers
  <2> QED BY <2>1, <2>2, SMT DEF PayloadOf, Range
<1>7. ASSUME NEW h \in P, NEW x \in PayloadOf(h)
      PROVE  \E t \in S : x = t[1].payload[t[2]]
  <2>1. h.payload \in Seq(Digests)
    BY DEF Headers
  <2>2. PICK i \in 1..Len(h.payload) : x = h.payload[i]
    BY <2>1, SMT DEF PayloadOf, Range
  <2> DEFINE t == <<h, i>>
  <2>3. t = <<t[1], t[2]>> /\ t[1] = h /\ t[2] = i
    BY SMT
  <2> HIDE DEF t
  <2>4. t \in S
    BY <2>3, SlotParts
  <2> QED BY <2>2, <2>3, <2>4
<1> HIDE DEF S, n, Slot
<1>8. q \in Seq(Digests) /\ Len(q) = n /\ \A k \in 1..n : q[k] = Slot(k)[1].payload[Slot(k)[2]]
  <2>1. \A k \in 1..n : Slot(k)[1].payload[Slot(k)[2]] \in Digests
    BY <1>4, <1>6
  <2> QED BY <1>1, <2>1, SMT
<1>9. Queued(P, D) = q \o D
  BY DEF Queued, S, n, Slot
<1> HIDE DEF q
<1>10. Range(q) = UNION {PayloadOf(h) : h \in P}
  <2>1. ASSUME NEW x \in Range(q) PROVE \E h \in P : x \in PayloadOf(h)
    <3>1. PICK k \in 1..n : x = q[k]
      BY <1>1, <1>8, SMT DEF Range
    <3>2. Slot(k) \in S
      BY <1>4
    <3> QED BY <1>6, <1>8, <3>1, <3>2
  <2>2. ASSUME NEW h \in P, NEW x \in PayloadOf(h) PROVE x \in Range(q)
    <3>1. PICK t \in S : x = t[1].payload[t[2]]
      BY <1>7, <2>2
    <3>2. Rank(S, t) \in 1..n /\ Slot(Rank(S, t)) = t
      BY <1>2, <1>5
    <3>3. q[Rank(S, t)] = x
      BY <1>8, <3>1, <3>2
    <3> QED BY <1>1, <1>8, <3>2, <3>3, SMT DEF Range
  <2> QED BY <2>1, <2>2
<1>11. Range(q \o D) = Range(q) \cup Range(D)
  <2>0. q \in Seq(Digests) /\ Len(q) \in Nat /\ Len(D) \in Nat
    BY <1>8, SMT
  <2>1. Len(q \o D) = Len(q) + Len(D) /\ q \o D \in Seq(Digests)
    BY <2>0, SMT
  <2>2. \A i \in 1..Len(q) : (q \o D)[i] = q[i]
    BY <2>0, SMT
  <2>3. \A i \in 1..Len(D) : (q \o D)[Len(q) + i] = D[i]
    BY <2>0, SMT
  <2>4. ASSUME NEW i \in 1..Len(q \o D)
        PROVE  (q \o D)[i] \in Range(q) \cup Range(D)
    <3>1. CASE i \in 1..Len(q)
      BY <2>0, <2>2, <3>1, SMT DEF Range
    <3>2. CASE i \notin 1..Len(q)
      <4>1. i - Len(q) \in 1..Len(D) /\ Len(q) + (i - Len(q)) = i
        BY <2>0, <2>1, <3>2, SMT
      <4>2. (q \o D)[i] = D[i - Len(q)]
        BY <2>3, <4>1
      <4> QED BY <4>1, <4>2, SMT DEF Range
    <3> QED BY <3>1, <3>2
  <2>5. ASSUME NEW x \in Range(q) PROVE x \in Range(q \o D)
    <3>1. PICK i \in 1..Len(q) : x = q[i]
      BY <2>0, SMT DEF Range
    <3>2. i \in 1..Len(q \o D) /\ (q \o D)[i] = x
      BY <2>0, <2>1, <2>2, <3>1, SMT
    <3> QED BY <2>1, <3>2, SMT DEF Range
  <2>6. ASSUME NEW x \in Range(D) PROVE x \in Range(q \o D)
    <3>1. PICK i \in 1..Len(D) : x = D[i]
      BY SMT DEF Range
    <3>2. Len(q) + i \in 1..Len(q \o D) /\ (q \o D)[Len(q) + i] = x
      BY <2>0, <2>1, <2>3, <3>1, SMT
    <3> QED BY <2>1, <3>2, SMT DEF Range
  <2>7. ASSUME NEW x \in Range(q \o D) PROVE x \in Range(q) \cup Range(D)
    <3>1. PICK i \in 1..Len(q \o D) : x = (q \o D)[i]
      BY <2>1, SMT DEF Range
    <3> QED BY <2>4, <3>1
  <2> QED BY <2>5, <2>6, <2>7
<1>12. ASSUME P = {} PROVE q \o D = D
  <2>1. S = {}
    BY <1>12 DEF S, Slots
  <2>2. n = 0
    BY <2>1, FS_EmptySet DEF n
  <2> QED BY <1>8, <2>2, SMT
<1>13. q \o D \in Seq(Digests)
  BY <1>8, SMT
<1> QED BY <1>9, <1>10, <1>11, <1>12, <1>13

-----------------------------------------------------------------------------
(* The certificates on their way to the proposer.                          *)

\* A channel or outbox whose messages are in the store.
Boxes(S, B) ==
  /\ B \in [Feeders -> Seq(Messages)]
  /\ \A f \in Feeders : B[f] = <<>> \/ \E m : Stored(S, m) /\ B[f] = <<m>>
Channel(S, Q) == Q \in Seq(Messages) /\ \A i \in 1..Len(Q) : Stored(S, Q[i])
Holds(S, A) == A \in Aggregators /\ \A r \in 1..MaxRound : A[r].certificates \subseteq InRound(S, r)

\* FeedInv, one fact at a time, and put together.
LEMMA FeedParts ==
  FeedInv <=> /\ store \in SUBSET Certificates /\ recovering \in SUBSET store
              /\ Holds(store, aggregators) /\ Boxes(store, outbox) /\ Channel(store, tx_parents)
              /\ last_parents \subseteq Known(store, round)
  BY Zenon DEF FeedInv, Holds, Boxes, Channel, Aggregators

\* The same of the next state.
LEMMA FeedPartsNext ==
  FeedInv' <=> /\ store' \in SUBSET Certificates /\ recovering' \in SUBSET store'
               /\ Holds(store', aggregators') /\ Boxes(store', outbox') /\ Channel(store', tx_parents')
               /\ last_parents' \subseteq Known(store', round')
  BY Zenon DEF FeedInv, Holds, Boxes, Channel, Aggregators

\* All that stays good when the store grows.
LEMMA FeedGrows ==
  ASSUME NEW S, NEW T, S \subseteq T, NEW A, NEW B, NEW Q
  PROVE  /\ Holds(S, A) => Holds(T, A)
         /\ Boxes(S, B) => Boxes(T, B)
         /\ Channel(S, Q) => Channel(T, Q)
<1> USE Zenon
<1>1. Holds(S, A) => Holds(T, A)
  <2>1. \A r : InRound(S, r) \subseteq InRound(T, r)
    BY InRoundGrows
  <2> QED BY <2>1 DEF Holds
<1>2. Boxes(S, B) => Boxes(T, B)
  BY StoredGrows DEF Boxes
<1>3. Channel(S, Q) => Channel(T, Q)
  BY StoredGrows DEF Channel
<1> QED BY <1>1, <1>2, <1>3

\* append, from a certificate that is in the store.
LEMMA AppendKeepsFeed ==
  ASSUME NEW S \in SUBSET Certificates, NEW f \in Feeders, NEW c \in S, append(f, c),
         Holds(S, aggregators), Boxes(S, outbox)
  PROVE  Holds(S, aggregators') /\ Boxes(S, outbox')
<1> USE Zenon
<1>1. aggregators \in Aggregators /\ c \in Certificates /\ c.round \in 1..MaxRound
  BY DEF Holds, Certificates
<1>2. aggregators[c.round].certificates \subseteq InRound(S, c.round)
  BY <1>1 DEF Holds
<1> DEFINE M == MessageOf(aggregators, f, c)
           H == HeldBy(aggregators, c)
<1>3. Stored(S, M) /\ H \subseteq InRound(S, c.round)
  BY <1>1, <1>2, MessageType
<1>4. H \in SUBSET Certificates /\ {} \in SUBSET Certificates
  BY <1>1, AddParts
<1>5. ASSUME NEW K \in SUBSET Certificates, K \subseteq InRound(S, c.round)
      PROVE  Holds(S, Add(aggregators, c, K))
  <2>1. /\ Add(aggregators, c, K) \in Aggregators /\ Add(aggregators, c, K)[c.round].certificates = K
        /\ \A r \in 1..MaxRound : r # c.round => Add(aggregators, c, K)[r] = aggregators[r]
    BY <1>1, <1>5, AddParts
  <2> QED BY <1>5, <2>1 DEF Holds
<1>6. CASE aggregators' = aggregators /\ outbox' = outbox
  BY <1>6
<1>7. CASE /\ aggregators' = Add(aggregators, c, {})
           /\ outbox' = [outbox EXCEPT ![f] = <<M>>]
  <2>1. Holds(S, aggregators')
    <3>1. {} \subseteq InRound(S, c.round)
      BY SMT
    <3> QED BY <1>4, <1>5, <1>7, <3>1
  <2>2. Boxes(S, outbox')
    <3> HIDE DEF M
    <3>1. M \in Messages
      BY <1>3 DEF Stored
    <3>2. <<M>> \in Seq(Messages)
      BY <3>1, SMT
    <3>3. outbox \in [Feeders -> Seq(Messages)]
      BY DEF Boxes
    <3>4. /\ outbox' \in [Feeders -> Seq(Messages)] /\ outbox'[f] = <<M>>
          /\ \A g \in Feeders : g # f => outbox'[g] = outbox[g]
      BY <1>7, <3>2, <3>3
    <3> QED BY <1>3, <3>4 DEF Boxes
  <2> QED BY <2>1, <2>2
<1>8. CASE aggregators' = Add(aggregators, c, H) /\ outbox' = outbox
  BY <1>3, <1>4, <1>5, <1>8
<1>9. \/ aggregators' = aggregators /\ outbox' = outbox
      \/ aggregators' = Add(aggregators, c, {}) /\ outbox' = [outbox EXCEPT ![f] = <<M>>]
      \/ aggregators' = Add(aggregators, c, H) /\ outbox' = outbox
  BY AppendCases
<1> HIDE DEF M, H
<1> QED BY <1>6, <1>7, <1>8, <1>9

\* A certificate is accepted.
LEMMA AcceptKeepsFeed ==
  ASSUME FeedInv, NEW c \in Certificates, accept_certificate(c)
  PROVE  FeedInv'
<1> USE Zenon
<1>1. /\ store' = store \cup {c} /\ append("accept", c)
      /\ recovering' = recovering /\ tx_parents' = tx_parents
      /\ round' = round /\ last_parents' = last_parents
  BY DEF accept_certificate, proposer
<1>2. /\ store \in SUBSET Certificates /\ recovering \in SUBSET store
      /\ Holds(store, aggregators) /\ Boxes(store, outbox) /\ Channel(store, tx_parents)
      /\ last_parents \subseteq Known(store, round)
  BY FeedParts
<1>3. store \subseteq store' /\ store' \in SUBSET Certificates /\ c \in store' /\ recovering' \in SUBSET store'
  BY <1>1, <1>2
<1>4. Holds(store', aggregators) /\ Boxes(store', outbox) /\ Channel(store', tx_parents)
  BY <1>2, <1>3, FeedGrows
<1>5. "accept" \in Feeders
  BY DEF Feeders
<1>6. Holds(store', aggregators') /\ Boxes(store', outbox')
  BY <1>1, <1>3, <1>4, <1>5, AppendKeepsFeed
<1>7. last_parents' \subseteq Known(store', round')
  <2>1. Known(store, round) \subseteq Known(store', round)
    BY <1>3, InRoundGrows
  <2> QED BY <1>1, <1>2, <2>1
<1> QED BY <1>1, <1>3, <1>4, <1>6, <1>7, FeedPartsNext

\* The recovery task appends one.
LEMMA RecoverKeepsFeed ==
  ASSUME FeedInv, recover_parents
  PROVE  FeedInv'
<1> USE Zenon
<1>1. PICK c \in recovering : append("recovery", c) /\ recovering' = recovering \ {c}
  BY DEF recover_parents
<1>2. /\ store' = store /\ tx_parents' = tx_parents /\ round' = round /\ last_parents' = last_parents
  BY DEF recover_parents, proposer
<1>3. /\ store \in SUBSET Certificates /\ recovering \in SUBSET store
      /\ Holds(store, aggregators) /\ Boxes(store, outbox) /\ Channel(store, tx_parents)
      /\ last_parents \subseteq Known(store, round)
  BY FeedParts
<1>4. c \in store /\ recovering' \in SUBSET store
  BY <1>1, <1>3
<1>5. "recovery" \in Feeders
  BY DEF Feeders
<1>6. Holds(store, aggregators') /\ Boxes(store, outbox')
  BY <1>1, <1>3, <1>4, <1>5, AppendKeepsFeed
<1> QED BY <1>2, <1>3, <1>4, <1>6, FeedPartsNext

\* A feeder sends what it took out.
LEMMA SendParentsParts ==
  ASSUME FeedInv, NEW f \in Feeders, send_parents(f)
  PROVE  \E m : /\ Stored(store, m) /\ outbox[f] = <<m>> /\ Head(outbox[f]) = m
                /\ tx_parents' = Append(tx_parents, m)
                /\ outbox' = [outbox EXCEPT ![f] = <<>>]
<1> USE Zenon
<1>1. outbox[f] # <<>> /\ tx_parents' = Append(tx_parents, Head(outbox[f]))
      /\ outbox' = [outbox EXCEPT ![f] = <<>>]
  BY DEF send_parents
<1>2. PICK m : Stored(store, m) /\ outbox[f] = <<m>>
  BY <1>1, FeedParts DEF Boxes
<1>3. Head(outbox[f]) = m
  BY <1>2, SMT
<1> QED BY <1>1, <1>2, <1>3

\* The channel and the outboxes hold what is in the store.
LEMMA SendParentsKeepsFeed ==
  ASSUME FeedInv, NEW f \in Feeders, send_parents(f)
  PROVE  FeedInv'
<1> USE Zenon
<1>1. PICK m : /\ Stored(store, m) /\ tx_parents' = Append(tx_parents, m)
               /\ outbox' = [outbox EXCEPT ![f] = <<>>]
  BY SendParentsParts
<1>2. /\ store' = store /\ recovering' = recovering /\ aggregators' = aggregators
      /\ round' = round /\ last_parents' = last_parents
  BY DEF send_parents, proposer
<1>3. /\ store \in SUBSET Certificates /\ recovering \in SUBSET store
      /\ Holds(store, aggregators) /\ Boxes(store, outbox) /\ Channel(store, tx_parents)
      /\ last_parents \subseteq Known(store, round)
  BY FeedParts
<1>4. Channel(store, tx_parents')
  <2>1. m \in Messages /\ tx_parents \in Seq(Messages) /\ \A i \in 1..Len(tx_parents) : Stored(store, tx_parents[i])
    BY <1>1, <1>3 DEF Stored, Channel
  <2>2. /\ tx_parents' \in Seq(Messages) /\ Len(tx_parents') = Len(tx_parents) + 1
        /\ \A i \in 1..Len(tx_parents') : tx_parents'[i] = IF i <= Len(tx_parents) THEN tx_parents[i] ELSE m
    BY <1>1, <2>1, SMT
  <2>3. \A i \in 1..Len(tx_parents') : i <= Len(tx_parents) => i \in 1..Len(tx_parents)
    BY <2>1, <2>2, SMT
  <2> QED BY <1>1, <2>1, <2>2, <2>3 DEF Channel
<1>5. Boxes(store, outbox')
  <2>1. outbox \in [Feeders -> Seq(Messages)]
    BY <1>3 DEF Boxes
  <2>2. /\ outbox' \in [Feeders -> Seq(Messages)] /\ outbox'[f] = <<>>
        /\ \A g \in Feeders : g # f => outbox'[g] = outbox[g]
    BY <1>1, <2>1, SMT
  <2> QED BY <1>3, <2>2 DEF Boxes
<1> QED BY <1>2, <1>3, <1>4, <1>5, FeedPartsNext

\* The proposer takes the first message.
LEMMA ReceiveParts ==
  ASSUME FeedInv, receive_parents
  PROVE  LET m == tx_parents[1]
         IN  /\ Head(tx_parents) = m /\ Stored(store, m) /\ Len(tx_parents) >= 1
             /\ tx_parents' \in Seq(Messages) /\ Len(tx_parents') = Len(tx_parents) - 1
             /\ \A i \in 1..Len(tx_parents') : i + 1 \in 1..Len(tx_parents) /\ tx_parents'[i] = tx_parents[i + 1]
<1> USE Zenon
<1>1. tx_parents # <<>> /\ tx_parents' = Tail(tx_parents)
  BY DEF receive_parents
<1>2. tx_parents \in Seq(Messages) /\ \A i \in 1..Len(tx_parents) : Stored(store, tx_parents[i])
  BY FeedParts DEF Channel
<1>3. /\ Len(tx_parents) >= 1 /\ 1 \in 1..Len(tx_parents) /\ Head(tx_parents) = tx_parents[1]
      /\ tx_parents' \in Seq(Messages) /\ Len(tx_parents') = Len(tx_parents) - 1
      /\ \A i \in 1..Len(tx_parents') : i + 1 \in 1..Len(tx_parents) /\ tx_parents'[i] = tx_parents[i + 1]
  BY <1>1, <1>2, SMT
<1> QED BY <1>2, <1>3

\* Older parents are ignored, those of the round are added, later ones taken.
LEMMA ReceiveCases ==
  ASSUME FeedInv, LoopInv, receive_parents
  PROVE  LET m == tx_parents[1]
         IN  \/ /\ m.round < round /\ round' = round /\ last_parents' = last_parents
                /\ advance' = advance /\ last_leader' = last_leader /\ elapsed' = elapsed
             \/ /\ m.round = round /\ round' = round /\ last_parents' = last_parents \cup m.parents
                /\ elapsed' = elapsed /\ ready(last_parents', m.round)
             \/ /\ m.round > round /\ round' = m.round /\ last_parents' = m.parents
                /\ elapsed' = "none" /\ ready(last_parents', m.round)
<1> DEFINE m == tx_parents[1]
<1>1. Head(tx_parents) = m /\ Stored(store, m)
  BY ReceiveParts, Zenon
<1>2. IF m.round < round
      THEN /\ round' = round /\ last_parents' = last_parents
           /\ advance' = advance /\ last_leader' = last_leader /\ elapsed' = elapsed
      ELSE /\ round' = m.round
           /\ last_parents' = IF m.round > round THEN m.parents ELSE last_parents \cup m.parents
           /\ IF m.round > round THEN elapsed' = "none" ELSE elapsed' = elapsed
           /\ ready(last_parents', m.round)
  BY <1>1, Zenon DEF receive_parents
<1>3. m.round \in Nat /\ round \in Nat
  BY <1>1 DEF Stored, Messages, LoopInv
<1>4. m.round < round \/ (m.round = round /\ ~ (m.round < round) /\ ~ (m.round > round))
      \/ (m.round > round /\ ~ (m.round < round))
  BY <1>3
<1> QED BY <1>2, <1>4, Zenon

\* The parents the proposer has are in the store, and of its round.
LEMMA ReceiveKeepsFeed ==
  ASSUME FeedInv, LoopInv, receive_parents
  PROVE  FeedInv'
<1> USE Zenon
<1> DEFINE m == tx_parents[1]
<1>1. /\ store' = store /\ recovering' = recovering /\ aggregators' = aggregators /\ outbox' = outbox
  BY DEF receive_parents
<1>2. /\ store \in SUBSET Certificates /\ recovering \in SUBSET store
      /\ Holds(store, aggregators) /\ Boxes(store, outbox) /\ Channel(store, tx_parents)
      /\ last_parents \subseteq Known(store, round)
  BY FeedParts
<1>3. /\ Stored(store, m) /\ tx_parents' \in Seq(Messages)
      /\ \A i \in 1..Len(tx_parents') : i + 1 \in 1..Len(tx_parents) /\ tx_parents'[i] = tx_parents[i + 1]
  BY ReceiveParts
<1>4. Channel(store, tx_parents')
  BY <1>2, <1>3 DEF Channel
<1>5. m.parents \subseteq Known(store, m.round)
  <2>1. m.round # 0 /\ m.parents \subseteq InRound(store, m.round)
    BY <1>3, SMT DEF Stored, Messages
  <2> QED BY <2>1 DEF Known
<1>6. last_parents' \subseteq Known(store, round')
  <2>1. CASE round' = round /\ last_parents' = last_parents
    BY <1>2, <2>1
  <2>2. CASE m.round = round /\ round' = round /\ last_parents' = last_parents \cup m.parents
    BY <1>2, <1>5, <2>2
  <2>3. CASE round' = m.round /\ last_parents' = m.parents
    BY <1>5, <2>3
  <2> QED BY <2>1, <2>2, <2>3, ReceiveCases
<1> QED BY <1>1, <1>2, <1>4, <1>6, FeedPartsNext

\* Nothing is on its way at the start; a crash leaves the store.
LEMMA EmptyFeed ==
  ASSUME NEW S
  PROVE  Holds(S, NoAggregators) /\ Boxes(S, NoOutbox) /\ Channel(S, <<>>) /\ Genesis \subseteq Known(S, 0)
<1> USE Zenon
<1>1. \A r \in 1..MaxRound : NoAggregators[r].certificates = {}
  BY DEF NoAggregators
<1>2. NoAggregators \in Aggregators
  BY DEF NoAggregators, Aggregators
<1>3. Holds(S, NoAggregators)
  BY <1>1, <1>2 DEF Holds
<1>4. Boxes(S, NoOutbox)
  BY SMT DEF Boxes, NoOutbox
<1>5. Channel(S, <<>>)
  BY SMT DEF Channel
<1> QED BY <1>3, <1>4, <1>5 DEF Known

\* After a crash.
LEMMA RestartKeepsFeed ==
  ASSUME FeedInv, Restart
  PROVE  FeedInv'
<1> USE Zenon
<1>1. /\ store' = store /\ recovering' = LastTwoRounds /\ aggregators' = NoAggregators
      /\ outbox' = NoOutbox /\ tx_parents' = <<>> /\ round' = 0 /\ last_parents' = Genesis
  BY DEF Restart
<1>2. LastTwoRounds \in SUBSET store
  BY DEF LastTwoRounds
<1>3. store \in SUBSET Certificates
  BY FeedParts
<1> QED BY <1>1, <1>2, <1>3, EmptyFeed, FeedPartsNext

\* A proposer that has no parents yet.
LEMMA ProposeKeepsFeed ==
  ASSUME FeedInv, propose
  PROVE  FeedInv'
<1>1. /\ store' = store /\ recovering' = recovering /\ aggregators' = aggregators
      /\ outbox' = outbox /\ tx_parents' = tx_parents /\ last_parents' = {}
  BY Zenon DEF propose, feed
<1>2. {} \subseteq Known(store, round')
  OBVIOUS
<1> QED BY <1>1, <1>2, FeedParts, FeedPartsNext, Zenon

-----------------------------------------------------------------------------
(* The proposer's loop.                                                    *)

\* A header takes the first digests of the queue; none is lost.
LEMMA CreateParts ==
  ASSUME HeaderInv, NEW r, create_new_header(r)
  PROVE  \/ /\ last_proposed.round = r
            /\ last_proposed' = last_proposed /\ proposed_headers' = proposed_headers /\ digests' = digests
         \/ \E h : /\ last_proposed.round # r /\ last_proposed' = h
                   /\ proposed_headers' = proposed_headers \cup {h}
                   /\ h = [round |-> r, payload |-> h.payload, parents |-> Origins(last_parents)]
                   /\ h.payload \in Seq(Digests) /\ digests' \in Seq(Digests)
                   /\ Range(digests) \subseteq PayloadOf(h) \cup Range(digests')
<1> DEFINE n == IF Len(digests) < MaxBatches THEN Len(digests) ELSE MaxBatches
           p == SubSeq(digests, 1, n)
           h == [round |-> r, payload |-> p, parents |-> Origins(last_parents)]
<1>1. digests \in Seq(Digests) /\ MaxBatches \in Nat
  BY ProposerAssumption, Zenon DEF HeaderInv
<1>2. n \in 0..Len(digests) /\ Len(digests) \in Nat
  BY <1>1
<1>3. IF last_proposed.round = r
      THEN last_proposed' = last_proposed /\ proposed_headers' = proposed_headers /\ digests' = digests
      ELSE /\ last_proposed' = h /\ proposed_headers' = proposed_headers \cup {h}
           /\ digests' = SubSeq(digests, n + 1, Len(digests))
  BY Zenon DEF create_new_header
<1> DEFINE q == SubSeq(digests, n + 1, Len(digests))
<1> HIDE DEF n
<1>4. /\ p \in Seq(Digests) /\ q \in Seq(Digests)
      /\ Len(p) = n /\ Len(q) = Len(digests) - n
      /\ \A i \in 1..Len(p) : p[i] = digests[i]
      /\ \A i \in 1..Len(q) : q[i] = digests[n + i]
  BY <1>1, <1>2
<1> HIDE DEF p, q
<1>5. Range(digests) \subseteq Range(p) \cup Range(q)
  <2> SUFFICES ASSUME NEW i \in 1..Len(digests) PROVE digests[i] \in Range(p) \cup Range(q)
    BY <1>1 DEF Range
  <2>1. CASE i <= n
    <3>1. i \in 1..Len(p)
      BY <1>2, <1>4, <2>1
    <3> QED BY <1>4, <3>1 DEF Range
  <2>2. CASE ~ (i <= n)
    <3>1. i - n \in 1..Len(q) /\ n + (i - n) = i
      BY <1>2, <1>4, <2>2
    <3>2. q[i - n] = digests[i]
      BY <1>4, <3>1, Zenon
    <3> QED BY <1>4, <3>1, <3>2 DEF Range
  <2> QED BY <2>1, <2>2, Zenon
<1>6. h.payload = p
  OBVIOUS
<1>7. h = [round |-> r, payload |-> h.payload, parents |-> Origins(last_parents)]
  BY <1>6, Zenon
<1> HIDE DEF h
<1> QED BY <1>3, <1>4, <1>5, <1>6, <1>7, Zenon DEF PayloadOf, q

\* propose, in terms of the header it makes.
LEMMA ProposeParts ==
  ASSUME ShapeInv, propose
  PROVE  /\ round' = round + 1 /\ round + 1 \in 1..MaxRound /\ last_parents # {} /\ last_parents' = {}
         /\ pc' = "send"
         /\ Origins(last_parents) \in SUBSET Authorities
         /\ \/ /\ last_proposed.round = round + 1
               /\ last_proposed' = last_proposed /\ proposed_headers' = proposed_headers /\ digests' = digests
            \/ \E h \in Headers :
                 /\ last_proposed.round # round + 1 /\ last_proposed' = h
                 /\ proposed_headers' = proposed_headers \cup {h}
                 /\ h.round = round + 1 /\ h.parents = Origins(last_parents)
                 /\ digests' \in Seq(Digests) /\ Range(digests) \subseteq PayloadOf(h) \cup Range(digests')
<1> USE Zenon
<1>1. FeedInv /\ LoopInv /\ HeaderInv
  BY DEF ShapeInv
<1>2. /\ round' = round + 1 /\ round < MaxHeader /\ create_new_header(round + 1)
      /\ last_parents # {} /\ last_parents' = {} /\ pc' = "send"
  BY DEF propose, CanPropose
<1>3. round + 1 \in 1..MaxRound
  <2>1. round \in Nat /\ MaxHeader \in Nat /\ MaxRound \in Nat /\ MaxHeader <= MaxRound
    BY <1>1, ProposerAssumption, SMT DEF LoopInv
  <2> QED BY <1>2, <2>1, SMT
<1>4. Origins(last_parents) \in SUBSET Authorities
  <2>1. store \in SUBSET Certificates /\ last_parents \subseteq Known(store, round)
    BY <1>1, FeedParts
  <2>2. last_parents \in SUBSET (Certificates \cup Genesis)
    BY <2>1, KnownType
  <2> QED BY <2>2, OriginsType
<1>5. ASSUME NEW h, h = [round |-> round + 1, payload |-> h.payload, parents |-> Origins(last_parents)],
             h.payload \in Seq(Digests)
      PROVE  h \in Headers /\ h.round = round + 1 /\ h.parents = Origins(last_parents)
  <2>1. round + 1 \in 0..MaxRound
    BY <1>3, SMT
  <2> DEFINE p == h.payload
             g == [round |-> round + 1, payload |-> p, parents |-> Origins(last_parents)]
  <2>2. h = g
    BY <1>5
  <2>3. p \in Seq(Digests)
    BY <1>5
  <2> HIDE DEF p
  <2>4. g \in Headers /\ g.round = round + 1 /\ g.parents = Origins(last_parents)
    BY <1>4, <2>1, <2>3 DEF Headers
  <2> QED BY <2>2, <2>4
<1>6. \/ /\ last_proposed.round = round + 1
         /\ last_proposed' = last_proposed /\ proposed_headers' = proposed_headers /\ digests' = digests
      \/ \E h : /\ last_proposed.round # round + 1 /\ last_proposed' = h
                /\ proposed_headers' = proposed_headers \cup {h}
                /\ h = [round |-> round + 1, payload |-> h.payload, parents |-> Origins(last_parents)]
                /\ h.payload \in Seq(Digests) /\ digests' \in Seq(Digests)
                /\ Range(digests) \subseteq PayloadOf(h) \cup Range(digests')
  BY <1>1, <1>2, CreateParts
<1> QED BY <1>2, <1>3, <1>4, <1>5, <1>6

\* The new header is of the new round, so its round had none.
LEMMA ProposeKeepsShape ==
  ASSUME ShapeInv, propose
  PROVE  ShapeInv'
<1> USE Zenon
<1>1. FeedInv /\ LoopInv /\ HeaderInv
  BY DEF ShapeInv
<1>2. /\ last_leader' = last_leader /\ commit_round' = commit_round /\ advance' = advance
      /\ elapsed' = elapsed /\ restarts' = restarts /\ sent' = sent /\ certified' = certified
      /\ sequenced' = sequenced /\ reported' = reported
  BY DEF propose, consensus
<1>3. /\ round' = round + 1 /\ round + 1 \in 1..MaxRound /\ last_parents' = {} /\ pc' = "send"
      /\ \/ /\ last_proposed' = last_proposed /\ proposed_headers' = proposed_headers /\ digests' = digests
         \/ \E h \in Headers :
              /\ last_proposed' = h /\ proposed_headers' = proposed_headers \cup {h}
              /\ h.round = round + 1 /\ digests' \in Seq(Digests)
  BY ProposeParts
<1>4. FeedInv'
  BY <1>1, ProposeKeepsFeed
<1>5. LoopInv'
  <2>1. round' \in 0..MaxRound
    BY <1>3, SMT
  <2> QED BY <1>1, <1>2, <1>3, <2>1 DEF LoopInv
<1>6. round \in Nat /\ (\A h \in proposed_headers : h.round \in Nat /\ h.round <= round)
  BY <1>1, SMT DEF LoopInv, HeaderInv, Headers
<1>7. \A h \in proposed_headers : h.round <= round' /\ h.round # round'
  BY <1>3, <1>6, SMT
<1>8. HeaderInv'
  <2>1. CASE last_proposed' = last_proposed /\ proposed_headers' = proposed_headers /\ digests' = digests
    BY <1>1, <1>2, <1>7, <2>1 DEF HeaderInv
  <2>2. CASE \E h \in Headers :
              /\ last_proposed' = h /\ proposed_headers' = proposed_headers \cup {h}
              /\ h.round = round + 1 /\ digests' \in Seq(Digests)
    <3>1. PICK h \in Headers :
              /\ last_proposed' = h /\ proposed_headers' = proposed_headers \cup {h}
              /\ h.round = round + 1 /\ digests' \in Seq(Digests)
      BY <2>2
    <3>2. IsFiniteSet(proposed_headers) /\ \A f, g \in proposed_headers : f.round = g.round => f = g
      BY <1>1 DEF HeaderInv
    <3>3. IsFiniteSet(proposed_headers')
      BY <3>1, <3>2, FS_AddElement
    <3>4. h.round = round' /\ round' <= round'
      BY <1>3, <1>6, <3>1, SMT
    <3>5. \A g \in proposed_headers' : g.round <= round'
      BY <1>7, <3>1, <3>4
    <3>6. \A f, g \in proposed_headers' : f.round = g.round => f = g
      BY <1>7, <3>1, <3>2, <3>4
    <3>7. proposed_headers' \subseteq Headers
      BY <1>1, <3>1 DEF HeaderInv
    <3> QED BY <1>1, <1>2, <3>1, <3>3, <3>5, <3>6, <3>7 DEF HeaderInv
  <2> QED BY <1>3, <2>1, <2>2
<1>9. LeaderInv'
  BY <1>3 DEF LeaderInv
<1> QED BY <1>4, <1>5, <1>8, <1>9 DEF ShapeInv

\* The parts of the shape depend on a few variables each.
LEMMA SameFeed ==
  ASSUME FeedInv, UNCHANGED <<store, feed, round, last_parents>>
  PROVE  FeedInv'
<1> USE Zenon
<1>1. /\ store' = store /\ recovering' = recovering /\ aggregators' = aggregators
      /\ outbox' = outbox /\ tx_parents' = tx_parents /\ round' = round /\ last_parents' = last_parents
  BY DEF feed
<1> QED BY <1>1, FeedParts, FeedPartsNext

\* A certificate, a recovered certificate or parents in flight change nothing
\* of the loop.
LEMMA AcceptKeepsShape ==
  ASSUME ShapeInv, NEW c \in Certificates, accept_certificate(c)
  PROVE  ShapeInv'
<1> USE Zenon
<1>1. /\ pc' = pc /\ round' = round /\ last_leader' = last_leader /\ commit_round' = commit_round
      /\ advance' = advance /\ elapsed' = elapsed /\ restarts' = restarts
      /\ sent' = sent /\ proposed_headers' = proposed_headers /\ last_proposed' = last_proposed
      /\ sequenced' = sequenced /\ digests' = digests /\ reported' = reported
      /\ last_parents' = last_parents
  BY DEF accept_certificate, proposer, consensus
<1>2. certified' = certified \/ \E h \in sent : certified' = certified \cup {h}
  BY DEF accept_certificate
<1>3. certified \subseteq sent /\ sequenced \subseteq certified
  BY DEF ShapeInv, HeaderInv
<1>4. certified' \subseteq sent /\ sequenced \subseteq certified'
  BY <1>2, <1>3
<1>5. LoopInv' /\ HeaderInv' /\ LeaderInv'
  BY <1>1, <1>4 DEF ShapeInv, LoopInv, HeaderInv, LeaderInv
<1> QED BY <1>5, AcceptKeepsFeed DEF ShapeInv

\* The same for the recovery task.
LEMMA RecoverKeepsShape ==
  ASSUME ShapeInv, recover_parents
  PROVE  ShapeInv'
<1> USE Zenon
<1>1. /\ pc' = pc /\ round' = round /\ last_leader' = last_leader /\ commit_round' = commit_round
      /\ advance' = advance /\ elapsed' = elapsed /\ restarts' = restarts
      /\ sent' = sent /\ proposed_headers' = proposed_headers /\ last_proposed' = last_proposed
      /\ sequenced' = sequenced /\ digests' = digests /\ reported' = reported
      /\ last_parents' = last_parents /\ certified' = certified
  BY DEF recover_parents, proposer, consensus
<1>2. LoopInv' /\ HeaderInv' /\ LeaderInv'
  BY <1>1 DEF ShapeInv, LoopInv, HeaderInv, LeaderInv
<1> QED BY <1>2, RecoverKeepsFeed DEF ShapeInv

\* The same for the channel.
LEMMA SendParentsKeepsShape ==
  ASSUME ShapeInv, NEW f \in Feeders, send_parents(f)
  PROVE  ShapeInv'
<1> USE Zenon
<1>1. /\ pc' = pc /\ round' = round /\ last_leader' = last_leader /\ commit_round' = commit_round
      /\ advance' = advance /\ elapsed' = elapsed /\ restarts' = restarts
      /\ sent' = sent /\ proposed_headers' = proposed_headers /\ last_proposed' = last_proposed
      /\ sequenced' = sequenced /\ digests' = digests /\ reported' = reported
      /\ last_parents' = last_parents /\ certified' = certified
  BY DEF send_parents, proposer, consensus
<1>2. LoopInv' /\ HeaderInv' /\ LeaderInv'
  BY <1>1 DEF ShapeInv, LoopInv, HeaderInv, LeaderInv
<1> QED BY <1>2, SendParentsKeepsFeed DEF ShapeInv

\* The core is given the header that was written.
LEMMA SendHeaderKeepsShape ==
  ASSUME ShapeInv, send_header
  PROVE  ShapeInv'
<1> USE Zenon
<1>1. /\ pc' = "select" /\ elapsed' = "none" /\ sent' = sent \cup {last_proposed}
      /\ UNCHANGED <<store, feed, round, last_parents>>
  BY DEF send_header, proposer
<1>2. /\ round' = round /\ last_leader' = last_leader /\ commit_round' = commit_round
      /\ advance' = advance /\ restarts' = restarts
      /\ proposed_headers' = proposed_headers /\ last_proposed' = last_proposed
      /\ sequenced' = sequenced /\ digests' = digests /\ reported' = reported
      /\ last_parents' = last_parents /\ certified' = certified
  BY DEF send_header, proposer, consensus
<1>3. LoopInv' /\ LeaderInv'
  BY <1>1, <1>2 DEF ShapeInv, LoopInv, LeaderInv
<1>4. HeaderInv'
  BY <1>1, <1>2 DEF ShapeInv, HeaderInv
<1> QED BY <1>1, <1>3, <1>4, SameFeed DEF ShapeInv

\* A timer runs out.
LEMMA TimersKeepShape ==
  ASSUME ShapeInv, min_delay_elapses \/ max_delay_elapses
  PROVE  ShapeInv'
<1> USE Zenon
<1>1. elapsed' \in {"min", "max"} /\ UNCHANGED <<store, feed, round, last_parents>>
  BY DEF min_delay_elapses, max_delay_elapses, proposer
<1>2. /\ pc' = pc /\ round' = round /\ last_leader' = last_leader /\ commit_round' = commit_round
      /\ advance' = advance /\ restarts' = restarts /\ sent' = sent
      /\ proposed_headers' = proposed_headers /\ last_proposed' = last_proposed
      /\ sequenced' = sequenced /\ digests' = digests /\ reported' = reported
      /\ last_parents' = last_parents /\ certified' = certified
  BY DEF min_delay_elapses, max_delay_elapses, proposer, consensus
<1>3. LoopInv' /\ LeaderInv' /\ HeaderInv'
  BY <1>1, <1>2 DEF ShapeInv, LoopInv, LeaderInv, HeaderInv
<1> QED BY <1>1, <1>3, SameFeed DEF ShapeInv

\* A digest is queued.
LEMMA DigestKeepsShape ==
  ASSUME ShapeInv, NEW d \in Digests, our_digest(d)
  PROVE  ShapeInv'
<1> USE Zenon
<1>1. /\ digests' = Append(digests, d) /\ reported' = reported \cup {d}
      /\ pc' \in {"top", "select"} /\ UNCHANGED <<store, feed, round, last_parents>>
  BY DEF our_digest, Top
<1>2. /\ round' = round /\ last_leader' = last_leader /\ commit_round' = commit_round
      /\ advance' = advance /\ restarts' = restarts /\ sent' = sent /\ elapsed' = elapsed
      /\ proposed_headers' = proposed_headers /\ last_proposed' = last_proposed
      /\ sequenced' = sequenced /\ last_parents' = last_parents /\ certified' = certified
  BY DEF our_digest, consensus
<1>3. digests \in Seq(Digests) /\ reported \subseteq Digests
  BY DEF ShapeInv, HeaderInv
<1>4. digests' \in Seq(Digests) /\ reported' \subseteq Digests
  BY <1>1, <1>3, SMT
<1>5. LoopInv' /\ LeaderInv' /\ HeaderInv'
  BY <1>1, <1>2, <1>4 DEF ShapeInv, LoopInv, LeaderInv, HeaderInv
<1> QED BY <1>1, <1>5, SameFeed DEF ShapeInv

\* ready sets the flag for the parents and the round it is given.
LEMMA ReadyParts ==
  ASSUME NEW P, NEW r \in 1..MaxRound, ready(P, r)
  PROVE  /\ advance' \in BOOLEAN /\ last_leader' \in {last_leader, r, 0}
         /\ advance' /\ r % 2 = 0 => LeaderOf[r] \in Origins(P)
<1> USE Zenon
<1>1. CASE r % 2 = 0
  <2>1. advance' = (LeaderOf[r] \in Origins(P)) /\ last_leader' \in {r, 0}
    BY <1>1 DEF ready, update_leader
  <2>2. (LeaderOf[r] \in Origins(P)) \in BOOLEAN
    BY SMT
  <2>3. last_leader' \in {last_leader, r, 0}
    BY <2>1
  <2>4. advance' => LeaderOf[r] \in Origins(P)
    BY <2>1
  <2>5. advance' \in BOOLEAN
    BY <2>1, <2>2
  <2> QED BY <2>3, <2>4, <2>5
<1>2. CASE r % 2 # 0
  <2>1. advance' = enough_votes(P, r) /\ last_leader' = last_leader
    BY <1>2 DEF ready
  <2>2. enough_votes(P, r) \in BOOLEAN
    BY DEF enough_votes
  <2> QED BY <1>2, <2>1, <2>2
<1> QED BY <1>1, <1>2

\* Parents arrive.
LEMMA ReceiveKeepsShape ==
  ASSUME ShapeInv, receive_parents
  PROVE  ShapeInv'
<1> USE Zenon
<1> DEFINE m == tx_parents[1]
<1>1. FeedInv /\ LoopInv /\ HeaderInv /\ LeaderInv
  BY DEF ShapeInv
<1>2. /\ commit_round' = commit_round /\ restarts' = restarts /\ sent' = sent
      /\ proposed_headers' = proposed_headers /\ last_proposed' = last_proposed
      /\ sequenced' = sequenced /\ certified' = certified /\ digests' = digests
      /\ reported' = reported /\ pc' \in {"top", "select"}
  BY DEF receive_parents, consensus, Top
<1>3. m.round \in 1..MaxRound
  <2>1. Stored(store, m)
    BY <1>1, ReceiveParts
  <2> QED BY <2>1 DEF Stored, Messages
<1> HIDE DEF m
<1>4. \/ /\ round' = round /\ last_parents' = last_parents
         /\ advance' = advance /\ last_leader' = last_leader /\ elapsed' = elapsed
      \/ /\ m.round >= round /\ round' = m.round /\ elapsed' \in {"none", elapsed}
         /\ ready(last_parents', m.round)
  <2>1. m.round \in Nat /\ round \in Nat
    BY <1>1, <1>3, SMT DEF LoopInv
  <2>2. (m.round = round => m.round >= round) /\ (m.round > round => m.round >= round)
    BY <2>1, SMT
  <2> QED BY <1>1, <2>2, ReceiveCases DEF m
<1>5. /\ round' \in 0..MaxRound /\ round' >= round /\ advance' \in BOOLEAN /\ elapsed' \in {"none", "min", "max"}
      /\ last_leader' \in 0..MaxRound
      /\ (advance' /\ round' % 2 = 0 /\ last_parents' # {}) => LeaderOf[round'] \in Origins(last_parents')
  <2>0. /\ round \in 0..MaxRound /\ advance \in BOOLEAN /\ elapsed \in {"none", "min", "max"}
        /\ last_leader \in 0..MaxRound
    BY <1>1 DEF LoopInv
  <2>1. CASE /\ round' = round /\ last_parents' = last_parents
             /\ advance' = advance /\ last_leader' = last_leader /\ elapsed' = elapsed
    <3>1. round >= round
      BY <2>0, SMT
    <3>2. (advance' /\ round' % 2 = 0 /\ last_parents' # {}) => LeaderOf[round'] \in Origins(last_parents')
      BY <1>1, <2>1 DEF LeaderInv
    <3> QED BY <2>0, <2>1, <3>1, <3>2
  <2>2. CASE /\ m.round >= round /\ round' = m.round /\ elapsed' \in {"none", elapsed}
             /\ ready(last_parents', m.round)
    <3>1. /\ advance' \in BOOLEAN /\ last_leader' \in {last_leader, m.round, 0}
          /\ advance' /\ m.round % 2 = 0 => LeaderOf[m.round] \in Origins(last_parents')
      BY <1>3, <2>2, ReadyParts
    <3>2. m.round \in 0..MaxRound /\ 0 \in 0..MaxRound
      BY <1>3, ProposerAssumption, SMT
    <3> QED BY <2>0, <2>2, <3>1, <3>2
  <2> QED BY <1>4, <2>1, <2>2
<1>6. LoopInv' /\ LeaderInv'
  BY <1>1, <1>2, <1>5 DEF LoopInv, LeaderInv
<1>7. \A h \in proposed_headers' : h.round <= round'
  <2>1. \A h \in proposed_headers : h.round \in Nat /\ h.round <= round
    BY <1>1, SMT DEF HeaderInv, Headers
  <2>2. round \in Nat /\ round' \in Nat
    BY <1>1, <1>5, SMT DEF LoopInv
  <2> QED BY <1>2, <1>5, <2>1, <2>2, SMT
<1>8. HeaderInv'
  BY <1>1, <1>2, <1>7 DEF HeaderInv
<1> QED BY <1>1, <1>6, <1>8, ReceiveKeepsFeed DEF ShapeInv

\* The headers of the rounds reported are dropped; of the others some are kept
\* and some go back into the queue.
LEMMA CommittedParts ==
  ASSUME ShapeInv, committed_headers
  PROVE  \E R : LET pending == {h \in proposed_headers : h.round \notin Head(committed_own_headers).rounds}
                IN  /\ R \subseteq pending /\ proposed_headers' = pending \ R
                    /\ digests' \in Seq(Digests)
                    /\ Range(digests') = Range(digests) \cup UNION {PayloadOf(h) : h \in R}
                    /\ R = {} => digests' = digests
<1> USE Zenon
<1> DEFINE m == Head(committed_own_headers)
           pending == {h \in proposed_headers : h.round \notin m.rounds}
           R == {h \in pending : h.round + 2 < m.commit_round}
<1>1. proposed_headers' = pending \ R /\ digests' = Requeued(R)
  BY DEF committed_headers
<1>2. Requeued(R) = Queued(R, digests)
  BY DEF Requeued, Queued
<1>3. /\ proposed_headers \subseteq Headers /\ IsFiniteSet(proposed_headers)
      /\ \A g, h \in proposed_headers : g.round = h.round => g = h
      /\ digests \in Seq(Digests)
  BY DEF ShapeInv, HeaderInv
<1>4. R \subseteq pending /\ pending \subseteq proposed_headers
  BY SMT
<1> HIDE DEF R, pending
<1>5. R \in SUBSET Headers /\ R \subseteq proposed_headers
  BY <1>3, <1>4
<1>6. IsFiniteSet(R) /\ \A g, h \in R : g.round = h.round => g = h
  BY <1>3, <1>5, FS_Subset
<1>7. /\ Queued(R, digests) \in Seq(Digests)
      /\ Range(Queued(R, digests)) = Range(digests) \cup UNION {PayloadOf(h) : h \in R}
      /\ R = {} => Queued(R, digests) = digests
  BY <1>3, <1>5, <1>6, RequeuedDigests
<1> QED BY <1>1, <1>2, <1>4, <1>7 DEF pending, m

\* The StateHandler's message is handled.
LEMMA CommittedKeepsShape ==
  ASSUME ShapeInv, committed_headers
  PROVE  ShapeInv'
<1> USE Zenon
<1>1. /\ round' = round /\ last_leader' = last_leader /\ commit_round' = commit_round
      /\ advance' = advance /\ restarts' = restarts /\ sent' = sent /\ elapsed' = elapsed
      /\ last_proposed' = last_proposed /\ reported' = reported
      /\ sequenced' = sequenced /\ last_parents' = last_parents /\ certified' = certified
      /\ pc' \in {"top", "select"} /\ UNCHANGED <<store, feed, round, last_parents>>
  BY DEF committed_headers, Top
<1>2. proposed_headers' \subseteq proposed_headers /\ digests' \in Seq(Digests)
  BY CommittedParts
<1>3. IsFiniteSet(proposed_headers')
  BY <1>2, FS_Subset DEF ShapeInv, HeaderInv
<1>4. LoopInv' /\ LeaderInv'
  BY <1>1 DEF ShapeInv, LoopInv, LeaderInv
<1>5. HeaderInv'
  BY <1>1, <1>2, <1>3 DEF ShapeInv, HeaderInv
<1> QED BY <1>1, <1>4, <1>5, SameFeed DEF ShapeInv

\* Consensus commits a leader.
LEMMA CommitKeepsShape ==
  ASSUME ShapeInv, NEW r \in 1..(MaxRound - 1), NEW own \in SUBSET (certified \ sequenced), commit(r, own)
  PROVE  ShapeInv'
<1> USE Zenon
<1>1. /\ pc' = pc /\ round' = round /\ last_leader' = last_leader /\ commit_round' = r
      /\ advance' = advance /\ restarts' = restarts /\ sent' = sent /\ elapsed' = elapsed
      /\ proposed_headers' = proposed_headers /\ digests' = digests
      /\ last_proposed' = last_proposed /\ reported' = reported
      /\ sequenced' = sequenced \cup own /\ last_parents' = last_parents /\ certified' = certified
      /\ UNCHANGED <<store, feed, round, last_parents>>
  BY DEF commit, proposer
<1>2. r \in 0..MaxRound
  BY ProposerAssumption, SMT
<1>3. sequenced' \subseteq certified
  BY <1>1 DEF ShapeInv, HeaderInv
<1>4. LoopInv' /\ LeaderInv'
  BY <1>1, <1>2 DEF ShapeInv, LoopInv, LeaderInv
<1>5. HeaderInv'
  BY <1>1, <1>3 DEF ShapeInv, HeaderInv
<1> QED BY <1>1, <1>4, <1>5, SameFeed DEF ShapeInv

\* The genesis has the leader of round 0.
LEMMA GenesisLeader == LeaderOf[0] \in Origins(Genesis)
<1>1. 0 \in 0..(MaxRound + 1) /\ LeaderOf \in [0..(MaxRound + 1) -> Authorities]
  BY ProposerAssumption
<1>2. LeaderOf[0] \in Authorities
  BY <1>1, Zenon
<1> QED BY <1>2, GenesisOrigins, Zenon

\* A crash and the next start.
LEMMA RestartKeepsShape ==
  ASSUME ShapeInv, Restart
  PROVE  ShapeInv'
<1> USE Zenon
<1>1. /\ pc' = "select" /\ round' = 0 /\ last_leader' = 0 /\ commit_round' = commit_round
      /\ advance' = TRUE /\ restarts' = restarts + 1 /\ restarts < MaxRestarts
      /\ sent' = sent /\ elapsed' = "none"
      /\ proposed_headers' = {} /\ digests' = <<>>
      /\ last_proposed' = last_proposed /\ reported' = {}
      /\ sequenced' = sequenced /\ last_parents' = Genesis /\ certified' = certified
  BY DEF Restart
<1>2. restarts + 1 \in 0..MaxRestarts
  <2>1. restarts \in 0..MaxRestarts /\ MaxRestarts \in Nat
    BY ProposerAssumption DEF ShapeInv, LoopInv
  <2> QED BY <1>1, <2>1, SMT
<1>3. 0 \in 0..MaxRound
  BY ProposerAssumption, SMT
<1>4. LoopInv'
  BY <1>1, <1>2, <1>3 DEF ShapeInv, LoopInv
<1>5. LeaderInv'
  BY <1>1, GenesisLeader DEF LeaderInv
<1>6. HeaderInv'
  <2>1. <<>> \in Seq(Digests) /\ IsFiniteSet({})
    BY FS_EmptySet, SMT
  <2> QED BY <1>1, <2>1 DEF ShapeInv, HeaderInv
<1> QED BY <1>4, <1>5, <1>6, RestartKeepsFeed DEF ShapeInv

\* The first start.
LEMMA InitShape == Init => ShapeInv
<1> USE Zenon
<1> SUFFICES ASSUME Init PROVE ShapeInv
  BY SMT
<1>1. /\ store = {} /\ certified = {}
      /\ aggregators = NoAggregators /\ recovering = {} /\ outbox = NoOutbox /\ tx_parents = <<>>
      /\ commit_round = 0 /\ sequenced = {} /\ pc = "select" /\ round = 0 /\ last_parents = Genesis
      /\ digests = <<>> /\ proposed_headers = {} /\ advance = TRUE /\ last_leader = 0
      /\ elapsed = "none" /\ reported = {}
      /\ last_proposed = NoHeader /\ sent = {} /\ restarts = 0
  BY DEF Init
<1>2. FeedInv
  <2>1. store \in SUBSET Certificates /\ recovering \in SUBSET store
    BY <1>1
  <2> QED BY <1>1, <2>1, EmptyFeed, FeedParts
<1>3. 0 \in 0..MaxRound /\ 0 \in 0..MaxRestarts
  BY ProposerAssumption, SMT
<1>4. LoopInv
  BY <1>1, <1>3 DEF LoopInv
<1>5. LeaderInv
  BY <1>1, GenesisLeader DEF LeaderInv
<1>6. HeaderInv
  <2>1. <<>> \in Seq(Digests) /\ IsFiniteSet({})
    BY FS_EmptySet, SMT
  <2>2. NoHeader \in Headers
    BY <1>3, <2>1 DEF NoHeader, Headers
  <2> QED BY <1>1, <2>1, <2>2 DEF HeaderInv
<1> QED BY <1>2, <1>4, <1>5, <1>6 DEF ShapeInv

\* Nothing happens.
LEMMA StutterKeepsShape ==
  ASSUME ShapeInv, UNCHANGED vars
  PROVE  ShapeInv'
<1> USE Zenon
<1>1. /\ pc' = pc /\ round' = round /\ last_leader' = last_leader /\ commit_round' = commit_round
      /\ advance' = advance /\ elapsed' = elapsed /\ restarts' = restarts
      /\ sent' = sent /\ proposed_headers' = proposed_headers /\ last_proposed' = last_proposed
      /\ sequenced' = sequenced /\ digests' = digests /\ reported' = reported
      /\ last_parents' = last_parents /\ certified' = certified
      /\ UNCHANGED <<store, feed, round, last_parents>>
  BY DEF vars, consensus, proposer
<1>2. LoopInv' /\ HeaderInv' /\ LeaderInv'
  BY <1>1 DEF ShapeInv, LoopInv, HeaderInv, LeaderInv
<1> QED BY <1>1, <1>2, SameFeed DEF ShapeInv

\* Every step keeps the shape.
LEMMA StepKeepsShape ==
  ASSUME ShapeInv, [Next]_vars
  PROVE  ShapeInv'
<1> USE Zenon
<1>1. CASE \E c \in Certificates : accept_certificate(c)
  BY <1>1, AcceptKeepsShape
<1>2. CASE recover_parents
  BY <1>2, RecoverKeepsShape
<1>3. CASE \E f \in Feeders : send_parents(f)
  BY <1>3, SendParentsKeepsShape
<1>4. CASE Loop
  BY <1>4, ProposeKeepsShape, SendHeaderKeepsShape, TimersKeepShape, ReceiveKeepsShape,
     CommittedKeepsShape, Zenon DEF Loop
<1>5. CASE \E d \in Digests : our_digest(d)
  BY <1>5, DigestKeepsShape
<1>6. CASE \E r \in 1..(MaxRound - 1), own \in SUBSET (certified \ sequenced) : commit(r, own)
  BY <1>6, CommitKeepsShape
<1>7. CASE Restart
  BY <1>7, RestartKeepsShape
<1>8. CASE UNCHANGED vars
  BY <1>8, StutterKeepsShape
<1> QED BY <1>1, <1>2, <1>3, <1>4, <1>5, <1>6, <1>7, <1>8 DEF Next

\* The shape of the proposer's state, in every state, however the recovery task
\* interleaves with the rest.
THEOREM ProposerShape == Spec => []ShapeInv
  BY InitShape, StepKeepsShape, PTL DEF Spec

\* TypeOK follows.
LEMMA ShapeIsTyped == ShapeInv => TypeOK
<1> USE Zenon
<1> SUFFICES ASSUME ShapeInv PROVE TypeOK
  BY SMT
<1>1. FeedInv /\ LoopInv /\ HeaderInv
  BY DEF ShapeInv
<1>2. ASSUME NEW h \in sent \cup proposed_headers \cup {last_proposed}
      PROVE  h.round \in 0..MaxRound /\ PayloadOf(h) \subseteq Digests /\ h.parents \subseteq Authorities
  <2>1. h \in Headers
    BY <1>1 DEF HeaderInv
  <2>2. h.round \in 0..MaxRound /\ h.payload \in Seq(Digests) /\ h.parents \subseteq Authorities
    BY <2>1 DEF Headers
  <2>3. Range(h.payload) \subseteq Digests
    BY <2>2, SMT DEF Range
  <2> QED BY <2>2, <2>3 DEF PayloadOf
<1>3. \A r \in 1..MaxRound : /\ aggregators[r].used \subseteq Authorities
                             /\ aggregators[r].certificates \subseteq InRound(store, r)
  BY <1>1 DEF FeedInv
<1>4. ASSUME NEW m \in Range(tx_parents)
      PROVE  m.round \in 1..MaxRound /\ m.parents \subseteq InRound(store, m.round)
  <2>1. tx_parents \in Seq(Messages) /\ \A i \in 1..Len(tx_parents) : Stored(store, tx_parents[i])
    BY <1>1 DEF FeedInv
  <2>2. PICK i \in 1..Len(tx_parents) : m = tx_parents[i]
    BY <2>1, SMT DEF Range
  <2>3. Stored(store, m)
    BY <2>1, <2>2
  <2> QED BY <2>3 DEF Stored, Messages
<1>5. Range(digests) \subseteq Digests
  <2>1. digests \in Seq(Digests)
    BY <1>1 DEF HeaderInv
  <2> QED BY <2>1, SMT DEF Range
<1>6. store \subseteq Certificates
  BY <1>1 DEF FeedInv
<1>7. /\ certified \subseteq sent /\ reported \subseteq Digests /\ sequenced \subseteq certified
  BY <1>1 DEF HeaderInv
<1> QED BY <1>1, <1>2, <1>3, <1>4, <1>5, <1>6, <1>7 DEF TypeOK, LoopInv

\* The proposer's fields, channels and stores keep their shape, in every state.
THEOREM ProposerTyped == Spec => []TypeOK
  BY ProposerShape, ShapeIsTyped, PTL

\* A header that follows an even round before the timeout is made while
\* advance holds; so the leader is among its parents.
LEMMA StepVotes ==
  ASSUME ShapeInv, [Next]_vars, last_proposed' # last_proposed, elapsed # "max", round % 2 = 0
  PROVE  LeaderOf[round] \in last_proposed'.parents
<1> USE Zenon
<1>1. propose
  <2>1. ASSUME ~ propose PROVE last_proposed' = last_proposed
    BY <2>1 DEF Next, Loop, accept_certificate, recover_parents, send_parents, send_header,
       max_delay_elapses, min_delay_elapses, receive_parents, committed_headers, our_digest, commit,
       Restart, vars
  <2> QED BY <2>1
<1>2. last_parents # {} /\ advance
  BY <1>1 DEF propose, CanPropose
<1>3. LeaderOf[round] \in Origins(last_parents)
  BY <1>2 DEF ShapeInv, LeaderInv
<1>4. last_proposed'.parents = Origins(last_parents)
  BY <1>1, ProposeParts
<1> QED BY <1>3, <1>4

\* The proposer advances from an even round before the timeout only with the
\* leader, for which its header then votes; crashes and any order of recovered
\* and accepted parents included.
THEOREM VotesForLeader == Spec => LeaderOrTimeout
<1>1. ShapeInv /\ [Next]_vars =>
        [(/\ last_proposed' # last_proposed /\ elapsed # "max" /\ round % 2 = 0)
           => LeaderOf[round] \in last_proposed'.parents]_vars
  BY StepVotes, Zenon
<1> QED BY <1>1, ProposerShape, PTL DEF Spec, LeaderOrTimeout

-----------------------------------------------------------------------------
(* A primary left alone until it has recovered its parents (QuietStart).   *)

\* Until the primary has recovered, nothing else happens.
QuietInv ==
  /\ \A f \in Feeders : outbox[f] # <<>> => Head(outbox[f]).from = f
  /\ ~ Recovered => /\ elapsed = "none" /\ digests = <<>> /\ proposed_headers = {}
                    /\ pc = "select" /\ outbox["accept"] = <<>>

Quorate(m) == IsQuorum(Origins(m.parents))

\* A proposer in round R with parents P has had the quorum of round r.
Pass(R, P, r) == r < R \/ (r = R /\ P # {})

\* It has had it, or it is among the first n messages of channel Q.
Ann(R, P, Q, r, n) == Pass(R, P, r) \/ \E j \in 1..n : Q[j].round = r /\ Quorate(Q[j])

\* The first message of a round is a quorum: in the channel, in the outboxes B;
\* and for a quorum in the aggregators A there was one.
Firsts(R, P, Q) == \A i \in 1..Len(Q) : Quorate(Q[i]) \/ Ann(R, P, Q, Q[i].round, i - 1)
Taken(R, P, Q, B) ==
  \A f \in Feeders : B[f] # <<>> => Quorate(Head(B[f])) \/ Ann(R, P, Q, Head(B[f]).round, Len(Q))
Sending(B, r) == \E f \in Feeders : B[f] # <<>> /\ Head(B[f]).round = r /\ Quorate(Head(B[f]))
Counted(R, P, Q, B, A) ==
  \A r \in 1..MaxRound : IF IsQuorum(A[r].used) THEN Ann(R, P, Q, r, Len(Q)) \/ Sending(B, r)
                         ELSE Origins(A[r].certificates) = A[r].used

QuorumInv ==
  /\ last_parents # {} => IsQuorum(Origins(last_parents))
  /\ Firsts(round, last_parents, tx_parents)
  /\ Taken(round, last_parents, tx_parents, outbox)
  /\ Counted(round, last_parents, tx_parents, outbox, aggregators)

\* The parents of header h are a quorum of certificates.
Grounded(certs, h) ==
  h.round > 0 => IsQuorum(h.parents) /\ h.parents \subseteq Origins(Known(certs, h.round - 1))

\* Round t has a quorum, and neither certificates nor round r are beyond the
\* next one: so it is one of the two newest rounds, or all there is.
Reaches(certs, r, t) ==
  /\ t > 0 => IsQuorum(Origins(InRound(certs, t)))
  /\ \A c \in certs : c.round <= t + 1
  /\ r <= t + 1

\* The headers are on quorums that are in the store, and the two newest rounds
\* in it reach up to the last header.
StoreInv ==
  /\ \A h \in sent \cup {last_proposed} : Grounded(store, h)
  /\ pc = "send" => last_proposed.round = round /\ round > 0
  /\ \A h \in sent : h.round > 0
  /\ \E t \in 0..MaxRound : Reaches(store, last_proposed.round, t)

\* Round t is on its way through the recovery task, with W left to append.
Coming(B, Q, A, W, t) ==
  \/ B["recovery"] # <<>> /\ Head(B["recovery"]).round = t
  \/ \E i \in 1..Len(Q) : Q[i].round = t /\ Q[i].from = "recovery"
  \/ ~ IsQuorum(A[t].used) /\ IsQuorum(A[t].used \cup Origins(InRound(W, t)))

\* When the primary has recovered, it is past the round of the last header.
RecoveryInv ==
  \E t \in 0..MaxRound :
    /\ last_proposed.round <= t + 1
    /\ t <= round \/ Coming(outbox, tx_parents, aggregators, recovering, t)

\* No two headers of one round.
UniqueInv ==
  LET headers == sent \cup proposed_headers \cup {last_proposed}
  IN  /\ \A h \in headers : h.round <= last_proposed.round
      /\ \A g, h \in headers : g.round = h.round => g = h

\* The rounds that the StateHandler reports are those of sequenced headers.
CommitInv ==
  committed_own_headers = <<>> \/
    \E m : /\ committed_own_headers = <<m>>
           /\ \A r \in m.rounds : \E h \in sequenced : h.round = r

QuietProposerInv ==
  /\ ShapeInv /\ QuietInv /\ QuorumInv /\ StoreInv /\ RecoveryInv /\ UniqueInv
  /\ CommitInv /\ NoDigestLost

-----------------------------------------------------------------------------
(* Until the primary has recovered.                                        *)

\* A primary that recovers is not disturbed.
LEMMA Undisturbed ==
  ASSUME QuietStart, Disturb
  PROVE  Recovered
  BY Zenon DEF Disturb

\* With no timer run out and no digest queued nothing is proposed.
LEMMA NothingToPropose ==
  ASSUME elapsed = "none", digests = <<>>
  PROVE  ~ CanPropose
<1>1. Len(digests) = 0 /\ BatchThreshold \in Nat /\ BatchThreshold # 0
  BY ProposerAssumption, Zenon
<1>2. ~ (Len(digests) >= BatchThreshold)
  BY <1>1
<1>3. elapsed # "min" /\ elapsed # "max"
  OBVIOUS
<1> QED BY <1>2, <1>3, Zenon DEF CanPropose

\* The same of the next state.
LEMMA NothingToProposeNext ==
  ASSUME elapsed' = "none", digests' = <<>>
  PROVE  ~ CanPropose'
<1>1. Len(digests') = 0 /\ BatchThreshold \in Nat /\ BatchThreshold # 0
  BY ProposerAssumption, Zenon
<1>2. ~ (Len(digests') >= BatchThreshold)
  BY <1>1
<1>3. elapsed' # "min" /\ elapsed' # "max"
  OBVIOUS
<1> QED BY <1>2, <1>3, Zenon DEF CanPropose

\* A proposer that proposes or sends has recovered.
LEMMA ProposesRecovered ==
  ASSUME QuietInv, propose \/ send_header
  PROVE  Recovered
<1> USE Zenon
<1>1. CanPropose \/ pc = "send"
  BY DEF propose, send_header
<1>2. ASSUME ~ Recovered PROVE FALSE
  <2>1. elapsed = "none" /\ digests = <<>> /\ pc = "select"
    BY <1>2 DEF QuietInv
  <2>2. ~ CanPropose
    BY <2>1, NothingToPropose
  <2>3. pc # "send"
    BY <2>1
  <2> QED BY <1>1, <2>2, <2>3
<1> QED BY <1>2

\* What append does to the outboxes.
LEMMA AppendBoxes ==
  ASSUME FeedInv, NEW f \in Feeders, NEW c, append(f, c)
  PROVE  /\ \A g \in Feeders : g # f => outbox'[g] = outbox[g]
         /\ outbox'[f] = outbox[f] \/ outbox'[f] = <<MessageOf(aggregators, f, c)>>
<1> USE Zenon
<1>1. outbox \in [Feeders -> Seq(Messages)]
  BY FeedParts DEF Boxes
<1>2. CASE outbox' = outbox
  BY <1>2
<1>3. CASE outbox' = [outbox EXCEPT ![f] = <<MessageOf(aggregators, f, c)>>]
  <2> DEFINE M == <<MessageOf(aggregators, f, c)>>
  <2>1. outbox' = [outbox EXCEPT ![f] = M]
    BY <1>3
  <2> HIDE DEF M
  <2>2. outbox'[f] = M /\ \A g \in Feeders : g # f => outbox'[g] = outbox[g]
    BY <1>1, <2>1
  <2> QED BY <2>2 DEF M
<1> QED BY <1>2, <1>3, AppendCases

\* append marks what it takes out.
LEMMA AppendMarks ==
  ASSUME FeedInv, NEW f \in Feeders, NEW c, append(f, c),
         \A g \in Feeders : outbox[g] # <<>> => Head(outbox[g]).from = g
  PROVE  \A g \in Feeders : outbox'[g] # <<>> => Head(outbox'[g]).from = g
<1>1. Head(<<MessageOf(aggregators, f, c)>>).from = f
  BY DEF MessageOf
<1> QED BY <1>1, AppendBoxes, Zenon

\* A certificate is accepted only by a primary that has recovered.
LEMMA AcceptKeepsQuiet ==
  ASSUME QuietStart, ShapeInv, QuietInv, NEW c \in Certificates, accept_certificate(c)
  PROVE  QuietInv' /\ Recovered /\ outbox["accept"] = <<>>
<1> USE Zenon
<1>1. /\ Disturb /\ append("accept", c) /\ recovering' = recovering /\ tx_parents' = tx_parents
      /\ outbox["accept"] = <<>>
  BY DEF accept_certificate
<1>2. Recovered
  BY <1>1, Undisturbed
<1>3. "accept" \in Feeders /\ "recovery" \in Feeders /\ "accept" # "recovery"
  BY DEF Feeders
<1>4. FeedInv
  BY DEF ShapeInv
<1>5. outbox'["recovery"] = outbox["recovery"]
  BY <1>1, <1>3, <1>4, AppendBoxes
<1>6. Recovered'
  BY <1>1, <1>2, <1>5 DEF Recovered
<1>7. \A g \in Feeders : outbox'[g] # <<>> => Head(outbox'[g]).from = g
  BY <1>1, <1>3, <1>4, AppendMarks DEF QuietInv
<1> QED BY <1>1, <1>2, <1>6, <1>7 DEF QuietInv

\* The recovery task at work.
LEMMA RecoverKeepsQuiet ==
  ASSUME ShapeInv, QuietInv, recover_parents
  PROVE  QuietInv' /\ ~ Recovered /\ outbox["recovery"] = <<>>
<1> USE Zenon
<1>1. PICK c \in recovering : append("recovery", c)
  BY DEF recover_parents
<1>2. /\ elapsed' = elapsed /\ digests' = digests /\ proposed_headers' = proposed_headers /\ pc' = pc
      /\ outbox["recovery"] = <<>>
  BY DEF recover_parents, proposer
<1>3. ~ Recovered
  BY <1>1 DEF Recovered
<1>4. "accept" \in Feeders /\ "recovery" \in Feeders /\ "accept" # "recovery"
  BY DEF Feeders
<1>5. FeedInv
  BY DEF ShapeInv
<1>6. outbox'["accept"] = outbox["accept"]
  BY <1>1, <1>4, <1>5, AppendBoxes
<1>7. \A g \in Feeders : outbox'[g] # <<>> => Head(outbox'[g]).from = g
  BY <1>1, <1>4, <1>5, AppendMarks DEF QuietInv
<1> QED BY <1>2, <1>3, <1>6, <1>7 DEF QuietInv

\* The channel after one more message.
LEMMA SendParentsBoxes ==
  ASSUME FeedInv, NEW f \in Feeders, send_parents(f)
  PROVE  \E m : /\ Stored(store, m) /\ outbox[f] = <<m>> /\ Head(outbox[f]) = m /\ outbox[f] # <<>>
                /\ tx_parents \in Seq(Messages) /\ tx_parents' \in Seq(Messages)
                /\ Len(tx_parents') = Len(tx_parents) + 1
                /\ \A i \in 1..Len(tx_parents) : tx_parents'[i] = tx_parents[i]
                /\ tx_parents'[Len(tx_parents) + 1] = m
                /\ outbox'[f] = <<>> /\ \A g \in Feeders : g # f => outbox'[g] = outbox[g]
<1> USE Zenon
<1>1. PICK m : /\ Stored(store, m) /\ outbox[f] = <<m>> /\ Head(outbox[f]) = m
               /\ tx_parents' = Append(tx_parents, m)
               /\ outbox' = [outbox EXCEPT ![f] = <<>>]
  BY SendParentsParts
<1>2. outbox \in [Feeders -> Seq(Messages)] /\ tx_parents \in Seq(Messages) /\ m \in Messages
  BY <1>1, FeedParts DEF Boxes, Channel, Stored
<1>3. outbox'[f] = <<>> /\ \A g \in Feeders : g # f => outbox'[g] = outbox[g]
  BY <1>1, <1>2
<1>4. /\ tx_parents' \in Seq(Messages) /\ Len(tx_parents') = Len(tx_parents) + 1
      /\ \A i \in 1..Len(tx_parents) : tx_parents'[i] = tx_parents[i]
      /\ tx_parents'[Len(tx_parents) + 1] = m
  BY <1>1, <1>2, SMT
<1>5. outbox[f] # <<>>
  BY DEF send_parents
<1> QED BY <1>1, <1>2, <1>3, <1>4, <1>5

\* Whether the recovery task is through, by the places of the channel.
LEMMA RecoveredByPlace ==
  ASSUME tx_parents \in Seq(Messages)
  PROVE  Recovered <=> /\ recovering = {} /\ outbox["recovery"] = <<>>
                       /\ \A i \in 1..Len(tx_parents) : tx_parents[i].from # "recovery"
<1>1. (\A m \in Range(tx_parents) : m.from # "recovery")
        <=> \A i \in 1..Len(tx_parents) : tx_parents[i].from # "recovery"
  BY DEF Range
<1> QED BY <1>1, Zenon DEF Recovered

\* The same of the next state.
LEMMA RecoveredByPlaceNext ==
  ASSUME tx_parents' \in Seq(Messages)
  PROVE  Recovered' <=> /\ recovering' = {} /\ outbox'["recovery"] = <<>>
                        /\ \A i \in 1..Len(tx_parents') : tx_parents'[i].from # "recovery"
<1>1. (\A m \in Range(tx_parents') : m.from # "recovery")
        <=> \A i \in 1..Len(tx_parents') : tx_parents'[i].from # "recovery"
  BY DEF Range
<1> QED BY <1>1, Zenon DEF Recovered

\* A feeder sends: nothing changes for the rest.
LEMMA SendParentsKeepsQuiet ==
  ASSUME ShapeInv, QuietInv, NEW f \in Feeders, send_parents(f)
  PROVE  QuietInv'
<1> USE Zenon
<1>0. FeedInv
  BY DEF ShapeInv
<1>1. PICK m : /\ outbox[f] = <<m>> /\ Head(outbox[f]) = m /\ outbox[f] # <<>>
               /\ tx_parents \in Seq(Messages) /\ tx_parents' \in Seq(Messages)
               /\ Len(tx_parents') = Len(tx_parents) + 1
               /\ \A i \in 1..Len(tx_parents) : tx_parents'[i] = tx_parents[i]
               /\ tx_parents'[Len(tx_parents) + 1] = m
               /\ outbox'[f] = <<>> /\ \A g \in Feeders : g # f => outbox'[g] = outbox[g]
  BY <1>0, SendParentsBoxes
<1>2. /\ elapsed' = elapsed /\ digests' = digests /\ proposed_headers' = proposed_headers /\ pc' = pc
      /\ recovering' = recovering
  BY DEF send_parents, proposer
<1>3. "accept" \in Feeders /\ "recovery" \in Feeders /\ Feeders = {"accept", "recovery"}
  BY DEF Feeders
<1>4. m.from = f
  BY <1>1 DEF QuietInv
<1>5. ASSUME Recovered PROVE Recovered'
  <2>1. /\ recovering = {} /\ outbox["recovery"] = <<>>
        /\ \A i \in 1..Len(tx_parents) : tx_parents[i].from # "recovery"
    BY <1>1, <1>5, RecoveredByPlace
  <2>2. f = "accept" /\ f # "recovery"
    BY <1>1, <1>3, <2>1
  <2>3. Len(tx_parents) \in Nat
    BY <1>1, SMT
  <2>4. \A i \in 1..Len(tx_parents') : i \in 1..Len(tx_parents) \/ i = Len(tx_parents) + 1
    BY <1>1, <2>3, SMT
  <2>5. \A i \in 1..Len(tx_parents') : tx_parents'[i].from # "recovery"
    BY <1>1, <1>4, <2>1, <2>2, <2>4
  <2>6. outbox'["recovery"] = <<>>
    BY <1>1, <1>3, <2>1, <2>2
  <2> QED BY <1>1, <1>2, <2>1, <2>5, <2>6, RecoveredByPlaceNext
<1>6. ASSUME ~ Recovered' PROVE outbox'["accept"] = <<>>
  <2>1. outbox["accept"] = <<>>
    BY <1>5, <1>6 DEF QuietInv
  <2> QED BY <1>1, <1>3, <2>1
<1>7. \A g \in Feeders : outbox'[g] # <<>> => Head(outbox'[g]).from = g
  BY <1>1 DEF QuietInv
<1> QED BY <1>2, <1>5, <1>6, <1>7 DEF QuietInv

\* Whoever does not touch the feeders.
LEMMA SameRecovered ==
  ASSUME UNCHANGED feed
  PROVE  /\ Recovered' <=> Recovered
         /\ recovering' = recovering /\ outbox' = outbox /\ tx_parents' = tx_parents
         /\ aggregators' = aggregators
<1> USE Zenon
<1>1. recovering' = recovering /\ outbox' = outbox /\ tx_parents' = tx_parents /\ aggregators' = aggregators
  BY DEF feed
<1> QED BY <1>1 DEF Recovered

\* Of a primary that has recovered already.
LEMMA RecoveredKeepsQuiet ==
  ASSUME QuietInv, Recovered, UNCHANGED feed
  PROVE  QuietInv'
<1> USE Zenon
<1>1. Recovered' /\ outbox' = outbox
  BY SameRecovered
<1> QED BY <1>1 DEF QuietInv

\* A step that leaves alone what is quiet.
LEMMA UntouchedKeepsQuiet ==
  ASSUME QuietInv, UNCHANGED feed, elapsed' = elapsed, digests' = digests, pc' = pc,
         proposed_headers' = proposed_headers
  PROVE  QuietInv'
<1> USE Zenon
<1>1. (Recovered' <=> Recovered) /\ outbox' = outbox
  BY SameRecovered
<1> QED BY <1>1 DEF QuietInv

\* The proposer takes a message of the recovery task, and waits.
LEMMA ReceiveKeepsQuiet ==
  ASSUME ShapeInv, QuietInv, receive_parents
  PROVE  QuietInv'
<1> USE Zenon
<1>1. FeedInv /\ LoopInv
  BY DEF ShapeInv
<1>2. /\ tx_parents \in Seq(Messages) /\ tx_parents' \in Seq(Messages)
      /\ \A i \in 1..Len(tx_parents') : i + 1 \in 1..Len(tx_parents) /\ tx_parents'[i] = tx_parents[i + 1]
  BY <1>1, ReceiveParts, FeedParts DEF Channel
<1>3. /\ digests' = digests /\ proposed_headers' = proposed_headers /\ recovering' = recovering
      /\ outbox' = outbox /\ Top
  BY DEF receive_parents
<1>4. elapsed' \in {"none", elapsed}
  BY <1>1, ReceiveCases
<1>5. ASSUME ~ Recovered' PROVE ~ Recovered
  BY <1>2, <1>3, <1>5, RecoveredByPlace, RecoveredByPlaceNext
<1>6. ASSUME ~ Recovered'
      PROVE  /\ elapsed' = "none" /\ digests' = <<>> /\ proposed_headers' = {}
             /\ pc' = "select" /\ outbox'["accept"] = <<>>
  <2>1. elapsed = "none" /\ digests = <<>> /\ proposed_headers = {} /\ outbox["accept"] = <<>>
    BY <1>5, <1>6 DEF QuietInv
  <2>2. elapsed' = "none" /\ digests' = <<>>
    BY <1>3, <1>4, <2>1
  <2>3. ~ CanPropose'
    BY <2>2, NothingToProposeNext
  <2>4. pc' = "select"
    BY <1>3, <2>3 DEF Top
  <2> QED BY <1>3, <2>1, <2>2, <2>4
<1>7. \A g \in Feeders : outbox'[g] # <<>> => Head(outbox'[g]).from = g
  BY <1>3 DEF QuietInv
<1> QED BY <1>6, <1>7 DEF QuietInv

\* A commit finds no header to forget or to give up.
LEMMA CommittedKeepsQuiet ==
  ASSUME ShapeInv, QuietInv, committed_headers
  PROVE  QuietInv'
<1> USE Zenon
<1>1. elapsed' = elapsed /\ Top /\ UNCHANGED feed
  BY DEF committed_headers
<1>2. outbox' = outbox /\ (Recovered' <=> Recovered)
  BY <1>1, SameRecovered
<1>3. ASSUME ~ Recovered
      PROVE  elapsed' = "none" /\ digests' = <<>> /\ proposed_headers' = {} /\ pc' = "select"
  <2>1. elapsed = "none" /\ digests = <<>> /\ proposed_headers = {}
    BY <1>3 DEF QuietInv
  <2> DEFINE pending == {h \in proposed_headers : h.round \notin Head(committed_own_headers).rounds}
  <2>2. PICK R : /\ R \subseteq pending /\ proposed_headers' = pending \ R
                 /\ R = {} => digests' = digests
    BY CommittedParts
  <2>3. pending = {}
    BY <2>1
  <2> HIDE DEF pending
  <2>4. R = {} /\ proposed_headers' = {}
    BY <2>2, <2>3
  <2>5. elapsed' = "none" /\ digests' = <<>>
    BY <1>1, <2>1, <2>2, <2>4
  <2>6. ~ CanPropose'
    BY <2>5, NothingToProposeNext
  <2>7. pc' = "select"
    BY <1>1, <2>6 DEF Top
  <2> QED BY <2>4, <2>5, <2>7
<1> QED BY <1>2, <1>3 DEF QuietInv

\* The primary starts quiet.
LEMMA RestartQuiet ==
  ASSUME Restart
  PROVE  QuietInv'
<1> USE Zenon
<1>1. /\ outbox' = NoOutbox /\ elapsed' = "none" /\ digests' = <<>> /\ proposed_headers' = {}
      /\ pc' = "select"
  BY DEF Restart
<1>2. (\A f \in Feeders : NoOutbox[f] = <<>>) /\ "accept" \in Feeders
  BY DEF NoOutbox, Feeders
<1> QED BY <1>1, <1>2 DEF QuietInv

\* Also the first time.
LEMMA InitQuiet ==
  ASSUME Init
  PROVE  QuietInv
<1> USE Zenon
<1>1. outbox = NoOutbox /\ elapsed = "none" /\ digests = <<>> /\ proposed_headers = {} /\ pc = "select"
  BY DEF Init
<1>2. (\A f \in Feeders : NoOutbox[f] = <<>>) /\ "accept" \in Feeders
  BY DEF NoOutbox, Feeders
<1> QED BY <1>1, <1>2 DEF QuietInv

\* Every step of a primary that is left alone until it has recovered.
LEMMA StepKeepsQuiet ==
  ASSUME QuietStart, ShapeInv, QuietInv, [Next]_vars
  PROVE  QuietInv'
<1> USE Zenon
<1>1. CASE \E c \in Certificates : accept_certificate(c)
  BY <1>1, AcceptKeepsQuiet
<1>2. CASE recover_parents
  BY <1>2, RecoverKeepsQuiet
<1>3. CASE \E f \in Feeders : send_parents(f)
  BY <1>3, SendParentsKeepsQuiet
<1>4. CASE propose \/ send_header
  <2>1. UNCHANGED feed
    BY <1>4 DEF propose, send_header
  <2> QED BY <1>4, <2>1, ProposesRecovered, RecoveredKeepsQuiet
<1>5. CASE max_delay_elapses \/ min_delay_elapses \/ \E d \in Digests : our_digest(d)
  <2>1. UNCHANGED feed /\ Disturb
    BY <1>5 DEF max_delay_elapses, min_delay_elapses, our_digest
  <2> QED BY <2>1, Undisturbed, RecoveredKeepsQuiet
<1>6. CASE receive_parents
  BY <1>6, ReceiveKeepsQuiet
<1>7. CASE committed_headers
  BY <1>7, CommittedKeepsQuiet
<1>8. CASE \E r \in 1..(MaxRound - 1), own \in SUBSET (certified \ sequenced) : commit(r, own)
  <2>1. /\ UNCHANGED feed /\ elapsed' = elapsed /\ digests' = digests /\ pc' = pc
        /\ proposed_headers' = proposed_headers
    BY <1>8 DEF commit, proposer
  <2> QED BY <2>1, UntouchedKeepsQuiet
<1>9. CASE Restart
  BY <1>9, RestartQuiet
<1>10. CASE UNCHANGED vars
  <2>1. /\ UNCHANGED feed /\ elapsed' = elapsed /\ digests' = digests /\ pc' = pc
        /\ proposed_headers' = proposed_headers
    BY <1>10 DEF vars, proposer
  <2> QED BY <2>1, UntouchedKeepsQuiet
<1> QED BY <1>1, <1>2, <1>3, <1>4, <1>5, <1>6, <1>7, <1>8, <1>9, <1>10 DEF Next, Loop

-----------------------------------------------------------------------------
(* The first message of a round is a quorum.                               *)

\* The rounds of messages that are on their way.
LEMMA MessageRounds ==
  ASSUME NEW S, NEW B, NEW Q, Boxes(S, B), Channel(S, Q)
  PROVE  /\ \A i \in 1..Len(Q) : Q[i].round \in 1..MaxRound
         /\ \A f \in Feeders : B[f] # <<>> => Head(B[f]).round \in 1..MaxRound
<1> USE Zenon
<1>1. \A m : Stored(S, m) => m.round \in 1..MaxRound
  BY DEF Stored, Messages
<1>2. \A m : Head(<<m>>) = m
  BY SMT
<1>3. \A f \in Feeders : B[f] # <<>> => Stored(S, Head(B[f]))
  BY <1>2 DEF Boxes
<1> QED BY <1>1, <1>3 DEF Channel

\* A proposer that gets on has had all that it had had.
LEMMA PassingKeepsQuorum ==
  ASSUME NEW S, NEW A, NEW B, NEW Q, Boxes(S, B), Channel(S, Q),
         NEW R, NEW P, NEW R2, NEW P2, \A r \in 1..MaxRound : Pass(R, P, r) => Pass(R2, P2, r)
  PROVE  /\ Firsts(R, P, Q) => Firsts(R2, P2, Q)
         /\ Taken(R, P, Q, B) => Taken(R2, P2, Q, B)
         /\ Counted(R, P, Q, B, A) => Counted(R2, P2, Q, B, A)
<1> USE Zenon
<1>1. \A r \in 1..MaxRound : \A n : Ann(R, P, Q, r, n) => Ann(R2, P2, Q, r, n)
  BY DEF Ann
<1>2. /\ \A i \in 1..Len(Q) : Q[i].round \in 1..MaxRound
      /\ \A f \in Feeders : B[f] # <<>> => Head(B[f]).round \in 1..MaxRound
  BY MessageRounds
<1>3. Firsts(R, P, Q) => Firsts(R2, P2, Q)
  BY <1>1, <1>2 DEF Firsts
<1>4. Taken(R, P, Q, B) => Taken(R2, P2, Q, B)
  BY <1>1, <1>2 DEF Taken
<1>5. Counted(R, P, Q, B, A) => Counted(R2, P2, Q, B, A)
  BY <1>1 DEF Counted
<1> QED BY <1>3, <1>4, <1>5

\* append, while no feeder has anything to send.
LEMMA AppendKeepsQuorum ==
  ASSUME FeedInv, QuorumInv, NEW f \in Feeders, NEW c \in Certificates, append(f, c),
         \A g \in Feeders : outbox[g] = <<>>,
         round' = round, last_parents' = last_parents, tx_parents' = tx_parents
  PROVE  QuorumInv'
<1> USE Zenon
<1> DEFINE A == aggregators
           M == MessageOf(A, f, c)
           n == Len(tx_parents)
           An(r) == Ann(round, last_parents, tx_parents, r, n)
<1>1. /\ A \in Aggregators /\ c.round \in 1..MaxRound
      /\ A[c.round].certificates \in SUBSET Certificates /\ A[c.round].used \in SUBSET Authorities
  <2>1. A \in Aggregators
    BY FeedParts DEF Holds
  <2>2. c.round \in 1..MaxRound
    BY DEF Certificates
  <2> QED BY <2>1, <2>2 DEF Aggregators
<1>2. /\ last_parents # {} => IsQuorum(Origins(last_parents))
      /\ Firsts(round, last_parents, tx_parents)
      /\ Taken(round, last_parents, tx_parents, outbox)
      /\ Counted(round, last_parents, tx_parents, outbox, A)
  BY DEF QuorumInv
<1>3. \A r \in 1..MaxRound : IF IsQuorum(A[r].used) THEN An(r)
                             ELSE Origins(A[r].certificates) = A[r].used
  BY <1>2 DEF Counted, Sending
<1>4. /\ Used(A, c) \in SUBSET Authorities /\ A[c.round].used \subseteq Used(A, c)
      /\ HeldBy(A, c) \in SUBSET Certificates
  <2>1. A[c.round].used \subseteq Used(A, c)
    BY DEF Used
  <2> QED BY <1>1, <2>1, AddParts
<1>5. ASSUME ~ IsQuorum(A[c.round].used) PROVE Origins(HeldBy(A, c)) = Used(A, c)
  <2>1. Origins(A[c.round].certificates) = A[c.round].used
    BY <1>1, <1>3, <1>5
  <2>2. Origins(A[c.round].certificates \cup {c}) = Origins(A[c.round].certificates) \cup {c.origin}
    BY OriginsAdd
  <2> QED BY <2>1, <2>2 DEF HeldBy, Used
<1>6. M.parents = HeldBy(A, c) /\ M.round = c.round /\ Head(<<M>>) = M /\ <<M>> # <<>>
  BY SMT DEF MessageOf
<1> HIDE DEF M
<1>7. ASSUME NEW K \in SUBSET Certificates
      PROVE  /\ Add(A, c, K)[c.round].used = Used(A, c) /\ Add(A, c, K)[c.round].certificates = K
             /\ \A r \in 1..MaxRound : r # c.round => Add(A, c, K)[r] = A[r]
  BY <1>1, <1>7, AddParts, SMT
<1>8. CASE aggregators' = A /\ outbox' = outbox
  BY <1>2, <1>8 DEF QuorumInv
<1>9. CASE /\ IsQuorum(Used(A, c)) /\ aggregators' = Add(A, c, {})
           /\ outbox' = [outbox EXCEPT ![f] = <<M>>]
  <2>1. outbox \in [Feeders -> Seq(Messages)]
    BY FeedParts DEF Boxes
  <2>2. outbox'[f] = <<M>> /\ \A g \in Feeders : g # f => outbox'[g] = <<>>
    BY <1>9, <2>1
  <2>3. Quorate(M) \/ An(c.round)
    <3>1. CASE IsQuorum(A[c.round].used)
      BY <1>1, <1>3, <3>1
    <3>2. CASE ~ IsQuorum(A[c.round].used)
      BY <1>5, <1>6, <1>9, <3>2 DEF Quorate
    <3> QED BY <3>1, <3>2
  <2> HIDE DEF An
  <2>4. Taken(round, last_parents, tx_parents, outbox')
    BY <1>6, <2>2, <2>3 DEF Taken, An, n
  <2>5. Quorate(M) => Sending(outbox', c.round)
    BY <1>6, <2>2 DEF Sending
  <2>6. {} \in SUBSET Certificates
    BY SMT
  <2>7. /\ aggregators'[c.round].used = Used(A, c)
        /\ \A r \in 1..MaxRound : r # c.round => aggregators'[r] = A[r]
    BY <1>7, <1>9, <2>6
  <2>8. ASSUME NEW r \in 1..MaxRound
        PROVE  IF IsQuorum(aggregators'[r].used) THEN An(r) \/ Sending(outbox', r)
               ELSE Origins(aggregators'[r].certificates) = aggregators'[r].used
    <3>1. CASE r = c.round
      BY <1>9, <2>3, <2>5, <2>7, <3>1
    <3>2. CASE r # c.round
      BY <1>3, <2>7, <3>2
    <3> QED BY <3>1, <3>2
  <2>9. Counted(round, last_parents, tx_parents, outbox', aggregators')
    BY <2>8 DEF Counted, An, n
  <2> QED BY <1>2, <2>4, <2>9 DEF QuorumInv
<1>10. CASE ~ IsQuorum(Used(A, c)) /\ aggregators' = Add(A, c, HeldBy(A, c)) /\ outbox' = outbox
  <2>1. ~ IsQuorum(A[c.round].used)
    BY <1>1, <1>4, <1>10, QuorumGrows
  <2>2. Origins(HeldBy(A, c)) = Used(A, c)
    BY <1>5, <2>1
  <2>3. /\ aggregators'[c.round].used = Used(A, c) /\ aggregators'[c.round].certificates = HeldBy(A, c)
        /\ \A r \in 1..MaxRound : r # c.round => aggregators'[r] = A[r]
    BY <1>4, <1>7, <1>10
  <2> HIDE DEF An
  <2>4. ASSUME NEW r \in 1..MaxRound
        PROVE  IF IsQuorum(aggregators'[r].used) THEN An(r)
               ELSE Origins(aggregators'[r].certificates) = aggregators'[r].used
    <3>1. CASE r = c.round
      BY <1>10, <2>2, <2>3, <3>1
    <3>2. CASE r # c.round
      BY <1>3, <2>3, <3>2
    <3> QED BY <3>1, <3>2
  <2>5. Counted(round, last_parents, tx_parents, outbox, aggregators')
    BY <2>4 DEF Counted, An, n
  <2> QED BY <1>2, <1>10, <2>5 DEF QuorumInv
<1>11. \/ aggregators' = A /\ outbox' = outbox
       \/ /\ IsQuorum(Used(A, c)) /\ aggregators' = Add(A, c, {})
          /\ outbox' = [outbox EXCEPT ![f] = <<M>>]
       \/ ~ IsQuorum(Used(A, c)) /\ aggregators' = Add(A, c, HeldBy(A, c)) /\ outbox' = outbox
  BY AppendCases DEF M
<1> QED BY <1>8, <1>9, <1>10, <1>11

\* Accepting and recovering never meet: one of the two has nothing to send.
LEMMA AcceptKeepsQuorum ==
  ASSUME QuietStart, ShapeInv, QuietInv, QuorumInv, NEW c \in Certificates, accept_certificate(c)
  PROVE  QuorumInv'
<1> USE Zenon
<1>1. /\ append("accept", c) /\ tx_parents' = tx_parents /\ round' = round /\ last_parents' = last_parents
  BY DEF accept_certificate, proposer
<1>2. Recovered /\ outbox["accept"] = <<>>
  BY AcceptKeepsQuiet
<1>3. Feeders = {"accept", "recovery"} /\ "accept" \in Feeders
  BY DEF Feeders
<1>4. \A g \in Feeders : outbox[g] = <<>>
  BY <1>2, <1>3 DEF Recovered
<1>5. FeedInv
  BY DEF ShapeInv
<1> QED BY <1>1, <1>3, <1>4, <1>5, AppendKeepsQuorum

\* The other of the two.
LEMMA RecoverKeepsQuorum ==
  ASSUME ShapeInv, QuietInv, QuorumInv, recover_parents
  PROVE  QuorumInv'
<1> USE Zenon
<1>1. PICK c \in recovering : append("recovery", c)
  BY DEF recover_parents
<1>2. tx_parents' = tx_parents /\ round' = round /\ last_parents' = last_parents
  BY DEF recover_parents, proposer
<1>3. ~ Recovered /\ outbox["recovery"] = <<>>
  BY RecoverKeepsQuiet
<1>4. Feeders = {"accept", "recovery"} /\ "recovery" \in Feeders
  BY DEF Feeders
<1>5. \A g \in Feeders : outbox[g] = <<>>
  BY <1>3, <1>4 DEF QuietInv
<1>6. FeedInv
  BY DEF ShapeInv
<1>7. c \in Certificates
  BY <1>6, FeedParts
<1> QED BY <1>1, <1>2, <1>4, <1>5, <1>6, <1>7, AppendKeepsQuorum

\* Sending appends a message that is a quorum or announced.
LEMMA SendParentsKeepsQuorum ==
  ASSUME ShapeInv, QuorumInv, NEW f \in Feeders, send_parents(f)
  PROVE  QuorumInv'
<1> USE Zenon
<1> DEFINE Q == tx_parents
           n == Len(Q)
           An(r, k) == Ann(round, last_parents, Q, r, k)
           An2(r, k) == Ann(round, last_parents, Q', r, k)
<1>0. FeedInv
  BY DEF ShapeInv
<1>1. PICK m : /\ outbox[f] = <<m>> /\ Head(outbox[f]) = m /\ outbox[f] # <<>>
               /\ Q \in Seq(Messages) /\ Q' \in Seq(Messages)
               /\ Len(Q') = n + 1 /\ (\A i \in 1..n : Q'[i] = Q[i]) /\ Q'[n + 1] = m
               /\ outbox'[f] = <<>> /\ \A g \in Feeders : g # f => outbox'[g] = outbox[g]
  BY <1>0, SendParentsBoxes
<1>2. round' = round /\ last_parents' = last_parents /\ aggregators' = aggregators
  BY DEF send_parents, proposer
<1>3. n \in Nat /\ n + 1 \in 1..(n + 1) /\ (\A i \in 1..n : i \in 1..(n + 1)) /\ (n + 1) - 1 = n
  BY <1>1, SMT
<1>4. \A i \in 1..(n + 1) : i \in 1..n \/ i = n + 1
  BY <1>3, SMT
<1>5. \A i \in 1..n : \A j \in 1..(i - 1) : j \in 1..n
  BY <1>3, SMT
<1>6. /\ Firsts(round, last_parents, Q) /\ Taken(round, last_parents, Q, outbox)
      /\ Counted(round, last_parents, Q, outbox, aggregators)
  BY DEF QuorumInv
<1> HIDE DEF n, Q
<1>7. ASSUME NEW r, NEW k, \A j \in 1..k : j \in 1..n, An(r, k) PROVE An2(r, k)
  BY <1>1, <1>7 DEF Ann
<1>8. ASSUME NEW r, An(r, n) PROVE An2(r, n) /\ An2(r, n + 1)
  BY <1>1, <1>3, <1>8 DEF Ann
<1>9. Quorate(m) \/ An(m.round, n)
  BY <1>1, <1>6 DEF Taken, n
<1>10. Firsts(round, last_parents, Q')
  <2> SUFFICES ASSUME NEW i \in 1..(n + 1) PROVE Quorate(Q'[i]) \/ An2(Q'[i].round, i - 1)
    BY <1>1 DEF Firsts
  <2>1. CASE i \in 1..n
    <3>1. Quorate(Q[i]) \/ An(Q[i].round, i - 1)
      BY <1>6, <2>1 DEF Firsts, n
    <3>2. \A j \in 1..(i - 1) : j \in 1..n
      BY <1>5, <2>1
    <3> HIDE DEF An, An2
    <3> QED BY <1>1, <1>7, <2>1, <3>1, <3>2
  <2>2. CASE i = n + 1
    <3> HIDE DEF An, An2
    <3> QED BY <1>1, <1>3, <1>8, <1>9, <2>2
  <2> QED BY <1>4, <2>1, <2>2
<1>11. Taken(round, last_parents, Q', outbox')
  <2>1. ASSUME NEW g \in Feeders, outbox'[g] # <<>>
        PROVE  Quorate(Head(outbox'[g])) \/ An2(Head(outbox'[g]).round, n + 1)
    <3>1. outbox'[g] = outbox[g] /\ outbox[g] # <<>>
      BY <1>1, <2>1
    <3>2. Quorate(Head(outbox[g])) \/ An(Head(outbox[g]).round, n)
      BY <1>6, <3>1 DEF Taken, n
    <3> HIDE DEF An, An2
    <3> QED BY <1>8, <3>1, <3>2
  <2> QED BY <1>1, <2>1 DEF Taken
<1>12. ASSUME NEW r, Sending(outbox, r) PROVE Sending(outbox', r) \/ An2(r, n + 1)
  <2>1. PICK g \in Feeders : outbox[g] # <<>> /\ Head(outbox[g]).round = r /\ Quorate(Head(outbox[g]))
    BY <1>12 DEF Sending
  <2>2. CASE g = f
    BY <1>1, <1>3, <2>1, <2>2 DEF Ann
  <2>3. CASE g # f
    BY <1>1, <2>1, <2>3 DEF Sending
  <2> QED BY <2>2, <2>3
<1>13. Counted(round, last_parents, Q', outbox', aggregators)
  <2>1. ASSUME NEW r \in 1..MaxRound
        PROVE  IF IsQuorum(aggregators[r].used) THEN An2(r, n + 1) \/ Sending(outbox', r)
               ELSE Origins(aggregators[r].certificates) = aggregators[r].used
    <3>1. IF IsQuorum(aggregators[r].used) THEN An(r, n) \/ Sending(outbox, r)
          ELSE Origins(aggregators[r].certificates) = aggregators[r].used
      BY <1>6 DEF Counted, n
    <3> HIDE DEF An, An2
    <3> QED BY <1>8, <1>12, <3>1
  <2> QED BY <1>1, <2>1 DEF Counted
<1> QED BY <1>2, <1>10, <1>11, <1>13 DEF QuorumInv, Q

\* The round and its parents before and after a message.
LEMMA ReceivePasses ==
  ASSUME ShapeInv, QuorumInv, receive_parents
  PROVE  /\ \A r \in 1..MaxRound : Pass(round, last_parents, r) => Pass(round', last_parents', r)
         /\ Quorate(tx_parents[1]) => Pass(round', last_parents', tx_parents[1].round)
         /\ last_parents' # {} => IsQuorum(Origins(last_parents'))
<1> USE Zenon
<1> DEFINE m == tx_parents[1]
<1>1. FeedInv /\ LoopInv
  BY DEF ShapeInv
<1>2. Stored(store, m) /\ 1 \in 1..Len(tx_parents) /\ store \in SUBSET Certificates
      /\ last_parents \subseteq Known(store, round)
  <2>1. Stored(store, m) /\ Len(tx_parents) >= 1 /\ tx_parents \in Seq(Messages)
    BY <1>1, ReceiveParts, FeedParts DEF Channel
  <2>2. 1 \in 1..Len(tx_parents)
    BY <2>1, SMT
  <2> QED BY <1>1, <2>1, <2>2, FeedParts
<1>3. m.round \in 1..MaxRound /\ m.parents \in SUBSET Certificates
  BY <1>2 DEF Stored, Messages
<1>4. Quorate(m) => m.parents # {}
  <2>1. Origins({}) = {}
    BY DEF Origins
  <2> QED BY <2>1, NoEmptyQuorum DEF Quorate
<1>5. Quorate(m) \/ Pass(round, last_parents, m.round)
  <2>1. Quorate(m) \/ Ann(round, last_parents, tx_parents, m.round, 1 - 1)
    BY <1>2 DEF QuorumInv, Firsts
  <2>2. 1..(1 - 1) = {}
    BY SMT
  <2> QED BY <2>1, <2>2 DEF Ann
<1>6. last_parents # {} => IsQuorum(Origins(last_parents))
  BY DEF QuorumInv
<1>7. round \in Nat /\ m.round \in Nat
  BY <1>1, <1>3, SMT DEF LoopInv
<1>8. last_parents \in SUBSET (Certificates \cup Genesis)
  BY <1>2, KnownType
<1> HIDE DEF m
<1>9. CASE m.round < round /\ round' = round /\ last_parents' = last_parents
  BY <1>6, <1>9 DEF Pass, m
<1>10. CASE m.round = round /\ round' = round /\ last_parents' = last_parents \cup m.parents
  <2>1. Quorate(m) => last_parents' # {}
    BY <1>4, <1>10
  <2>2. last_parents # {} => last_parents' # {}
    BY <1>10
  <2>3. IsQuorum(Origins(last_parents'))
    <3>1. Origins(last_parents') = Origins(last_parents) \cup Origins(m.parents)
      BY <1>10, OriginsOfUnion
    <3>2. Origins(last_parents) \in SUBSET Authorities /\ Origins(m.parents) \in SUBSET Authorities
      <4>1. m.parents \in SUBSET (Certificates \cup Genesis)
        BY <1>3
      <4> QED BY <1>8, <4>1, OriginsType
    <3>3. IsQuorum(Origins(last_parents)) \/ IsQuorum(Origins(m.parents))
      <4>1. ASSUME last_parents = {} PROVE ~ Pass(round, last_parents, m.round)
        BY <1>7, <1>10, <4>1, SMT DEF Pass
      <4> QED BY <1>5, <1>6, <4>1 DEF Quorate
    <3>4. Origins(last_parents') \in SUBSET Authorities /\ Origins(last_parents) \subseteq Origins(last_parents')
          /\ Origins(m.parents) \subseteq Origins(last_parents')
      BY <3>1, <3>2
    <3> QED BY <3>2, <3>3, <3>4, QuorumGrows
  <2> QED BY <1>10, <2>1, <2>2, <2>3 DEF Pass, m
<1>11. CASE m.round > round /\ round' = m.round /\ last_parents' = m.parents
  <2>1. Quorate(m)
    <3>1. ~ Pass(round, last_parents, m.round)
      BY <1>7, <1>11, SMT DEF Pass
    <3> QED BY <1>5, <3>1
  <2>2. \A r \in 1..MaxRound : Pass(round, last_parents, r) => r < round'
    BY <1>7, <1>11, SMT DEF Pass
  <2> QED BY <1>4, <1>11, <2>1, <2>2 DEF Pass, Quorate, m
<1> QED BY <1>1, <1>9, <1>10, <1>11, ReceiveCases DEF m

\* A message is read: the others move up.
LEMMA ReceiveKeepsQuorum ==
  ASSUME ShapeInv, QuorumInv, receive_parents
  PROVE  QuorumInv'
<1> USE Zenon
<1> DEFINE Q == tx_parents
           n == Len(Q)
           An(r, k) == Ann(round, last_parents, Q, r, k)
           An2(r, k) == Ann(round', last_parents', Q', r, k)
<1>1. FeedInv /\ outbox' = outbox /\ aggregators' = aggregators
  BY DEF ShapeInv, receive_parents
<1>2. /\ Q \in Seq(Messages) /\ n >= 1 /\ Q' \in Seq(Messages) /\ Len(Q') = n - 1
      /\ \A i \in 1..Len(Q') : i + 1 \in 1..n /\ Q'[i] = Q[i + 1]
  BY <1>1, ReceiveParts, FeedParts DEF Channel
<1>3. /\ \A i \in 1..n : Q[i].round \in 1..MaxRound
      /\ \A g \in Feeders : outbox[g] # <<>> => Head(outbox[g]).round \in 1..MaxRound
  BY <1>1, MessageRounds, FeedParts
<1>4. /\ Firsts(round, last_parents, Q) /\ Taken(round, last_parents, Q, outbox)
      /\ Counted(round, last_parents, Q, outbox, aggregators)
  BY DEF QuorumInv
<1>5. /\ \A r \in 1..MaxRound : Pass(round, last_parents, r) => Pass(round', last_parents', r)
      /\ Quorate(Q[1]) => Pass(round', last_parents', Q[1].round)
      /\ last_parents' # {} => IsQuorum(Origins(last_parents'))
  BY ReceivePasses
<1>6. n \in Nat
  BY <1>2, SMT
<1> HIDE DEF n, Q
<1>7. ASSUME NEW r \in 1..MaxRound, NEW k \in 1..n, An(r, k) PROVE An2(r, k - 1)
  <2>1. CASE Pass(round, last_parents, r)
    BY <1>5, <2>1 DEF Ann
  <2>2. CASE \E j \in 1..k : Q[j].round = r /\ Quorate(Q[j])
    <3>1. PICK j \in 1..k : Q[j].round = r /\ Quorate(Q[j])
      BY <2>2
    <3>2. CASE j = 1
      BY <1>5, <3>1, <3>2 DEF Ann
    <3>3. CASE j # 1
      <4>1. j - 1 \in 1..(k - 1) /\ j - 1 \in 1..Len(Q') /\ (j - 1) + 1 = j
        BY <1>2, <1>6, <3>3, SMT
      <4>2. Q'[j - 1] = Q[j]
        BY <1>2, <4>1
      <4> QED BY <3>1, <4>1, <4>2 DEF Ann
    <3> QED BY <3>2, <3>3
  <2> QED BY <1>7, <2>1, <2>2 DEF Ann
<1>8. n \in 1..n /\ Len(Q') = n - 1
  BY <1>2, <1>6, SMT DEF n
<1>9. Firsts(round', last_parents', Q')
  <2> SUFFICES ASSUME NEW i \in 1..Len(Q') PROVE Quorate(Q'[i]) \/ An2(Q'[i].round, i - 1)
    BY DEF Firsts
  <2>1. i + 1 \in 1..n /\ Q'[i] = Q[i + 1] /\ i \in 1..n /\ (i + 1) - 1 = i
    BY <1>2, <1>6, <1>8, SMT
  <2>2. Quorate(Q[i + 1]) \/ An(Q[i + 1].round, i)
    BY <1>4, <2>1 DEF Firsts, n
  <2>3. Q[i + 1].round \in 1..MaxRound
    BY <1>3, <2>1
  <2> HIDE DEF An, An2
  <2> QED BY <1>7, <2>1, <2>2, <2>3
<1>10. Taken(round', last_parents', Q', outbox)
  <2>1. ASSUME NEW g \in Feeders, outbox[g] # <<>>
        PROVE  Quorate(Head(outbox[g])) \/ An2(Head(outbox[g]).round, n - 1)
    <3>1. Quorate(Head(outbox[g])) \/ An(Head(outbox[g]).round, n)
      BY <1>4, <2>1 DEF Taken, n
    <3>2. Head(outbox[g]).round \in 1..MaxRound
      BY <1>3, <2>1
    <3> HIDE DEF An, An2
    <3> QED BY <1>7, <1>8, <3>1, <3>2
  <2> QED BY <1>8, <2>1 DEF Taken
<1>11. Counted(round', last_parents', Q', outbox, aggregators)
  <2>1. ASSUME NEW r \in 1..MaxRound
        PROVE  IF IsQuorum(aggregators[r].used) THEN An2(r, n - 1) \/ Sending(outbox, r)
               ELSE Origins(aggregators[r].certificates) = aggregators[r].used
    <3>1. IF IsQuorum(aggregators[r].used) THEN An(r, n) \/ Sending(outbox, r)
          ELSE Origins(aggregators[r].certificates) = aggregators[r].used
      BY <1>4 DEF Counted, n
    <3> HIDE DEF An, An2
    <3> QED BY <1>7, <1>8, <3>1
  <2> QED BY <1>8, <2>1 DEF Counted
<1> QED BY <1>1, <1>5, <1>9, <1>10, <1>11 DEF QuorumInv, Q

\* The next round starts without parents: the proposer has had those before.
LEMMA ProposeKeepsQuorum ==
  ASSUME ShapeInv, QuorumInv, propose
  PROVE  QuorumInv'
<1> USE Zenon
<1>1. round' = round + 1 /\ last_parents' = {}
  BY ProposeParts
<1>2. tx_parents' = tx_parents /\ outbox' = outbox /\ aggregators' = aggregators
  BY DEF propose, feed
<1>3. round \in Nat
  BY SMT DEF ShapeInv, LoopInv
<1>4. \A r \in 1..MaxRound : Pass(round, last_parents, r) => Pass(round + 1, {}, r)
  BY <1>3, SMT DEF Pass
<1>5. Boxes(store, outbox) /\ Channel(store, tx_parents)
  BY FeedParts DEF ShapeInv
<1>6. /\ Firsts(round, last_parents, tx_parents)
      /\ Taken(round, last_parents, tx_parents, outbox)
      /\ Counted(round, last_parents, tx_parents, outbox, aggregators)
  BY DEF QuorumInv
<1> DEFINE R2 == round + 1
           P2 == {}
<1>7. \A r \in 1..MaxRound : Pass(round, last_parents, r) => Pass(R2, P2, r)
  BY <1>4
<1>8. round' = R2 /\ last_parents' = P2
  BY <1>1
<1>9. P2 = {}
  BY SMT
<1> HIDE DEF R2, P2
<1>10. /\ Firsts(R2, P2, tx_parents)
       /\ Taken(R2, P2, tx_parents, outbox)
       /\ Counted(R2, P2, tx_parents, outbox, aggregators)
  BY <1>5, <1>6, <1>7, PassingKeepsQuorum
<1> QED BY <1>2, <1>8, <1>9, <1>10 DEF QuorumInv

\* Nothing has been counted or sent, and the genesis is a quorum.
LEMMA EmptyQuorum ==
  /\ IsQuorum(Origins(Genesis)) /\ Firsts(0, Genesis, <<>>)
  /\ Taken(0, Genesis, <<>>, NoOutbox) /\ Counted(0, Genesis, <<>>, NoOutbox, NoAggregators)
<1> USE Zenon
<1>1. IsQuorum(Origins(Genesis))
  BY AllAreQuorum, GenesisOrigins
<1>2. Firsts(0, Genesis, <<>>)
  BY SMT DEF Firsts
<1>3. Taken(0, Genesis, <<>>, NoOutbox)
  BY DEF Taken, NoOutbox
<1>4. Counted(0, Genesis, <<>>, NoOutbox, NoAggregators)
  <2>1. \A r \in 1..MaxRound : NoAggregators[r].used = {} /\ NoAggregators[r].certificates = {}
    BY DEF NoAggregators
  <2>2. Origins({}) = {}
    BY DEF Origins
  <2> QED BY <2>1, <2>2, NoEmptyQuorum DEF Counted
<1> QED BY <1>1, <1>2, <1>3, <1>4

\* At a start.
LEMMA StartsQuorate ==
  /\ Init => QuorumInv
  /\ Restart => QuorumInv'
<1> USE Zenon
<1>1. Init => /\ round = 0 /\ last_parents = Genesis /\ tx_parents = <<>> /\ outbox = NoOutbox
              /\ aggregators = NoAggregators
  BY DEF Init
<1>2. Restart => /\ round' = 0 /\ last_parents' = Genesis /\ tx_parents' = <<>> /\ outbox' = NoOutbox
                 /\ aggregators' = NoAggregators
  BY DEF Restart
<1> QED BY <1>1, <1>2, EmptyQuorum DEF QuorumInv

\* Every step keeps it.
LEMMA StepKeepsQuorum ==
  ASSUME QuietStart, ShapeInv, QuietInv, QuorumInv, [Next]_vars
  PROVE  QuorumInv'
<1> USE Zenon
<1>1. CASE \E c \in Certificates : accept_certificate(c)
  BY <1>1, AcceptKeepsQuorum
<1>2. CASE recover_parents
  BY <1>2, RecoverKeepsQuorum
<1>3. CASE \E f \in Feeders : send_parents(f)
  BY <1>3, SendParentsKeepsQuorum
<1>4. CASE propose
  BY <1>4, ProposeKeepsQuorum
<1>5. CASE receive_parents
  BY <1>5, ReceiveKeepsQuorum
<1>6. CASE Restart
  BY <1>6, StartsQuorate
<1>7. CASE \/ send_header \/ max_delay_elapses \/ min_delay_elapses \/ committed_headers
           \/ \E d \in Digests : our_digest(d)
           \/ \E r \in 1..(MaxRound - 1), own \in SUBSET (certified \ sequenced) : commit(r, own)
           \/ UNCHANGED vars
  <2>1. UNCHANGED feed /\ round' = round /\ last_parents' = last_parents
    BY <1>7 DEF send_header, max_delay_elapses, min_delay_elapses, committed_headers, our_digest,
       commit, vars, proposer
  <2>2. tx_parents' = tx_parents /\ outbox' = outbox /\ aggregators' = aggregators
    BY <2>1 DEF feed
  <2> QED BY <2>1, <2>2 DEF QuorumInv
<1> QED BY <1>1, <1>2, <1>3, <1>4, <1>5, <1>6, <1>7 DEF Next, Loop

-----------------------------------------------------------------------------
(* What a restarted primary finds in the store.                            *)

\* A certificate of a later round than the first stands on a quorum.
LEMMA AcceptStandsOnQuorum ==
  ASSUME ShapeInv, StoreInv, NEW c \in Certificates, accept_certificate(c), c.round > 1
  PROVE  IsQuorum(Origins(InRound(store, c.round - 1)))
<1> USE Zenon
<1> DEFINE O == Origins(InRound(store, c.round - 1))
<1>1. c.round \in 1..MaxRound /\ c.round # 1 /\ c.round - 1 # 0 /\ c.round > 0
  BY SMT DEF Certificates
<1>2. store \in SUBSET Certificates /\ sent \subseteq Headers
  BY FeedParts DEF ShapeInv, HeaderInv
<1>3. O \in SUBSET Authorities
  <2>1. InRound(store, c.round - 1) \in SUBSET (Certificates \cup Genesis)
    BY <1>2 DEF InRound
  <2> QED BY <2>1, OriginsType
<1>4. \/ \E h \in sent : h.round = c.round /\ IsQuorum(h.parents)
      \/ \E parents \in SUBSET O : WellFounded(c, parents)
  BY <1>1 DEF accept_certificate
<1>5. CASE \E h \in sent : h.round = c.round /\ IsQuorum(h.parents)
  <2>1. PICK h \in sent : h.round = c.round /\ IsQuorum(h.parents)
    BY <1>5
  <2>2. h.parents \subseteq Origins(Known(store, c.round - 1))
    BY <1>1, <2>1 DEF StoreInv, Grounded
  <2>3. h.parents \subseteq O
    BY <1>1, <2>2 DEF Known
  <2> HIDE DEF O
  <2>4. h.parents \in SUBSET Authorities
    BY <1>3, <2>3
  <2>5. IsQuorum(O)
    BY <1>3, <2>1, <2>3, <2>4, QuorumGrows
  <2> QED BY <2>5 DEF O
<1>6. CASE \E parents \in SUBSET O : WellFounded(c, parents)
  <2>1. PICK parents \in SUBSET O : WellFounded(c, parents)
    BY <1>6
  <2>2. IsQuorum(parents)
    BY <2>1 DEF WellFounded
  <2> HIDE DEF O
  <2>3. parents \in SUBSET Authorities /\ parents \subseteq O
    BY <1>3, <2>1
  <2>4. IsQuorum(O)
    BY <1>3, <2>2, <2>3, QuorumGrows
  <2> QED BY <2>4 DEF O
<1> QED BY <1>4, <1>5, <1>6

\* What stands on quorums of the store still does when it grows.
LEMMA GroundedGrows ==
  ASSUME NEW S, NEW T, S \subseteq T, NEW h, Grounded(S, h)
  PROVE  Grounded(T, h)
<1> USE Zenon
<1>1. Known(S, h.round - 1) \subseteq Known(T, h.round - 1)
  BY InRoundGrows
<1>2. Origins(Known(S, h.round - 1)) \subseteq Origins(Known(T, h.round - 1))
  BY <1>1, OriginsGrow
<1> QED BY <1>2 DEF Grounded

\* A round that has a quorum keeps it.
LEMMA QuorumStays ==
  ASSUME NEW S \in SUBSET Certificates, NEW T \in SUBSET Certificates, S \subseteq T, NEW t,
         IsQuorum(Origins(InRound(S, t)))
  PROVE  IsQuorum(Origins(InRound(T, t)))
<1> USE Zenon
<1>1. Origins(InRound(S, t)) \subseteq Origins(InRound(T, t))
  BY InRoundGrows, OriginsGrow
<1>2. InRound(S, t) \in SUBSET (Certificates \cup Genesis) /\ InRound(T, t) \in SUBSET (Certificates \cup Genesis)
  BY DEF InRound
<1>3. Origins(InRound(S, t)) \in SUBSET Authorities /\ Origins(InRound(T, t)) \in SUBSET Authorities
  BY <1>2, OriginsType
<1> QED BY <1>1, <1>3, QuorumGrows

\* A certificate enters the store.
LEMMA AcceptKeepsStore ==
  ASSUME ShapeInv, StoreInv, NEW c \in Certificates, accept_certificate(c)
  PROVE  StoreInv'
<1> USE Zenon
<1>1. /\ store' = store \cup {c} /\ sent' = sent /\ last_proposed' = last_proposed
      /\ pc' = pc /\ round' = round
  BY DEF accept_certificate, proposer
<1>2. store \in SUBSET Certificates
  BY FeedParts DEF ShapeInv
<1>3. store \subseteq store' /\ store' \in SUBSET Certificates
  BY <1>1, <1>2
<1>4. \A h \in sent' \cup {last_proposed'} : Grounded(store', h)
  BY <1>1, <1>3, GroundedGrows DEF StoreInv
<1>5. \E t \in 0..MaxRound : Reaches(store', last_proposed'.round, t)
  <2>1. PICK t \in 0..MaxRound : Reaches(store, last_proposed.round, t)
    BY DEF StoreInv
  <2>2. c.round \in 1..MaxRound /\ last_proposed.round \in Nat /\ (\A d \in store : d.round \in Nat)
        /\ MaxRound \in Nat
    BY <1>2, ProposerAssumption, SMT DEF Certificates, ShapeInv, HeaderInv, Headers
  <2>3. t \in Nat /\ last_proposed.round <= t + 1 /\ \A d \in store : d.round <= t + 1
    BY <2>1, SMT DEF Reaches
  <2>4. t > 0 => IsQuorum(Origins(InRound(store, t)))
    BY <2>1 DEF Reaches
  <2>5. CASE c.round <= t + 1
    <3>1. \A d \in store' : d.round <= t + 1
      BY <1>1, <2>3, <2>5
    <3>2. t > 0 => IsQuorum(Origins(InRound(store', t)))
      BY <1>2, <1>3, <2>4, QuorumStays
    <3> QED BY <1>1, <2>3, <3>1, <3>2 DEF Reaches
  <2>6. CASE ~ (c.round <= t + 1)
    <3> DEFINE s == c.round - 1
    <3>1. s \in 0..MaxRound /\ c.round > 1 /\ c.round <= s + 1 /\ last_proposed.round <= s + 1
      BY <2>2, <2>3, <2>6, SMT
    <3>2. \A d \in store : d.round <= s + 1
      BY <2>2, <2>3, <2>6, SMT
    <3>3. IsQuorum(Origins(InRound(store, s)))
      BY <3>1, AcceptStandsOnQuorum
    <3> HIDE DEF s
    <3>4. IsQuorum(Origins(InRound(store', s)))
      BY <1>2, <1>3, <3>3, QuorumStays
    <3>5. \A d \in store' : d.round <= s + 1
      BY <1>1, <3>1, <3>2
    <3> QED BY <1>1, <3>1, <3>4, <3>5 DEF Reaches
  <2> QED BY <2>5, <2>6
<1> QED BY <1>1, <1>4, <1>5 DEF StoreInv

\* A header is made: it stands on the parents of the last round.
LEMMA ProposeKeepsStore ==
  ASSUME ShapeInv, QuorumInv, StoreInv, propose
  PROVE  StoreInv'
<1> USE Zenon
<1>1. sent' = sent /\ store' = store
  BY DEF propose
<1>2. /\ round' = round + 1 /\ round + 1 \in 1..MaxRound /\ last_parents # {} /\ pc' = "send"
      /\ Origins(last_parents) \in SUBSET Authorities
      /\ \/ last_proposed.round = round + 1 /\ last_proposed' = last_proposed
         \/ last_proposed'.round = round + 1 /\ last_proposed'.parents = Origins(last_parents)
  BY ProposeParts
<1>3. last_proposed'.round = round'
  BY <1>2
<1>4. round \in Nat /\ round \in 0..MaxRound /\ (round + 1) - 1 = round /\ round' > 0
  BY <1>2, SMT DEF ShapeInv, LoopInv
<1>5. IsQuorum(Origins(last_parents))
  BY <1>2 DEF QuorumInv
<1>6. store \in SUBSET Certificates /\ last_parents \subseteq Known(store, round)
  BY FeedParts DEF ShapeInv
<1>7. Origins(last_parents) \subseteq Origins(Known(store, round))
  BY <1>6, OriginsGrow
<1>8. Grounded(store, last_proposed')
  <2>1. CASE last_proposed' = last_proposed
    BY <2>1 DEF StoreInv
  <2>2. CASE last_proposed'.round = round + 1 /\ last_proposed'.parents = Origins(last_parents)
    BY <1>4, <1>5, <1>7, <2>2 DEF Grounded
  <2> QED BY <1>2, <2>1, <2>2
<1>9. \E t \in 0..MaxRound : Reaches(store, round', t)
  <2>1. PICK t \in 0..MaxRound : Reaches(store, last_proposed.round, t)
    BY DEF StoreInv
  <2>2. \A d \in store : d.round \in Nat
    BY <1>6, SMT DEF Certificates
  <2>3. t \in Nat /\ \A d \in store : d.round <= t + 1
    BY <2>1, SMT DEF Reaches
  <2>4. CASE round <= t
    <3>1. round' <= t + 1
      BY <1>2, <1>4, <2>3, <2>4, SMT
    <3> QED BY <2>1, <3>1 DEF Reaches
  <2>5. CASE ~ (round <= t)
    <3>1. \A d \in store : d.round <= round + 1
      BY <1>4, <2>2, <2>3, <2>5, SMT
    <3>2. round # 0 /\ round' <= round + 1
      BY <1>2, <1>4, <2>3, <2>5, SMT
    <3>3. Origins(last_parents) \subseteq Origins(InRound(store, round))
      BY <1>7, <3>2 DEF Known
    <3>4. Origins(InRound(store, round)) \in SUBSET Authorities
      <4>1. InRound(store, round) \in SUBSET (Certificates \cup Genesis)
        BY <1>6 DEF InRound
      <4> QED BY <4>1, OriginsType
    <3>5. IsQuorum(Origins(InRound(store, round)))
      BY <1>2, <1>5, <3>3, <3>4, QuorumGrows
    <3> QED BY <1>4, <3>1, <3>2, <3>5 DEF Reaches
  <2> QED BY <2>4, <2>5
<1>10. \A h \in sent : Grounded(store, h) /\ h.round > 0
  BY DEF StoreInv
<1> QED BY <1>1, <1>2, <1>3, <1>4, <1>8, <1>9, <1>10 DEF StoreInv

\* Every step keeps it.
LEMMA StepKeepsStore ==
  ASSUME ShapeInv, QuorumInv, StoreInv, [Next]_vars
  PROVE  StoreInv'
<1> USE Zenon
<1>1. CASE \E c \in Certificates : accept_certificate(c)
  BY <1>1, AcceptKeepsStore
<1>2. CASE propose
  BY <1>2, ProposeKeepsStore
<1>3. CASE send_header
  <2>1. /\ store' = store /\ last_proposed' = last_proposed /\ sent' = sent \cup {last_proposed}
        /\ pc = "send" /\ pc' = "select"
    BY <1>3 DEF send_header
  <2>2. last_proposed.round > 0
    BY <2>1 DEF StoreInv
  <2>3. "select" # "send"
    BY SMT
  <2> QED BY <2>1, <2>2, <2>3 DEF StoreInv
<1>4. CASE receive_parents \/ committed_headers \/ Restart \/ \E d \in Digests : our_digest(d)
  <2>1. /\ store' = store /\ last_proposed' = last_proposed /\ sent' = sent /\ pc' \in {"top", "select"}
    BY <1>4 DEF receive_parents, committed_headers, our_digest, Restart, Top
  <2>2. pc' # "send"
    BY <2>1
  <2> QED BY <2>1, <2>2 DEF StoreInv
<1>5. CASE \/ recover_parents \/ max_delay_elapses \/ min_delay_elapses
           \/ \E f \in Feeders : send_parents(f)
           \/ \E r \in 1..(MaxRound - 1), own \in SUBSET (certified \ sequenced) : commit(r, own)
           \/ UNCHANGED vars
  <2>1. store' = store /\ last_proposed' = last_proposed /\ sent' = sent /\ pc' = pc /\ round' = round
    BY <1>5 DEF recover_parents, max_delay_elapses, min_delay_elapses, send_parents, commit, vars,
       proposer
  <2> QED BY <2>1 DEF StoreInv
<1> QED BY <1>1, <1>2, <1>3, <1>4, <1>5 DEF Next, Loop

\* It holds at the start.
LEMMA InitStore == Init => StoreInv
<1>1. ASSUME Init PROVE store = {} /\ sent = {} /\ pc = "select" /\ last_proposed = NoHeader
  BY <1>1, Zenon DEF Init
<1>2. NoHeader.round = 0 /\ 0 \in 0..MaxRound
  BY ProposerAssumption DEF NoHeader
<1>3. Grounded({}, NoHeader) /\ Reaches({}, NoHeader.round, 0)
  BY <1>2 DEF Grounded, Reaches
<1>4. "select" # "send"
  OBVIOUS
<1> QED BY <1>1, <1>2, <1>3, <1>4, Zenon DEF StoreInv

-----------------------------------------------------------------------------
(* A primary that has recovered is past its last header.                   *)

\* When the recovery task is through, nothing of it is on its way.
LEMMA RecoveredIsPast ==
  ASSUME ShapeInv, RecoveryInv, Recovered
  PROVE  last_proposed.round <= round + 1 /\ \E t \in 0..MaxRound : last_proposed.round <= t + 1 /\ t <= round
<1> USE Zenon
<1>1. PICK t \in 0..MaxRound :
        /\ last_proposed.round <= t + 1
        /\ t <= round \/ Coming(outbox, tx_parents, aggregators, recovering, t)
  BY DEF RecoveryInv
<1>2. ~ Coming(outbox, tx_parents, aggregators, recovering, t)
  <2>1. tx_parents \in Seq(Messages)
    BY FeedParts DEF ShapeInv, Channel
  <2>2. /\ recovering = {} /\ outbox["recovery"] = <<>>
        /\ \A i \in 1..Len(tx_parents) : tx_parents[i].from # "recovery"
    BY <2>1, RecoveredByPlace
  <2>3. aggregators[t].used \cup Origins(InRound(recovering, t)) = aggregators[t].used
    BY <2>2 DEF Origins, InRound
  <2> QED BY <2>2, <2>3 DEF Coming
<1>3. t \in Nat /\ round \in Nat /\ last_proposed.round \in Nat
  BY SMT DEF ShapeInv, LoopInv, HeaderInv, Headers
<1>4. t <= round
  BY <1>1, <1>2
<1>5. last_proposed.round <= round + 1
  BY <1>1, <1>3, <1>4, SMT
<1> QED BY <1>1, <1>4, <1>5

\* The recovery task appends a certificate: the round it is part of comes on.
LEMMA RecoverKeepsRecovery ==
  ASSUME ShapeInv, RecoveryInv, recover_parents
  PROVE  RecoveryInv'
<1> USE Zenon
<1>1. PICK c \in recovering : append("recovery", c) /\ recovering' = recovering \ {c}
  BY DEF recover_parents
<1>2. /\ tx_parents' = tx_parents /\ round' = round /\ last_proposed' = last_proposed
      /\ outbox["recovery"] = <<>>
  BY DEF recover_parents, proposer
<1>3. PICK t \in 0..MaxRound :
        /\ last_proposed.round <= t + 1
        /\ t <= round \/ Coming(outbox, tx_parents, aggregators, recovering, t)
  BY DEF RecoveryInv
<1>4. CASE t <= round
  BY <1>2, <1>3, <1>4 DEF RecoveryInv
<1>5. CASE ~ (t <= round)
  <2> DEFINE A == aggregators
             W == recovering
  <2>0. FeedInv
    BY DEF ShapeInv
  <2>1. A \in Aggregators /\ W \in SUBSET Certificates /\ c \in Certificates
    BY <1>1, <2>0, FeedParts DEF Holds
  <2>2. t \in 1..MaxRound /\ c.round \in 1..MaxRound
    <3>1. t # 0 /\ MaxRound \in Nat
      BY <1>5, ProposerAssumption, SMT DEF ShapeInv, LoopInv
    <3> QED BY <2>1, <3>1, SMT DEF Certificates
  <2>3. A[t].used \in SUBSET Authorities /\ A[c.round].certificates \in SUBSET Certificates
    BY <2>1, <2>2 DEF Aggregators
  <2>4. CASE \E i \in 1..Len(tx_parents) : tx_parents[i].round = t /\ tx_parents[i].from = "recovery"
    BY <1>2, <1>3, <2>4 DEF RecoveryInv, Coming
  <2>5. CASE ~ IsQuorum(A[t].used) /\ IsQuorum(A[t].used \cup Origins(InRound(W, t)))
    <3> DEFINE U == A[t].used \cup Origins(InRound(W, t))
               U2 == aggregators'[t].used \cup Origins(InRound(recovering', t))
    <3>1. \/ /\ c.origin \in A[c.round].used /\ aggregators' = A
          \/ /\ IsQuorum(Used(A, c)) /\ aggregators' = Add(A, c, {})
             /\ outbox' = [outbox EXCEPT !["recovery"] = <<MessageOf(A, "recovery", c)>>]
          \/ ~ IsQuorum(Used(A, c)) /\ aggregators' = Add(A, c, HeldBy(A, c))
      BY <1>1, AppendCases
    <3>2. HeldBy(A, c) \in SUBSET Certificates /\ {} \in SUBSET Certificates
      BY <2>1, AddParts
    <3>3. ASSUME NEW K \in SUBSET Certificates
          PROVE  /\ Add(A, c, K)[c.round].used = Used(A, c)
                 /\ \A r \in 1..MaxRound : r # c.round => Add(A, c, K)[r] = A[r]
      BY <2>1, <3>3, AddParts, SMT
    <3>4. U \in SUBSET Authorities
      <4>1. InRound(W, t) \in SUBSET (Certificates \cup Genesis)
        BY <2>1 DEF InRound
      <4>2. Origins(InRound(W, t)) \in SUBSET Authorities
        BY <4>1, OriginsType
      <4> QED BY <2>3, <4>2
    <3>5. CASE c.round # t
      <4>1. aggregators'[t] = A[t]
        BY <2>2, <3>1, <3>2, <3>3, <3>5
      <4>2. InRound(recovering', t) = InRound(W, t)
        BY <1>1, <3>5, SMT DEF InRound
      <4> QED BY <1>2, <1>3, <2>5, <4>1, <4>2 DEF RecoveryInv, Coming
    <3>6. CASE c.round = t /\ outbox' = [outbox EXCEPT !["recovery"] = <<MessageOf(A, "recovery", c)>>]
      <4> DEFINE M == MessageOf(A, "recovery", c)
      <4>1. M.round = t
        BY <3>6 DEF MessageOf
      <4>2. outbox \in [Feeders -> Seq(Messages)] /\ "recovery" \in Feeders
        BY <2>0, FeedParts DEF Boxes, Feeders
      <4> HIDE DEF M
      <4>3. outbox' = [outbox EXCEPT !["recovery"] = <<M>>]
        BY <3>6 DEF M
      <4>4. outbox'["recovery"] # <<>> /\ Head(outbox'["recovery"]) = M
        BY <4>2, <4>3, SMT
      <4> QED BY <1>2, <1>3, <4>1, <4>4 DEF RecoveryInv, Coming
    <3>7. CASE /\ c.round = t
               /\ \/ c.origin \in A[c.round].used /\ aggregators' = A
                  \/ ~ IsQuorum(Used(A, c)) /\ aggregators' = Add(A, c, HeldBy(A, c))
      <4>1. /\ A[t].used \subseteq aggregators'[t].used /\ c.origin \in aggregators'[t].used
            /\ ~ IsQuorum(aggregators'[t].used)
        <5>1. CASE c.origin \in A[c.round].used /\ aggregators' = A
          BY <2>5, <3>7, <5>1
        <5>2. CASE ~ IsQuorum(Used(A, c)) /\ aggregators' = Add(A, c, HeldBy(A, c))
          <6>1. aggregators'[t].used = Used(A, c)
            BY <3>2, <3>3, <3>7, <5>2
          <6>2. A[t].used \subseteq Used(A, c) /\ c.origin \in Used(A, c)
            BY <3>7 DEF Used
          <6> QED BY <5>2, <6>1, <6>2
        <5> QED BY <3>7, <5>1, <5>2
      <4>2. \A d \in InRound(W, t) : d = c \/ d \in InRound(recovering', t)
        BY <1>1 DEF InRound
      <4>3. U \subseteq U2
        <5>1. ASSUME NEW o \in Origins(InRound(W, t)) PROVE o \in U2
          <6>1. PICK d \in InRound(W, t) : o = d.origin
            BY <5>1 DEF Origins
          <6>2. d \in InRound(recovering', t) => o \in Origins(InRound(recovering', t))
            BY <6>1 DEF Origins
          <6>3. d = c => o \in aggregators'[t].used
            BY <4>1, <6>1
          <6> QED BY <4>2, <6>1, <6>2, <6>3
        <5> QED BY <4>1, <5>1
      <4>4. U2 \in SUBSET Authorities
        <5>1. InRound(recovering', t) \in SUBSET (Certificates \cup Genesis)
          BY <1>1, <2>1 DEF InRound
        <5>2. Origins(InRound(recovering', t)) \in SUBSET Authorities
          BY <5>1, OriginsType
        <5>3. Used(A, c) \in SUBSET Authorities
          BY <2>1, <3>2, AddParts
        <5>4. aggregators'[t].used \in SUBSET Authorities
          BY <2>3, <3>2, <3>3, <3>7, <5>3
        <5> QED BY <5>2, <5>4
      <4> HIDE DEF U, U2
      <4>5. IsQuorum(U)
        BY <2>5 DEF U
      <4>6. IsQuorum(U2)
        BY <3>4, <4>3, <4>4, <4>5, QuorumGrows
      <4>7. Coming(outbox', tx_parents', aggregators', recovering', t)
        BY <4>1, <4>6 DEF Coming, U2
      <4> QED BY <1>2, <1>3, <4>7 DEF RecoveryInv
    <3> QED BY <3>1, <3>5, <3>6, <3>7
  <2> QED BY <1>2, <1>3, <1>5, <2>4, <2>5 DEF Coming
<1> QED BY <1>4, <1>5

\* Its message is sent, and marked as its own.
LEMMA SendParentsKeepsRecovery ==
  ASSUME ShapeInv, QuietInv, RecoveryInv, NEW f \in Feeders, send_parents(f)
  PROVE  RecoveryInv'
<1> USE Zenon
<1>0. FeedInv
  BY DEF ShapeInv
<1>1. PICK m : /\ Head(outbox[f]) = m /\ outbox[f] # <<>>
               /\ tx_parents \in Seq(Messages) /\ Len(tx_parents') = Len(tx_parents) + 1
               /\ \A i \in 1..Len(tx_parents) : tx_parents'[i] = tx_parents[i]
               /\ tx_parents'[Len(tx_parents) + 1] = m
               /\ \A g \in Feeders : g # f => outbox'[g] = outbox[g]
  BY <1>0, SendParentsBoxes
<1>2. /\ recovering' = recovering /\ aggregators' = aggregators /\ round' = round
      /\ last_proposed' = last_proposed
  BY DEF send_parents, proposer
<1>3. PICK t \in 0..MaxRound :
        /\ last_proposed.round <= t + 1
        /\ t <= round \/ Coming(outbox, tx_parents, aggregators, recovering, t)
  BY DEF RecoveryInv
<1>4. m.from = f /\ "recovery" \in Feeders
  BY <1>1 DEF QuietInv, Feeders
<1>5. /\ Len(tx_parents) + 1 \in 1..Len(tx_parents')
      /\ \A i \in 1..Len(tx_parents) : i \in 1..Len(tx_parents')
  BY <1>1, SMT
<1>6. Coming(outbox, tx_parents, aggregators, recovering, t)
        => Coming(outbox', tx_parents', aggregators, recovering, t)
  <2>1. CASE outbox["recovery"] # <<>> /\ Head(outbox["recovery"]).round = t
    <3>1. CASE f = "recovery"
      BY <1>1, <1>4, <1>5, <2>1, <3>1 DEF Coming
    <3>2. CASE f # "recovery"
      BY <1>1, <1>4, <2>1, <3>2 DEF Coming
    <3> QED BY <3>1, <3>2
  <2>2. CASE \E i \in 1..Len(tx_parents) : tx_parents[i].round = t /\ tx_parents[i].from = "recovery"
    BY <1>1, <1>5, <2>2 DEF Coming
  <2> QED BY <2>1, <2>2 DEF Coming
<1> QED BY <1>2, <1>3, <1>6 DEF RecoveryInv

\* The proposer reads it, and is in that round or past it.
LEMMA ReceiveKeepsRecovery ==
  ASSUME ShapeInv, RecoveryInv, receive_parents
  PROVE  RecoveryInv'
<1> USE Zenon
<1> DEFINE m == tx_parents[1]
<1>1. FeedInv /\ LoopInv
  BY DEF ShapeInv
<1>2. /\ recovering' = recovering /\ aggregators' = aggregators /\ outbox' = outbox
      /\ last_proposed' = last_proposed
  BY DEF receive_parents
<1>3. /\ Stored(store, m) /\ tx_parents \in Seq(Messages) /\ Len(tx_parents') = Len(tx_parents) - 1
      /\ \A i \in 1..Len(tx_parents') : tx_parents'[i] = tx_parents[i + 1]
  BY <1>1, ReceiveParts, FeedParts DEF Channel
<1>4. m.round \in Nat /\ round \in Nat
  BY <1>1, <1>3, SMT DEF Stored, Messages, LoopInv
<1>5. round' \in Nat /\ m.round <= round' /\ round <= round'
  <2>1. (m.round < round /\ round' = round) \/ (m.round = round /\ round' = round)
        \/ (m.round > round /\ round' = m.round)
    BY <1>1, ReceiveCases
  <2> QED BY <1>4, <2>1, SMT
<1> HIDE DEF m
<1>6. PICK t \in 0..MaxRound :
        /\ last_proposed.round <= t + 1
        /\ t <= round \/ Coming(outbox, tx_parents, aggregators, recovering, t)
  BY DEF RecoveryInv
<1>7. ASSUME NEW i \in 1..Len(tx_parents), tx_parents[i].round = t, tx_parents[i].from = "recovery"
      PROVE  t <= round' \/ Coming(outbox', tx_parents', aggregators', recovering', t)
  <2>1. CASE i = 1
    BY <1>5, <1>7, <2>1 DEF m
  <2>2. CASE i # 1
    <3>1. i - 1 \in 1..Len(tx_parents') /\ (i - 1) + 1 = i
      BY <1>3, <2>2, SMT
    <3>2. tx_parents'[i - 1] = tx_parents[i]
      BY <1>3, <3>1
    <3> QED BY <1>7, <3>1, <3>2 DEF Coming
  <2> QED BY <2>1, <2>2
<1>8. t <= round => t <= round'
  BY <1>4, <1>5, SMT
<1>9. t <= round' \/ Coming(outbox', tx_parents', aggregators', recovering', t)
  <2>1. CASE Coming(outbox, tx_parents, aggregators, recovering, t)
    BY <1>2, <1>7, <2>1 DEF Coming
  <2> QED BY <1>6, <1>8, <2>1
<1> QED BY <1>2, <1>6, <1>9 DEF RecoveryInv

\* A restarted primary recovers the two newest rounds: the quorum that the last
\* header stands on is among them.
LEMMA RestartRecovers ==
  ASSUME ShapeInv, StoreInv, Restart
  PROVE  RecoveryInv'
<1> USE Zenon
<1>1. /\ recovering' = LastTwoRounds /\ aggregators' = NoAggregators /\ round' = 0
      /\ last_proposed' = last_proposed
  BY DEF Restart
<1>2. PICK t \in 0..MaxRound : Reaches(store, last_proposed.round, t)
  BY DEF StoreInv
<1>3. last_proposed.round <= t + 1 /\ \A c \in store : c.round <= t + 1
  BY <1>2 DEF Reaches
<1>4. CASE t = 0
  <2>1. t <= round'
    BY <1>1, <1>4, SMT
  <2> QED BY <1>1, <1>3, <2>1 DEF RecoveryInv
<1>5. CASE t # 0
  <2>1. t > 0 /\ t \in 1..MaxRound
    BY <1>5, SMT
  <2>2. IsQuorum(Origins(InRound(store, t)))
    BY <1>2, <2>1 DEF Reaches
  <2>3. InRound(LastTwoRounds, t) = InRound(store, t)
    BY <1>3 DEF InRound, LastTwoRounds
  <2>4. NoAggregators[t].used = {}
    BY <2>1 DEF NoAggregators
  <2>5. {} \cup Origins(InRound(store, t)) = Origins(InRound(store, t))
    BY SMT
  <2>6. Coming(outbox', tx_parents', aggregators', recovering', t)
    BY <1>1, <2>2, <2>3, <2>4, <2>5, NoEmptyQuorum DEF Coming
  <2> QED BY <1>1, <1>3, <2>6 DEF RecoveryInv
<1> QED BY <1>4, <1>5

\* Every step keeps it.
LEMMA StepKeepsRecovery ==
  ASSUME QuietStart, ShapeInv, QuietInv, StoreInv, RecoveryInv, [Next]_vars
  PROVE  RecoveryInv'
<1> USE Zenon
<1>1. CASE \E c \in Certificates : accept_certificate(c)
  <2>1. Recovered
    BY <1>1, AcceptKeepsQuiet
  <2>2. round' = round /\ last_proposed' = last_proposed
    BY <1>1 DEF accept_certificate, proposer
  <2> QED BY <2>1, <2>2, RecoveredIsPast DEF RecoveryInv
<1>2. CASE recover_parents
  BY <1>2, RecoverKeepsRecovery
<1>3. CASE \E f \in Feeders : send_parents(f)
  BY <1>3, SendParentsKeepsRecovery
<1>4. CASE propose
  <2>1. round' = round + 1 /\ round + 1 \in 1..MaxRound /\ last_proposed'.round = round + 1
    BY <1>4, ProposeParts
  <2>2. round' \in 0..MaxRound /\ last_proposed'.round <= round' + 1 /\ round' <= round'
    BY <2>1, SMT
  <2> QED BY <2>2 DEF RecoveryInv
<1>5. CASE receive_parents
  BY <1>5, ReceiveKeepsRecovery
<1>6. CASE Restart
  BY <1>6, RestartRecovers
<1>7. CASE \/ send_header \/ max_delay_elapses \/ min_delay_elapses \/ committed_headers
           \/ \E d \in Digests : our_digest(d)
           \/ \E r \in 1..(MaxRound - 1), own \in SUBSET (certified \ sequenced) : commit(r, own)
           \/ UNCHANGED vars
  <2>1. UNCHANGED feed /\ round' = round /\ last_proposed' = last_proposed
    BY <1>7 DEF send_header, max_delay_elapses, min_delay_elapses, committed_headers, our_digest,
       commit, vars, proposer
  <2>2. tx_parents' = tx_parents /\ outbox' = outbox /\ aggregators' = aggregators /\ recovering' = recovering
    BY <2>1 DEF feed
  <2> QED BY <2>1, <2>2 DEF RecoveryInv
<1> QED BY <1>1, <1>2, <1>3, <1>4, <1>5, <1>6, <1>7 DEF Next, Loop

\* It holds at the start.
LEMMA InitRecovery == Init => RecoveryInv
<1>1. ASSUME Init PROVE round = 0 /\ last_proposed = NoHeader
  BY <1>1, Zenon DEF Init
<1>2. NoHeader.round = 0 /\ 0 \in 0..MaxRound /\ 0 <= 0 + 1 /\ 0 <= 0
  BY ProposerAssumption DEF NoHeader
<1> QED BY <1>1, <1>2, Zenon DEF RecoveryInv

-----------------------------------------------------------------------------
(* One header a round; no digest is lost.                                  *)

\* A primary that proposes has recovered, so the round it proposes for is that
\* of its last header, which it proposes again, or a later one.
LEMMA ProposeKeepsUnique ==
  ASSUME ShapeInv, QuietInv, RecoveryInv, UniqueInv, propose
  PROVE  UniqueInv'
<1> USE Zenon
<1> DEFINE H == sent \cup proposed_headers \cup {last_proposed}
<1>1. sent' = sent
  BY DEF propose
<1>2. \/ last_proposed' = last_proposed /\ proposed_headers' = proposed_headers
      \/ \E h \in Headers : /\ last_proposed.round # round + 1 /\ last_proposed' = h
                            /\ proposed_headers' = proposed_headers \cup {h} /\ h.round = round + 1
  BY ProposeParts
<1>3. last_proposed.round <= round + 1
  BY ProposesRecovered, RecoveredIsPast
<1>4. round \in Nat /\ last_proposed.round \in Nat /\ \A h \in H : h.round \in Nat
  BY SMT DEF ShapeInv, LoopInv, HeaderInv, Headers
<1>5. (\A h \in H : h.round <= last_proposed.round) /\ (\A g, h \in H : g.round = h.round => g = h)
  BY DEF UniqueInv
<1>6. CASE last_proposed' = last_proposed /\ proposed_headers' = proposed_headers
  BY <1>1, <1>6 DEF UniqueInv
<1>7. CASE \E h \in Headers : /\ last_proposed.round # round + 1 /\ last_proposed' = h
                              /\ proposed_headers' = proposed_headers \cup {h} /\ h.round = round + 1
  <2>1. PICK h \in Headers : /\ last_proposed.round # round + 1 /\ last_proposed' = h
                             /\ proposed_headers' = proposed_headers \cup {h} /\ h.round = round + 1
    BY <1>7
  <2> DEFINE H2 == sent' \cup proposed_headers' \cup {last_proposed'}
  <2>2. \A g \in H : g.round <= h.round /\ g.round # h.round
    <3> HIDE DEF H
    <3> QED BY <1>3, <1>4, <1>5, <2>1, SMT
  <2>3. h.round <= h.round
    BY <1>4, <2>1, SMT
  <2>4. H2 \subseteq H \cup {h}
    BY <1>1, <2>1
  <2> HIDE DEF H, H2
  <2>5. \A g \in H2 : g.round <= h.round
    BY <2>2, <2>3, <2>4
  <2>6. \A e, g \in H2 : e.round = g.round => e = g
    BY <1>5, <2>2, <2>4
  <2> QED BY <2>1, <2>5, <2>6 DEF UniqueInv, H2
<1> QED BY <1>2, <1>6, <1>7

\* Every step keeps it.
LEMMA StepKeepsUnique ==
  ASSUME ShapeInv, QuietInv, RecoveryInv, UniqueInv, [Next]_vars
  PROVE  UniqueInv'
<1> USE Zenon
<1>1. CASE propose
  BY <1>1, ProposeKeepsUnique
<1>2. CASE ~ propose
  <2>1. last_proposed' = last_proposed /\ sent' \subseteq sent \cup {last_proposed}
    <3>1. CASE send_header
      BY <3>1 DEF send_header
    <3>2. CASE ~ send_header
      <4>1. last_proposed' = last_proposed /\ sent' = sent
        BY <1>2, <3>2 DEF Next, Loop, accept_certificate, recover_parents, send_parents,
           max_delay_elapses, min_delay_elapses, receive_parents, committed_headers, our_digest, commit,
           Restart, vars
      <4> QED BY <4>1
    <3> QED BY <3>1, <3>2
  <2>2. proposed_headers' \subseteq proposed_headers
    <3>1. CASE committed_headers
      BY <3>1, CommittedParts
    <3>2. CASE ~ committed_headers
      <4>1. proposed_headers' = proposed_headers \/ proposed_headers' = {}
        BY <1>2, <3>2 DEF Next, Loop, accept_certificate, recover_parents, send_parents,
           max_delay_elapses, min_delay_elapses, receive_parents, send_header, our_digest, commit,
           Restart, vars, proposer
      <4> QED BY <4>1
    <3> QED BY <3>1, <3>2
  <2>3. sent' \cup proposed_headers' \cup {last_proposed'} \subseteq sent \cup proposed_headers \cup {last_proposed}
    BY <2>1, <2>2
  <2> QED BY <2>1, <2>3 DEF UniqueInv
<1> QED BY <1>1, <1>2

\* There is only the header of round 0, which is never sent, at the start.
LEMMA InitUnique == Init => UniqueInv
<1>1. ASSUME Init PROVE sent = {} /\ proposed_headers = {} /\ last_proposed = NoHeader
  BY <1>1, Zenon DEF Init
<1>2. NoHeader.round <= NoHeader.round
  BY DEF NoHeader
<1> QED BY <1>1, <1>2, Zenon DEF UniqueInv

\* The StateHandler reports rounds of headers that are sequenced.
LEMMA StepKeepsCommit ==
  ASSUME CommitInv, [Next]_vars
  PROVE  CommitInv'
<1> USE Zenon
<1>1. CASE \E r \in 1..(MaxRound - 1), own \in SUBSET (certified \ sequenced) : commit(r, own)
  <2>1. PICK r \in 1..(MaxRound - 1), own \in SUBSET (certified \ sequenced) : commit(r, own)
    BY <1>1
  <2> DEFINE m == [commit_round |-> r, rounds |-> {h.round : h \in own}]
  <2>2. sequenced' = sequenced \cup own /\ committed_own_headers' = <<m>>
    BY <2>1 DEF commit
  <2>3. m.rounds = {h.round : h \in own}
    BY SMT
  <2>4. \A q \in m.rounds : \E h \in sequenced' : h.round = q
    BY <2>2, <2>3
  <2> HIDE DEF m
  <2> QED BY <2>2, <2>4 DEF CommitInv
<1>2. CASE committed_headers
  <2>1. committed_own_headers' = Tail(committed_own_headers) /\ committed_own_headers # <<>>
    BY <1>2 DEF committed_headers
  <2>2. \A m : Tail(<<m>>) = <<>>
    BY SMT
  <2>3. committed_own_headers' = <<>>
    BY <2>1, <2>2 DEF CommitInv
  <2> QED BY <2>3 DEF CommitInv
<1>3. CASE Restart
  <2>1. committed_own_headers' = <<>>
    BY <1>3 DEF Restart
  <2> QED BY <2>1 DEF CommitInv
<1>4. CASE \/ \E c \in Certificates : accept_certificate(c)
           \/ recover_parents
           \/ \E f \in Feeders : send_parents(f)
           \/ propose \/ send_header \/ max_delay_elapses \/ min_delay_elapses \/ receive_parents
           \/ \E d \in Digests : our_digest(d)
           \/ UNCHANGED vars
  <2>1. committed_own_headers' = committed_own_headers /\ sequenced' = sequenced
    BY <1>4 DEF accept_certificate, recover_parents, send_parents, propose, send_header,
       max_delay_elapses, min_delay_elapses, receive_parents, our_digest, vars, consensus
  <2> QED BY <2>1 DEF CommitInv
<1> QED BY <1>1, <1>2, <1>3, <1>4 DEF Next, Loop

\* The digests that are safe: queued, in a tracked header, or sequenced.
Safe(D, P, S) == Range(D) \cup UNION {PayloadOf(h) : h \in P \cup S}

\* A header takes digests out of the queue and is tracked.
LEMMA ProposeLosesNothing ==
  ASSUME ShapeInv, NoDigestLost, propose
  PROVE  NoDigestLost'
<1> USE Zenon
<1>1. reported' = reported /\ sequenced' = sequenced
  BY DEF propose, consensus
<1>2. \/ proposed_headers' = proposed_headers /\ digests' = digests
      \/ \E h : /\ proposed_headers' = proposed_headers \cup {h}
                /\ Range(digests) \subseteq PayloadOf(h) \cup Range(digests')
  BY ProposeParts
<1>3. reported \subseteq Safe(digests, proposed_headers, sequenced)
  BY DEF NoDigestLost, Safe
<1>4. CASE proposed_headers' = proposed_headers /\ digests' = digests
  BY <1>1, <1>4 DEF NoDigestLost
<1>5. CASE \E h : /\ proposed_headers' = proposed_headers \cup {h}
                  /\ Range(digests) \subseteq PayloadOf(h) \cup Range(digests')
  <2>1. PICK h : /\ proposed_headers' = proposed_headers \cup {h}
                 /\ Range(digests) \subseteq PayloadOf(h) \cup Range(digests')
    BY <1>5
  <2>2. Safe(digests, proposed_headers, sequenced) \subseteq Safe(digests', proposed_headers', sequenced)
    BY <2>1 DEF Safe
  <2> QED BY <1>1, <1>3, <2>2 DEF NoDigestLost, Safe
<1> QED BY <1>2, <1>4, <1>5

\* The header that is dropped for a round is the one that was sequenced, since
\* no round has two; what is given up is queued again.
LEMMA CommittedLosesNothing ==
  ASSUME ShapeInv, UniqueInv, CommitInv, NoDigestLost, committed_headers
  PROVE  NoDigestLost'
<1> USE Zenon
<1>1. reported' = reported /\ sequenced' = sequenced /\ committed_own_headers # <<>>
  BY DEF committed_headers
<1> DEFINE m == Head(committed_own_headers)
           pending == {h \in proposed_headers : h.round \notin m.rounds}
<1>2. PICK R : /\ R \subseteq pending /\ proposed_headers' = pending \ R
               /\ Range(digests') = Range(digests) \cup UNION {PayloadOf(h) : h \in R}
  BY CommittedParts
<1>3. \A r \in m.rounds : \E h \in sequenced : h.round = r
  <2>1. PICK k : /\ committed_own_headers = <<k>>
                 /\ \A r \in k.rounds : \E h \in sequenced : h.round = r
    BY <1>1 DEF CommitInv
  <2>2. m = k
    BY <2>1, SMT
  <2> QED BY <2>1, <2>2
<1> HIDE DEF m
<1>4. ASSUME NEW h \in proposed_headers PROVE h \in sequenced \/ h \in R \/ h \in proposed_headers'
  <2>1. CASE h.round \in m.rounds
    <3>1. PICK g \in sequenced : g.round = h.round
      BY <1>3, <2>1
    <3>2. g \in sent
      BY <3>1 DEF ShapeInv, HeaderInv
    <3>3. g = h
      BY <3>1, <3>2 DEF UniqueInv
    <3> QED BY <3>1, <3>3
  <2>2. CASE h.round \notin m.rounds
    <3>1. h \in pending
      BY <2>2
    <3> QED BY <1>2, <3>1
  <2> QED BY <2>1, <2>2
<1> HIDE DEF pending
<1>5. ASSUME NEW x \in Safe(digests, proposed_headers, sequenced)
      PROVE  x \in Safe(digests', proposed_headers', sequenced)
  <2>1. CASE x \in Range(digests)
    BY <1>2, <2>1 DEF Safe
  <2>2. CASE \E h \in proposed_headers \cup sequenced : x \in PayloadOf(h)
    <3>1. PICK h \in proposed_headers \cup sequenced : x \in PayloadOf(h)
      BY <2>2
    <3>2. CASE h \in R
      BY <1>2, <3>1, <3>2 DEF Safe
    <3>3. CASE h \in sequenced \/ h \in proposed_headers'
      BY <3>1, <3>3 DEF Safe
    <3> QED BY <1>4, <3>1, <3>2, <3>3
  <2> QED BY <1>5, <2>1, <2>2 DEF Safe
<1>6. reported \subseteq Safe(digests, proposed_headers, sequenced)
  BY DEF NoDigestLost, Safe
<1>7. reported' \subseteq Safe(digests', proposed_headers', sequenced')
  BY <1>1, <1>5, <1>6
<1> QED BY <1>7 DEF NoDigestLost, Safe

\* Every step keeps it; a crash takes the acknowledged digests with it, which
\* nobody promised to keep.
LEMMA StepLosesNothing ==
  ASSUME ShapeInv, UniqueInv, CommitInv, NoDigestLost, [Next]_vars
  PROVE  NoDigestLost'
<1> USE Zenon
<1>1. CASE propose
  BY <1>1, ProposeLosesNothing
<1>2. CASE committed_headers
  BY <1>2, CommittedLosesNothing
<1>3. CASE \E d \in Digests : our_digest(d)
  <2>1. PICK d \in Digests : our_digest(d)
    BY <1>3
  <2>2. /\ digests' = Append(digests, d) /\ reported' = reported \cup {d}
        /\ proposed_headers' = proposed_headers /\ sequenced' = sequenced
    BY <2>1 DEF our_digest, consensus
  <2>3. digests \in Seq(Digests)
    BY DEF ShapeInv, HeaderInv
  <2>4. Range(digests') = Range(digests) \cup {d}
    <3>1. /\ DOMAIN digests' = 1..(Len(digests) + 1) /\ DOMAIN digests = 1..Len(digests) /\ Len(digests) \in Nat
          /\ digests'[Len(digests) + 1] = d /\ \A i \in 1..Len(digests) : digests'[i] = digests[i]
      BY <2>2, <2>3, SMT
    <3>2. \A i \in 1..(Len(digests) + 1) : i \in 1..Len(digests) \/ i = Len(digests) + 1
      BY <3>1, SMT
    <3>3. Len(digests) + 1 \in 1..(Len(digests) + 1) /\ \A i \in 1..Len(digests) : i \in 1..(Len(digests) + 1)
      BY <3>1, SMT
    <3>4. Range(digests') \subseteq Range(digests) \cup {d}
      BY <3>1, <3>2 DEF Range
    <3>5. Range(digests) \cup {d} \subseteq Range(digests')
      BY <3>1, <3>3 DEF Range
    <3> QED BY <3>4, <3>5
  <2> QED BY <2>2, <2>4 DEF NoDigestLost
<1>4. CASE \E r \in 1..(MaxRound - 1), own \in SUBSET (certified \ sequenced) : commit(r, own)
  <2>1. /\ reported' = reported /\ digests' = digests /\ proposed_headers' = proposed_headers
        /\ sequenced \subseteq sequenced'
    BY <1>4 DEF commit, proposer
  <2> QED BY <2>1 DEF NoDigestLost
<1>5. CASE Restart
  <2>1. reported' = {}
    BY <1>5 DEF Restart
  <2> QED BY <2>1 DEF NoDigestLost
<1>6. CASE \/ \E c \in Certificates : accept_certificate(c)
           \/ recover_parents
           \/ \E f \in Feeders : send_parents(f)
           \/ send_header \/ max_delay_elapses \/ min_delay_elapses \/ receive_parents
           \/ UNCHANGED vars
  <2>1. /\ reported' = reported /\ digests' = digests /\ proposed_headers' = proposed_headers
        /\ sequenced' = sequenced
    BY <1>6 DEF accept_certificate, recover_parents, send_parents, send_header,
       max_delay_elapses, min_delay_elapses, receive_parents, vars, consensus, proposer
  <2> QED BY <2>1 DEF NoDigestLost
<1> QED BY <1>1, <1>2, <1>3, <1>4, <1>5, <1>6 DEF Next, Loop

\* The invariant of a primary that is left alone until it has recovered.
THEOREM QuietProposer ==
  ASSUME QuietStart
  PROVE  Spec => []QuietProposerInv
<1> USE Zenon
<1>1. Init => QuietProposerInv
  <2>1. ASSUME Init PROVE CommitInv /\ NoDigestLost
    <3>1. committed_own_headers = <<>> /\ reported = {}
      BY <2>1 DEF Init
    <3> QED BY <3>1 DEF CommitInv, NoDigestLost
  <2> QED BY <2>1, InitShape, InitQuiet, StartsQuorate, InitStore, InitRecovery, InitUnique
     DEF QuietProposerInv
<1>2. QuietProposerInv /\ [Next]_vars => QuietProposerInv'
  <2> SUFFICES ASSUME QuietProposerInv, [Next]_vars PROVE QuietProposerInv'
    BY SMT
  <2>1. /\ ShapeInv /\ QuietInv /\ QuorumInv /\ StoreInv /\ RecoveryInv /\ UniqueInv
        /\ CommitInv /\ NoDigestLost
    BY DEF QuietProposerInv
  <2>2. ShapeInv' /\ QuietInv' /\ QuorumInv'
    BY <2>1, StepKeepsShape, StepKeepsQuiet, StepKeepsQuorum
  <2>3. StoreInv' /\ RecoveryInv' /\ UniqueInv'
    BY <2>1, StepKeepsStore, StepKeepsRecovery, StepKeepsUnique
  <2>4. CommitInv' /\ NoDigestLost'
    BY <2>1, StepKeepsCommit, StepLosesNothing
  <2> QED BY <2>2, <2>3, <2>4 DEF QuietProposerInv
<1> QED BY <1>1, <1>2, PTL DEF Spec

\* A primary that is left alone until it has recovered never gives the core two
\* headers of one round, whenever it crashes: a header it proposes again is the
\* one in its ProposerStore.
THEOREM NeverEquivocates ==
  ASSUME QuietStart
  PROVE  Spec => []NoEquivocation
<1>1. QuietProposerInv => NoEquivocation
  BY Zenon DEF QuietProposerInv, UniqueInv, NoEquivocation
<1> QED BY <1>1, QuietProposer, PTL

\* It proposes on quorums, although a message can hold one certificate only.
THEOREM ProposesOnQuorums ==
  ASSUME QuietStart
  PROVE  Spec => []ParentsAreQuorum
<1>1. QuietProposerInv => ParentsAreQuorum
  BY Zenon DEF QuietProposerInv, StoreInv, Grounded, ParentsAreQuorum
<1> QED BY <1>1, QuietProposer, PTL

\* It loses no digest that it acknowledged to a worker, until it crashes.
THEOREM DigestsAreKept ==
  ASSUME QuietStart
  PROVE  Spec => []NoDigestLost
<1>1. QuietProposerInv => NoDigestLost
  BY Zenon DEF QuietProposerInv
<1> QED BY <1>1, QuietProposer, PTL
=============================================================================
