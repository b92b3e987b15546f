---------------------------- MODULE CliqueProofs ----------------------------
(***************************************************************************)
(* Proofs about the snapshots of Clique: that the cached tally counts the  *)
(* pending votes, that the signers change by a majority, that the three    *)
(* checks of the recent signers agree and stop no chain, and that a node   *)
(* which trusts a checkpoint follows the others, for every committee,      *)
(* epoch and chain.                                                        *)
(***************************************************************************)
EXTENDS Clique, FiniteSetTheorems, TLAPS

\* A snapshot by its fields.
Snapshot(n, S, R, V, T) == [number |-> n, signers |-> S, recents |-> R, votes |-> V, tally |-> T]

Votes == [signer : Accounts, address : Accounts, authorize : BOOLEAN]
Tally == [authorize : BOOLEAN, votes : Nat \ {0}]

On(V, a) == {v \in V : v.address = a}
By(V, a) == {v \in V : v.signer = a}

\* The tally T counts the votes V, and nobody voted twice on an account.
Tallied(V, T) ==
  /\ V \subseteq Votes
  /\ T \in [{v.address : v \in V} -> Tally]
  /\ \A v \in V : T[v.address].authorize = v.authorize
  /\ \A a \in DOMAIN T : T[a].votes = Cardinality(On(V, a))
  /\ \A v, w \in V : (v.signer = w.signer /\ v.address = w.address) => v = w

\* The votes V are by the signers S, and each would change something.
Meaningful(S, V) == \A v \in V : v.signer \in S /\ (v.address \in S) # v.authorize

\* The recent signers R are those of the last blocks up to n, fewer than the
\* limit of the signers S.
Window(n, S, R) ==
  /\ R \in [DOMAIN R -> Accounts] /\ DOMAIN R \subseteq 1..n
  /\ \A i \in DOMAIN R : i + Cardinality(S) \div 2 + 1 > n

\* What is true of the snapshot of any block on any node.
SnapshotInv(s) ==
  /\ s = Snapshot(s.number, s.signers, s.recents, s.votes, s.tally)
  /\ s.number \in Nat /\ s.signers \subseteq Accounts
  /\ Window(s.number, s.signers, s.recents)
  /\ Tallied(s.votes, s.tally)
  /\ Meaningful(s.signers, s.votes)

\* The head, and the two snapshots beside it.
HeadInv ==
  /\ head \in [number : 0..MaxNumber, extra : SUBSET Accounts]
  /\ snap.number <= head.number /\ light.number <= head.number
  /\ panicked \in BOOLEAN

\* A checkpoint block carries the signers, and its snapshot no votes.
CheckpointInv ==
  (HasSnapshot /\ head.number % Epoch = 0) =>
    head.extra = snap.signers /\ snap.votes = {} /\ snap.tally = <<>>

CliqueInv ==
  /\ HeadInv /\ SnapshotInv(snap) /\ SnapshotInv(light)
  /\ CheckpointInv /\ CheckpointFollows /\ VerifiedIsApplied

-----------------------------------------------------------------------------
(* Counting votes.                                                         *)

\* The signers are finitely many; their limit is a number.
LEMMA SignersFinite ==
  ASSUME NEW S \in SUBSET Accounts
  PROVE  /\ IsFiniteSet(S) /\ Cardinality(S) \in Nat
         /\ Cardinality(S) \div 2 \in Nat
         /\ 2 * (Cardinality(S) \div 2) <= Cardinality(S)
         /\ Cardinality(S) <= 2 * (Cardinality(S) \div 2) + 1
<1>1. IsFiniteSet(S)
  BY CliqueAssumption, FS_Subset, Zenon
<1>2. Cardinality(S) \in Nat
  BY <1>1, FS_CardinalityType
<1> QED BY <1>1, <1>2

\* At most one vote an account and signer: the votes on an account are as many
\* as their signers, and finitely many.
LEMMA VotesHaveSigners ==
  ASSUME NEW V \in SUBSET Votes, NEW a,
         \A v, w \in V : (v.signer = w.signer /\ v.address = w.address) => v = w
  PROVE  /\ IsFiniteSet(On(V, a)) /\ Cardinality(On(V, a)) \in Nat
         /\ Cardinality(On(V, a)) = Cardinality({v.signer : v \in On(V, a)})
         /\ Cardinality(On(V, a)) <= Cardinality(Accounts)
<1> DEFINE W == {v.signer : v \in On(V, a)}
           f == [v \in On(V, a) |-> v.signer]
<1>1. W \in SUBSET Accounts
  BY DEF On, Votes
<1>2. IsFiniteSet(W) /\ Cardinality(W) <= Cardinality(Accounts)
  BY <1>1, CliqueAssumption, FS_Subset
<1>3. f \in [On(V, a) -> W]
  OBVIOUS
<1>4. \A v, w \in On(V, a) : f[v] = f[w] => v = w
  BY DEF On
<1>5. f \in Injection(On(V, a), W)
  BY <1>3, <1>4 DEF Injection, IsInjective
<1>6. f \in Surjection(On(V, a), W)
  BY <1>3 DEF Surjection
<1>7. IsFiniteSet(On(V, a)) /\ Cardinality(On(V, a)) = Cardinality(W)
  BY <1>2, <1>5, <1>6, FS_Injection
<1>8. Cardinality(On(V, a)) \in Nat
  BY <1>7, FS_CardinalityType
<1> QED BY <1>2, <1>7, <1>8

\* uncast, on the tally of one account: it goes down by the votes that go.
LEMMA RemainingVotes ==
  ASSUME NEW V, NEW T, Tallied(V, T), NEW G \in SUBSET V, NEW a \in DOMAIN T
  PROVE  /\ Remaining(T, a, G) = Cardinality(On(V \ G, a))
         /\ Remaining(T, a, G) \in Nat
         /\ Remaining(T, a, G) > 0 <=> a \in {v.address : v \in V \ G}
<1>1. T[a].votes = Cardinality(On(V, a))
  BY Zenon DEF Tallied
<1>2. IsFiniteSet(On(V, a)) /\ Cardinality(On(V, a)) \in Nat
  <2>1. /\ V \in SUBSET Votes
        /\ \A v, w \in V : (v.signer = w.signer /\ v.address = w.address) => v = w
    BY Zenon DEF Tallied
  <2> QED BY <2>1, VotesHaveSigners, Zenon
<1>3. {v \in G : v.address = a /\ v.authorize = T[a].authorize} = On(V, a) \cap G
  <2>1. \A v \in V : T[v.address].authorize = v.authorize
    BY Zenon DEF Tallied
  <2> QED BY <2>1, Zenon DEF On
<1>4. On(V \ G, a) = On(V, a) \ G
  BY DEF On
<1>5. /\ IsFiniteSet(On(V, a) \ G)
      /\ Cardinality(On(V, a) \ G) = Cardinality(On(V, a)) - Cardinality(On(V, a) \cap G)
  BY <1>2, FS_Difference, Zenon
<1>6. Cardinality(On(V, a) \ G) \in Nat
  BY <1>5, FS_CardinalityType
<1>7. Remaining(T, a, G) = Cardinality(On(V, a) \ G)
  BY <1>1, <1>3, <1>5 DEF Remaining
<1>8. Cardinality(On(V, a) \ G) > 0 <=> On(V, a) \ G # {}
  BY <1>5, <1>6, FS_EmptySet
<1>9. On(V, a) \ G # {} <=> a \in {v.address : v \in V \ G}
  BY DEF On
<1> QED BY <1>4, <1>6, <1>7, <1>8, <1>9

\* Discarding votes keeps the tally right.
LEMMA UncastTallied ==
  ASSUME NEW V, NEW T, Tallied(V, T), NEW G \in SUBSET V
  PROVE  Tallied(V \ G, uncast(T, G))
<1> DEFINE A == {v.address : v \in V \ G}
           U == uncast(T, G)
<1>0. DOMAIN T = {v.address : v \in V} /\ \A a \in DOMAIN T : T[a] \in Tally
  <2>1. T \in [{v.address : v \in V} -> Tally]
    BY Zenon DEF Tallied
  <2> QED BY <2>1
<1>1. A = {b \in DOMAIN T : Remaining(T, b, G) > 0}
  <2>1. A \subseteq DOMAIN T
    BY <1>0, Zenon
  <2>2. \A b \in DOMAIN T : Remaining(T, b, G) > 0 <=> b \in A
    BY RemainingVotes, Zenon
  <2> HIDE DEF A
  <2> QED BY <2>1, <2>2, Zenon
<1>2. U = [a \in A |-> [T[a] EXCEPT !.votes = Remaining(T, a, G)]]
  BY <1>1 DEF uncast
<1>3. ASSUME NEW a \in A
      PROVE  /\ U[a] \in Tally /\ U[a].authorize = T[a].authorize
             /\ U[a].votes = Cardinality(On(V \ G, a))
  <2>1. a \in DOMAIN T /\ T[a] \in Tally
    BY <1>0, <1>1, Zenon
  <2>2. Remaining(T, a, G) \in Nat \ {0} /\ Remaining(T, a, G) = Cardinality(On(V \ G, a))
    BY <2>1, RemainingVotes
  <2>3. U[a] = [T[a] EXCEPT !.votes = Remaining(T, a, G)]
    BY <1>2
  <2> HIDE DEF A, U
  <2> QED BY <2>1, <2>2, <2>3 DEF Tally
<1>4. U \in [A -> Tally]
  BY <1>2, <1>3, Zenon
<1>5. \A v \in V \ G : U[v.address].authorize = v.authorize
  <2>1. \A v \in V \ G : v.address \in A
    OBVIOUS
  <2>2. \A v \in V : T[v.address].authorize = v.authorize
    BY Zenon DEF Tallied
  <2> HIDE DEF A, U
  <2> QED BY <1>3, <2>1, <2>2, Zenon
<1>6. V \ G \subseteq Votes /\ \A v, w \in V \ G :
                                 (v.signer = w.signer /\ v.address = w.address) => v = w
  BY Zenon DEF Tallied
<1>7. DOMAIN U = A
  BY <1>4
<1>8. \A a \in DOMAIN U : U[a].votes = Cardinality(On(V \ G, a))
  BY <1>3, <1>7, Zenon
<1> QED BY <1>4, <1>5, <1>6, <1>8, Zenon DEF Tallied

\* Casting a vote that means something keeps the tally right.
LEMMA CastTallied ==
  ASSUME NEW V, NEW T, Tallied(V, T), NEW S, Meaningful(S, V),
         NEW g \in Accounts, NEW a \in Accounts, NEW b \in BOOLEAN, (a \in S) # b,
         \A v \in V : ~ (v.signer = g /\ v.address = a)
  PROVE  Tallied(V \cup {[signer |-> g, address |-> a, authorize |-> b]}, count(T, a, b))
<1> DEFINE new == [signer |-> g, address |-> a, authorize |-> b]
           W == V \cup {new}
           U == count(T, a, b)
           A == {v.address : v \in V}
<1>1. T \in [A -> Tally] /\ DOMAIN T = A /\ \A c \in A : T[c] \in Tally
  <2>1. T \in [A -> Tally]
    BY Zenon DEF Tallied
  <2> HIDE DEF A
  <2> QED BY <2>1
<1>2. \A v \in V : T[v.address].authorize = v.authorize /\ v.address \in A
  BY Zenon DEF Tallied
<1>3. /\ V \in SUBSET Votes
      /\ \A v, w \in V : (v.signer = w.signer /\ v.address = w.address) => v = w
  BY Zenon DEF Tallied
<1>4. /\ new \in Votes /\ new.signer = g /\ new.address = a /\ new.authorize = b /\ new \notin V
  BY DEF Votes
<1> HIDE DEF new
<1>5. {v.address : v \in W} = A \cup {a}
  BY <1>4, Zenon
<1>6. \A c \in A : T[c].votes = Cardinality(On(V, c)) /\ T[c].votes \in Nat \ {0}
  <2>1. \A c \in A : T[c].votes = Cardinality(On(V, c))
    BY <1>1, Zenon DEF Tallied
  <2> HIDE DEF A
  <2> QED BY <1>1, <2>1 DEF Tally
<1>7. /\ On(W, a) = On(V, a) \cup {new} /\ new \notin On(V, a)
      /\ \A c : c # a => On(W, c) = On(V, c)
  BY <1>4, Zenon DEF On
<1>8. Cardinality(On(W, a)) = Cardinality(On(V, a)) + 1 /\ Cardinality(On(V, a)) \in Nat
  <2>1. IsFiniteSet(On(V, a)) /\ Cardinality(On(V, a)) \in Nat
    BY <1>3, VotesHaveSigners, Zenon
  <2> QED BY <1>7, <2>1, FS_AddElement, Zenon
<1>9. /\ DOMAIN U = A \cup {a} /\ U = [c \in A \cup {a} |-> U[c]]
      /\ \A c \in A : c # a => U[c] = T[c]
      /\ U[a] = [authorize |-> b, votes |-> Cardinality(On(W, a))]
  <2>1. CASE a \in A
    <3>1. T[a].authorize = b
      <4>1. PICK v \in V : v.address = a
        BY <2>1
      <4>2. v.authorize \in BOOLEAN
        BY <1>3 DEF Votes
      <4>3. (v.address \in S) # v.authorize
        BY Zenon DEF Meaningful
      <4>4. v.authorize = b
        BY <4>1, <4>2, <4>3
      <4> QED BY <1>2, <4>1, <4>4, Zenon
    <3>2. U = [T EXCEPT ![a].votes = @ + 1]
      BY <1>1, <2>1, Zenon DEF count
    <3> HIDE DEF U, A
    <3>3. T[a] \in Tally /\ T[a].votes = Cardinality(On(V, a))
      BY <1>1, <1>6, <2>1
    <3>4. U[a] = [T[a] EXCEPT !.votes = @ + 1]
      BY <1>1, <2>1, <3>2
    <3>5. U[a] = [authorize |-> b, votes |-> T[a].votes + 1]
      BY <3>1, <3>3, <3>4 DEF Tally
    <3>6. U[a] = [authorize |-> b, votes |-> Cardinality(On(W, a))]
      BY <1>8, <3>3, <3>5
    <3>7. A \cup {a} = A
      BY <2>1
    <3> QED BY <1>1, <2>1, <3>2, <3>6, <3>7, Zenon
  <2>2. CASE a \notin A
    <3>1. U = Put(T, a, [authorize |-> b, votes |-> 1])
      BY <1>1, <2>2, Zenon DEF count
    <3>2. On(V, a) = {}
      BY <2>2, Zenon DEF On
    <3>3. Cardinality(On(V, a)) + 1 = 1
      BY <3>2, FS_EmptySet
    <3>4. U = [k \in A \cup {a} |-> IF k = a THEN [authorize |-> b, votes |-> 1] ELSE T[k]]
      BY <1>1, <3>1, Zenon DEF Put
    <3> HIDE DEF U, A
    <3> QED BY <1>8, <3>3, <3>4
  <2> QED BY <2>1, <2>2
<1> HIDE DEF U, A
<1>10. \A c \in A \cup {a} : U[c] \in Tally /\ U[c].votes = Cardinality(On(W, c))
  <2>1. U[a] \in Tally /\ U[a].votes = Cardinality(On(W, a))
    BY <1>8, <1>9 DEF Tally
  <2>2. \A c \in A : c # a => U[c] \in Tally /\ U[c].votes = Cardinality(On(W, c))
    BY <1>1, <1>6, <1>7, <1>9, Zenon
  <2> QED BY <2>1, <2>2, Zenon
<1>11. U \in [A \cup {a} -> Tally]
  BY <1>9, <1>10, Zenon
<1>12. \A v \in W : U[v.address].authorize = v.authorize
  <2>1. U[a].authorize = b
    BY <1>9
  <2>2. \A v \in V : v.address # a => U[v.address].authorize = v.authorize
    BY <1>2, <1>9, Zenon
  <2>3. \A v \in V : v.address = a => v.authorize = b
    <3>1. \A v \in V : (v.address \in S) # v.authorize /\ v.authorize \in BOOLEAN
      BY <1>3 DEF Meaningful, Votes
    <3> QED BY <3>1
  <2> QED BY <1>4, <2>1, <2>2, <2>3, Zenon
<1>13. W \subseteq Votes /\ \A v, w \in W : (v.signer = w.signer /\ v.address = w.address) => v = w
  BY <1>3, <1>4, Zenon
<1>14. Tallied(W, U)
  BY <1>5, <1>9, <1>10, <1>11, <1>12, <1>13, Zenon DEF Tallied
<1> QED BY <1>14, Zenon DEF U, new

\* Voiding all the votes on an account keeps the tally of the others right.
LEMMA ForgetTallied ==
  ASSUME NEW V, NEW T, Tallied(V, T), NEW a
  PROVE  Tallied(V \ On(V, a), Restrict(T, DOMAIN T \ {a}))
<1> DEFINE W == V \ On(V, a)
           U == Restrict(T, DOMAIN T \ {a})
           A == {v.address : v \in W}
<1>1. T \in [{v.address : v \in V} -> Tally] /\ DOMAIN T = {v.address : v \in V}
  <2>1. T \in [{v.address : v \in V} -> Tally]
    BY Zenon DEF Tallied
  <2> QED BY <2>1
<1>2. A = DOMAIN T \ {a}
  BY <1>1, Zenon DEF On
<1>3. U = [c \in A |-> T[c]]
  BY <1>2, Zenon DEF Restrict
<1>4. \A c \in A : On(W, c) = On(V, c)
  BY Zenon DEF On
<1>5. \A c \in A : T[c] \in Tally /\ T[c].votes = Cardinality(On(V, c))
  BY <1>1, <1>2 DEF Tallied
<1>6. \A v \in W : T[v.address].authorize = v.authorize /\ v.address \in A
  BY Zenon DEF Tallied
<1>7. W \subseteq Votes /\ \A v, w \in W : (v.signer = w.signer /\ v.address = w.address) => v = w
  BY Zenon DEF Tallied
<1>8. U \in [A -> Tally] /\ DOMAIN U = A /\ \A c \in A : U[c] = T[c]
  <2> HIDE DEF A, U
  <2> QED BY <1>3, <1>5
<1>9. /\ \A v \in W : U[v.address].authorize = v.authorize
      /\ \A c \in DOMAIN U : U[c].votes = Cardinality(On(W, c))
  <2> HIDE DEF A, U, W
  <2> QED BY <1>4, <1>5, <1>6, <1>8, Zenon
<1> QED BY <1>7, <1>8, <1>9, Zenon DEF Tallied

-----------------------------------------------------------------------------
(* apply, by the fields of the snapshot: from the signers S, the recent     *)
(* signers R, the votes V and the tally T, for the header h.                *)

Shifted(S, R, m) ==
  IF m >= Cardinality(S) \div 2 + 1
  THEN Restrict(R, DOMAIN R \ {m - (Cardinality(S) \div 2 + 1)})
  ELSE R

Signed(h, S, R) == Put(Shifted(S, R, h.number), h.number, h.signer)

OpenVotes(h, V) == IF h.number % Epoch = 0 THEN {} ELSE V
OpenTally(h, T) == IF h.number % Epoch = 0 THEN <<>> ELSE T

Earlier(h, V) == {v \in By(OpenVotes(h, V), h.signer) : v.address = h.coinbase}

KeptVotes(h, V) == OpenVotes(h, V) \ Earlier(h, V)
KeptTally(h, V, T) == uncast(OpenTally(h, T), Earlier(h, V))

Changes(S, a, b) == (a \in S) # b

Valid(h, S) == Changes(S, h.coinbase, h.authorize)

NewVote(h) == [signer |-> h.signer, address |-> h.coinbase, authorize |-> h.authorize]

PollVotes(h, S, V) == IF Valid(h, S) THEN KeptVotes(h, V) \cup {NewVote(h)} ELSE KeptVotes(h, V)
PollTally(h, S, V, T) ==
  IF Valid(h, S) THEN count(KeptTally(h, V, T), h.coinbase, h.authorize) ELSE KeptTally(h, V, T)

Passed(h, S, V, T) ==
  /\ h.coinbase \in DOMAIN PollTally(h, S, V, T)
  /\ PollTally(h, S, V, T)[h.coinbase].votes > Cardinality(S) \div 2

Grants(h, S, V, T) == PollTally(h, S, V, T)[h.coinbase].authorize

\* The votes that go with an account that is dropped.
LeftVotes(h, P, grants) == IF grants THEN P ELSE P \ By(P, h.coinbase)
LeftTally(h, P, Q, grants) == IF grants THEN Q ELSE uncast(Q, By(P, h.coinbase))

NextSigners(h, S, V, T) ==
  IF ~ Passed(h, S, V, T) THEN S
  ELSE IF Grants(h, S, V, T) THEN S \cup {h.coinbase} ELSE S \ {h.coinbase}

NextRecents(h, S, R, V, T) ==
  IF ~ Passed(h, S, V, T) \/ Grants(h, S, V, T) THEN Signed(h, S, R)
  ELSE Shifted(S \ {h.coinbase}, Signed(h, S, R), h.number)

Left(h, S, V, T) == LeftVotes(h, PollVotes(h, S, V), Grants(h, S, V, T))
LeftCount(h, S, V, T) ==
  LeftTally(h, PollVotes(h, S, V), PollTally(h, S, V, T), Grants(h, S, V, T))

NextVotes(h, S, V, T) ==
  IF ~ Passed(h, S, V, T) THEN PollVotes(h, S, V)
  ELSE Left(h, S, V, T) \ On(Left(h, S, V, T), h.coinbase)

NextTally(h, S, V, T) ==
  IF ~ Passed(h, S, V, T) THEN PollTally(h, S, V, T)
  ELSE Restrict(LeftCount(h, S, V, T), DOMAIN LeftCount(h, S, V, T) \ {h.coinbase})

\* The steps of apply, on a snapshot given by its fields: the window shifts,
LEMMA ShiftFields ==
  ASSUME NEW n, NEW S, NEW R, NEW V, NEW T, NEW m
  PROVE  shift(Snapshot(n, S, R, V, T), m) = Snapshot(n, S, Shifted(S, R, m), V, T)
  BY DEF shift, limit, Shifted, Snapshot

\* the new block enters it,
LEMMA SignFields ==
  ASSUME NEW n, NEW S, NEW R, NEW V, NEW T, NEW m, NEW g
  PROVE  sign(Snapshot(n, S, R, V, T), m, g) = Snapshot(m, S, Put(R, m, g), V, T)
<1>1. [Snapshot(n, S, R, V, T) EXCEPT !.recents = Put(@, m, g)] = Snapshot(n, S, Put(R, m, g), V, T)
  BY DEF Snapshot
<1>2. [Snapshot(n, S, Put(R, m, g), V, T) EXCEPT !.number = m] = Snapshot(m, S, Put(R, m, g), V, T)
  BY DEF Snapshot
<1>3. sign(Snapshot(n, S, R, V, T), m, g)
        = [[Snapshot(n, S, R, V, T) EXCEPT !.recents = Put(@, m, g)] EXCEPT !.number = m]
  BY DEF sign
<1> QED BY <1>1, <1>2, <1>3, Zenon

\* some votes are looked up,
LEMMA VotesFields ==
  ASSUME NEW n, NEW S, NEW R, NEW V, NEW T, NEW a
  PROVE  /\ VotesBy(Snapshot(n, S, R, V, T), a) = By(V, a)
         /\ VotesOn(Snapshot(n, S, R, V, T), a) = On(V, a)
  BY DEF VotesBy, VotesOn, By, On, Snapshot

\* and discarded.
LEMMA DiscardFields ==
  ASSUME NEW n, NEW S, NEW R, NEW V, NEW T, NEW gone
  PROVE  discard(Snapshot(n, S, R, V, T), gone) = Snapshot(n, S, R, V \ gone, uncast(T, gone))
<1>1. [Snapshot(n, S, R, V, T) EXCEPT !.votes = @ \ gone] = Snapshot(n, S, R, V \ gone, T)
  BY DEF Snapshot
<1>2. [Snapshot(n, S, R, V \ gone, T) EXCEPT !.tally = uncast(@, gone)]
        = Snapshot(n, S, R, V \ gone, uncast(T, gone))
  BY DEF Snapshot
<1>3. discard(Snapshot(n, S, R, V, T), gone)
        = [[Snapshot(n, S, R, V, T) EXCEPT !.votes = @ \ gone] EXCEPT !.tally = uncast(@, gone)]
  BY DEF discard
<1> QED BY <1>1, <1>2, <1>3, Zenon

\* Voiding the votes at a checkpoint.
LEMMA ResetFields ==
  ASSUME NEW n, NEW S, NEW R, NEW V, NEW T, NEW h
  PROVE  reset(Snapshot(n, S, R, V, T), h.number)
           = Snapshot(n, S, R, OpenVotes(h, V), OpenTally(h, T))
<1>1. [Snapshot(n, S, R, V, T) EXCEPT !.votes = {}] = Snapshot(n, S, R, {}, T)
  BY DEF Snapshot
<1>2. \A D : [Snapshot(n, S, R, {}, T) EXCEPT !.tally = D] = Snapshot(n, S, R, {}, D)
  BY DEF Snapshot
<1>3. [Snapshot(n, S, R, V, T) EXCEPT !.votes = {}, !.tally = <<>>]
        = [[Snapshot(n, S, R, V, T) EXCEPT !.votes = {}] EXCEPT !.tally = <<>>]
  OBVIOUS
<1>4. [Snapshot(n, S, R, V, T) EXCEPT !.votes = {}, !.tally = <<>>] = Snapshot(n, S, R, {}, <<>>)
  BY <1>1, <1>2, <1>3, Zenon
<1> QED BY <1>4, Zenon DEF reset, OpenVotes, OpenTally

\* A vote that would change nothing is not cast,
LEMMA CastNothing ==
  ASSUME NEW n, NEW S, NEW R, NEW V, NEW T, NEW g, NEW a, NEW b, ~ Changes(S, a, b)
  PROVE  cast(Snapshot(n, S, R, V, T), g, a, b) = Snapshot(n, S, R, V, T)
<1>1. Snapshot(n, S, R, V, T).signers = S
  BY DEF Snapshot
<1> QED BY <1>1, Zenon DEF cast, validVote, Changes

\* any other enters the list and the tally.
LEMMA CastFields ==
  ASSUME NEW n, NEW S, NEW R, NEW V, NEW T, NEW g, NEW a, NEW b, Changes(S, a, b),
         NEW new, new = [signer |-> g, address |-> a, authorize |-> b]
  PROVE  cast(Snapshot(n, S, R, V, T), g, a, b)
           = Snapshot(n, S, R, V \cup {new}, count(T, a, b))
<1> DEFINE s == Snapshot(n, S, R, V, T)
<1>1. s.signers = S
  BY DEF Snapshot
<1>2. [s EXCEPT !.votes = @ \cup {new}] = Snapshot(n, S, R, V \cup {new}, T)
  BY DEF Snapshot
<1>3. [Snapshot(n, S, R, V \cup {new}, T) EXCEPT !.tally = count(@, a, b)]
        = Snapshot(n, S, R, V \cup {new}, count(T, a, b))
  BY DEF Snapshot
<1>4. validVote(s, a, b)
  BY <1>1, Zenon DEF validVote, Changes
<1>5. cast(s, g, a, b) = [[s EXCEPT !.votes = @ \cup {new}] EXCEPT !.tally = count(@, a, b)]
  BY <1>4 DEF cast
<1> QED BY <1>2, <1>3, <1>5, Zenon

\* An account changes and the votes on it are gone.
LEMMA ForgetFields ==
  ASSUME NEW m, NEW D, NEW X, NEW Y, NEW Z, NEW c
  PROVE  forget(Snapshot(m, D, X, Y, Z), c)
           = Snapshot(m, D, X, Y \ On(Y, c), Restrict(Z, DOMAIN Z \ {c}))
<1> DEFINE t == Snapshot(m, D, X, Y, Z)
<1>1. VotesOn(t, c) = On(Y, c) /\ t.votes = Y
  BY DEF VotesOn, On, Snapshot
<1>2. [t EXCEPT !.votes = @ \ VotesOn(t, c)] = [t EXCEPT !.votes = Y \ On(Y, c)]
  BY <1>1
<1>3. forget(t, c)
       = [[t EXCEPT !.votes = @ \ VotesOn(t, c)] EXCEPT !.tally = Restrict(@, DOMAIN @ \ {c})]
  BY DEF forget
<1>4. [t EXCEPT !.votes = Y \ On(Y, c)] = Snapshot(m, D, X, Y \ On(Y, c), Z)
  BY DEF Snapshot
<1>5. [Snapshot(m, D, X, Y \ On(Y, c), Z) EXCEPT !.tally = Restrict(@, DOMAIN @ \ {c})]
        = Snapshot(m, D, X, Y \ On(Y, c), Restrict(Z, DOMAIN Z \ {c}))
  BY DEF Snapshot
<1> HIDE DEF t
<1> QED BY <1>2, <1>3, <1>4, <1>5, Zenon DEF t

\* No vote passed.
LEMMA EnactNothing ==
  ASSUME NEW m, NEW S, NEW R, NEW P, NEW Q, NEW c,
         ~ (c \in DOMAIN Q /\ Q[c].votes > Cardinality(S) \div 2)
  PROVE  enact(Snapshot(m, S, R, P, Q), c, m) = Snapshot(m, S, R, P, Q)
<1> DEFINE s == Snapshot(m, S, R, P, Q)
<1>1. s.signers = S /\ s.tally = Q
  BY DEF Snapshot
<1>2. ~ passes(s, c)
  BY <1>1, Zenon DEF passes
<1> QED BY <1>2, Zenon DEF enact

\* A vote passed that adds an account.
LEMMA EnactGrant ==
  ASSUME NEW m, NEW S, NEW R, NEW P, NEW Q, NEW c,
         c \in DOMAIN Q /\ Q[c].votes > Cardinality(S) \div 2, Q[c].authorize
  PROVE  enact(Snapshot(m, S, R, P, Q), c, m)
           = Snapshot(m, S \cup {c}, R, P \ On(P, c), Restrict(Q, DOMAIN Q \ {c}))
<1> DEFINE s == Snapshot(m, S, R, P, Q)
           t == Snapshot(m, S \cup {c}, R, P, Q)
<1>1. s.signers = S /\ s.tally = Q
  BY DEF Snapshot
<1>2. passes(s, c) /\ s.tally[c].authorize
  BY <1>1, Zenon DEF passes
<1>3. [s EXCEPT !.signers = @ \cup {c}] = t
  BY DEF Snapshot
<1>4. forget(t, c)
        = Snapshot(m, S \cup {c}, R, P \ On(P, c), Restrict(Q, DOMAIN Q \ {c}))
  BY ForgetFields
<1> HIDE DEF s, t
<1>5. enact(s, c, m) = forget(t, c)
  BY <1>2, <1>3, Zenon DEF enact
<1> QED BY <1>4, <1>5, Zenon DEF s

\* A vote passed that drops an account.
LEMMA EnactDrop ==
  ASSUME NEW m, NEW S, NEW R, NEW P, NEW Q, NEW c,
         c \in DOMAIN Q /\ Q[c].votes > Cardinality(S) \div 2, ~ Q[c].authorize,
         NEW L, L = P \ By(P, c), NEW U, U = uncast(Q, By(P, c))
  PROVE  enact(Snapshot(m, S, R, P, Q), c, m)
           = Snapshot(m, S \ {c}, Shifted(S \ {c}, R, m), L \ On(L, c), Restrict(U, DOMAIN U \ {c}))
<1> DEFINE s == Snapshot(m, S, R, P, Q)
           r == Snapshot(m, S \ {c}, Shifted(S \ {c}, R, m), P, Q)
           t == Snapshot(m, S \ {c}, Shifted(S \ {c}, R, m), L, U)
<1>1. s.signers = S /\ s.tally = Q
  BY DEF Snapshot
<1>2. passes(s, c) /\ ~ s.tally[c].authorize
  BY <1>1, Zenon DEF passes
<1>3. [s EXCEPT !.signers = @ \ {c}] = Snapshot(m, S \ {c}, R, P, Q)
  BY DEF Snapshot
<1>4. shift(Snapshot(m, S \ {c}, R, P, Q), m) = r
  BY ShiftFields
<1>5. VotesBy(r, c) = By(P, c)
  BY VotesFields
<1>6. discard(r, By(P, c)) = t
  BY DiscardFields
<1>7. forget(t, c)
        = Snapshot(m, S \ {c}, Shifted(S \ {c}, R, m), L \ On(L, c), Restrict(U, DOMAIN U \ {c}))
  <2> DEFINE D == S \ {c}
             X == Shifted(S \ {c}, R, m)
  <2> HIDE DEF D, X
  <2>1. forget(Snapshot(m, D, X, L, U), c) = Snapshot(m, D, X, L \ On(L, c), Restrict(U, DOMAIN U \ {c}))
    BY ONLY ForgetFields
  <2> QED BY <2>1, Zenon DEF D, X
<1> HIDE DEF s, t, r
<1>8. deauthorize(s, c, m) = t
  BY <1>3, <1>4, <1>5, <1>6, Zenon DEF deauthorize
<1>9. enact(s, c, m) = forget(t, c)
  BY <1>2, <1>8, Zenon DEF enact
<1> QED BY <1>7, <1>9, Zenon DEF s


\* The snapshot after one more header, by its fields.
LEMMA ApplyFields ==
  ASSUME NEW n, NEW S, NEW R, NEW V, NEW T, NEW h
  PROVE  apply(Snapshot(n, S, R, V, T), h)
           = Snapshot(h.number, NextSigners(h, S, V, T), NextRecents(h, S, R, V, T),
                      NextVotes(h, S, V, T), NextTally(h, S, V, T))
<1> DEFINE s == Snapshot(n, S, R, V, T)
           c == h.coinbase
           m == h.number
           P == PollVotes(h, S, V)
           Q == PollTally(h, S, V, T)
           opened == Snapshot(n, S, R, OpenVotes(h, V), OpenTally(h, T))
           shifted == Snapshot(n, S, Shifted(S, R, m), OpenVotes(h, V), OpenTally(h, T))
           signed == Snapshot(m, S, Signed(h, S, R), OpenVotes(h, V), OpenTally(h, T))
           kept == Snapshot(m, S, Signed(h, S, R), KeptVotes(h, V), KeptTally(h, V, T))
           voted == Snapshot(m, S, Signed(h, S, R), P, Q)
<1>1. reset(s, m) = opened /\ shift(opened, m) = shifted
  BY ResetFields, ShiftFields
<1>2. sign(shifted, m, h.signer) = signed
  BY SignFields DEF Signed
<1>3. {v \in VotesBy(signed, h.signer) : v.address = c} = Earlier(h, V)
  BY VotesFields DEF Earlier
<1>4. discard(signed, Earlier(h, V)) = kept
  BY DiscardFields DEF KeptVotes, KeptTally
<1>5. cast(kept, h.signer, c, h.authorize) = voted
  <2>1. CASE Valid(h, S)
    <3>1. cast(kept, h.signer, c, h.authorize)
            = Snapshot(m, S, Signed(h, S, R), KeptVotes(h, V) \cup {NewVote(h)},
                       count(KeptTally(h, V, T), c, h.authorize))
      <4>1. Changes(S, c, h.authorize)
        BY <2>1, Zenon DEF Valid
      <4> DEFINE new == NewVote(h)
      <4>2. new = [signer |-> h.signer, address |-> c, authorize |-> h.authorize]
        BY Zenon DEF NewVote
      <4> HIDE DEF new
      <4>3. cast(kept, h.signer, c, h.authorize)
              = Snapshot(m, S, Signed(h, S, R), KeptVotes(h, V) \cup {new},
                         count(KeptTally(h, V, T), c, h.authorize))
        BY <4>1, <4>2, CastFields
      <4> QED BY <4>3, Zenon DEF new
    <3> QED BY <2>1, <3>1, Zenon DEF PollVotes, PollTally
  <2>2. CASE ~ Valid(h, S)
    <3>1. cast(kept, h.signer, c, h.authorize) = kept
      <4>1. ~ Changes(S, c, h.authorize)
        BY <2>2, Zenon DEF Valid
      <4> QED BY <4>1, CastNothing
    <3> QED BY <2>2, <3>1, Zenon DEF PollVotes, PollTally
  <2> QED BY <2>1, <2>2
<1> HIDE DEF signed, kept, s, opened, shifted, voted
<1>6. apply(s, h) = enact(voted, c, m)
  BY <1>1, <1>2, <1>3, <1>4, <1>5, Zenon DEF apply
<1> HIDE DEF P, Q
<1>7. CASE ~ Passed(h, S, V, T)
  <2>1. enact(voted, c, m) = voted
    BY <1>7, EnactNothing DEF Passed, Q, voted
  <2> QED BY <1>6, <1>7, <2>1, Zenon DEF NextSigners, NextRecents, NextVotes, NextTally, P, Q, s, voted
<1>8. CASE Passed(h, S, V, T) /\ Grants(h, S, V, T)
  <2>1. enact(voted, c, m)
          = Snapshot(m, S \cup {c}, Signed(h, S, R), P \ On(P, c), Restrict(Q, DOMAIN Q \ {c}))
    BY <1>8, EnactGrant DEF Passed, Grants, Q, voted
  <2>2. Left(h, S, V, T) = P /\ LeftCount(h, S, V, T) = Q
    BY <1>8, Zenon DEF Left, LeftCount, LeftVotes, LeftTally, P, Q
  <2> QED BY <1>6, <1>8, <2>1, <2>2, Zenon DEF NextSigners, NextRecents, NextVotes, NextTally, s
<1>9. CASE Passed(h, S, V, T) /\ ~ Grants(h, S, V, T)
  <2> DEFINE L == P \ By(P, c)
             U == uncast(Q, By(P, c))
  <2>1. enact(voted, c, m)
          = Snapshot(m, S \ {c}, Shifted(S \ {c}, Signed(h, S, R), m),
                     L \ On(L, c), Restrict(U, DOMAIN U \ {c}))
    BY <1>9, EnactDrop DEF Passed, Grants, Q, voted
  <2>2. Left(h, S, V, T) = L /\ LeftCount(h, S, V, T) = U
    BY <1>9, Zenon DEF Left, LeftCount, LeftVotes, LeftTally, P, Q
  <2> HIDE DEF L, U
  <2> QED BY <1>6, <1>9, <2>1, <2>2, Zenon DEF NextSigners, NextRecents, NextVotes, NextTally, s
<1> QED BY <1>7, <1>8, <1>9, Zenon DEF s

-----------------------------------------------------------------------------
(* What apply keeps.                                                       *)

\* The headers of the model.
HeaderOK(h) ==
  /\ h.number \in Nat /\ h.signer \in Accounts
  /\ h.coinbase \in Accounts \cup {Zero} /\ h.authorize \in BOOLEAN
  /\ h.coinbase = Zero => ~ h.authorize

\* The limit of the signers S.
Lim(S) == Cardinality(S) \div 2 + 1

\* It is a positive number.
LEMMA LimType ==
  ASSUME NEW S \in SUBSET Accounts
  PROVE  Lim(S) \in Nat /\ Lim(S) >= 1 /\ Cardinality(S) \in Nat
  BY SignersFinite DEF Lim

\* Of entries that are at most the limit behind, the shift takes the one that
\* is just that far behind.
LEMMA ShiftedWindow ==
  ASSUME NEW S \in SUBSET Accounts, NEW m \in Nat, NEW R,
         R \in [DOMAIN R -> Accounts], DOMAIN R \subseteq Nat \ {0},
         \A i \in DOMAIN R : i + Lim(S) >= m
  PROVE  /\ DOMAIN Shifted(S, R, m) = {i \in DOMAIN R : i + Lim(S) > m}
         /\ \A i \in DOMAIN Shifted(S, R, m) : Shifted(S, R, m)[i] = R[i]
         /\ Shifted(S, R, m) \in [DOMAIN Shifted(S, R, m) -> Accounts]
<1> DEFINE k == Lim(S)
           D == {i \in DOMAIN R : i + k > m}
<1>1. k \in Nat
  BY LimType
<1>2. Shifted(S, R, m) = IF m >= k THEN Restrict(R, DOMAIN R \ {m - k}) ELSE R
  BY Zenon DEF Shifted, Lim
<1> HIDE DEF k
<1>3. CASE m >= k
  <2>1. D = DOMAIN R \ {m - k}
    BY <1>1, <1>3 DEF k
  <2>2. Shifted(S, R, m) = [i \in D |-> R[i]]
    BY <1>2, <1>3, <2>1, Zenon DEF Restrict
  <2>3. D \subseteq DOMAIN R
    OBVIOUS
  <2> HIDE DEF D
  <2> QED BY <2>2, <2>3 DEF D, k
<1>4. CASE ~ (m >= k)
  <2>1. D = DOMAIN R
    BY <1>1, <1>4
  <2> QED BY <1>2, <1>4, <2>1, Zenon DEF k
<1> QED BY <1>3, <1>4

\* The window after a block is signed,
LEMMA SignedWindow ==
  ASSUME NEW n \in Nat, NEW S \in SUBSET Accounts, NEW R, Window(n, S, R),
         NEW h, h.number = n + 1, h.signer \in Accounts
  PROVE  /\ Window(n + 1, S, Signed(h, S, R))
         /\ n + 1 \in DOMAIN Signed(h, S, R) /\ Signed(h, S, R)[n + 1] = h.signer
<1> DEFINE Q == Shifted(S, R, n + 1)
           U == Signed(h, S, R)
           k == Lim(S)
<1>1. k \in Nat /\ k >= 1
  BY LimType
<1>2. R \in [DOMAIN R -> Accounts] /\ DOMAIN R \subseteq 1..n /\ \A i \in DOMAIN R : i + k > n
  <2>1. \A i \in DOMAIN R : i + Cardinality(S) \div 2 + 1 > n /\ i \in 1..n
    BY Zenon DEF Window
  <2>2. \A i \in 1..n : i + Cardinality(S) \div 2 + 1 = i + k
    BY SignersFinite DEF Lim
  <2> QED BY <2>1, <2>2, Zenon DEF Window
<1> HIDE DEF k
<1>3. DOMAIN R \subseteq Nat \ {0} /\ \A i \in DOMAIN R : i + k >= n + 1
  BY <1>1, <1>2
<1>4. /\ DOMAIN Q = {i \in DOMAIN R : i + k > n + 1}
      /\ Q \in [DOMAIN Q -> Accounts]
  <2> DEFINE m == n + 1
  <2>1. m \in Nat
    OBVIOUS
  <2>2. \A i \in DOMAIN R : i + Lim(S) >= m
    BY <1>3, Zenon DEF k
  <2> HIDE DEF m
  <2>3. /\ DOMAIN Shifted(S, R, m) = {i \in DOMAIN R : i + Lim(S) > m}
        /\ Shifted(S, R, m) \in [DOMAIN Shifted(S, R, m) -> Accounts]
    BY <1>2, <1>3, <2>1, <2>2, ShiftedWindow, Zenon
  <2> QED BY <2>3, Zenon DEF m, k
<1>5. U = [i \in DOMAIN Q \cup {n + 1} |-> IF i = n + 1 THEN h.signer ELSE Q[i]]
  BY Zenon DEF Signed, Put
<1> HIDE DEF Q, U
<1>6. DOMAIN U = DOMAIN Q \cup {n + 1} /\ U[n + 1] = h.signer /\ U \in [DOMAIN U -> Accounts]
  BY <1>4, <1>5
<1>7. DOMAIN U \subseteq 1..(n + 1) /\ \A i \in DOMAIN U : i + k > n + 1
  BY <1>1, <1>2, <1>4, <1>6
<1>8. \A i \in DOMAIN U : i + Cardinality(S) \div 2 + 1 > n + 1
  BY <1>7, SignersFinite DEF k, Lim
<1> QED BY <1>6, <1>7, <1>8, Zenon DEF Window, U

\* after the list has grown,
LEMMA GrownWindow ==
  ASSUME NEW n \in Nat, NEW S \in SUBSET Accounts, NEW R, Window(n, S, R), NEW c \in Accounts
  PROVE  Window(n, S \cup {c}, R)
<1>1. Cardinality(S) \in Nat /\ Cardinality(S \cup {c}) \in Nat /\ Cardinality(S) <= Cardinality(S \cup {c})
  BY SignersFinite, FS_AddElement
<1>2. Cardinality(S) \div 2 <= Cardinality(S \cup {c}) \div 2
  BY <1>1
<1>3. \A i \in DOMAIN R : i \in Nat /\ i + Cardinality(S) \div 2 + 1 > n
  BY DEF Window
<1>4. \A i \in DOMAIN R : i + Cardinality(S \cup {c}) \div 2 + 1 > n
  BY <1>1, <1>2, <1>3
<1> QED BY <1>4, Zenon DEF Window

\* and after it has shrunk and the window with it.
LEMMA ShrunkWindow ==
  ASSUME NEW n \in Nat, NEW S \in SUBSET Accounts, NEW R, Window(n, S, R), NEW c
  PROVE  /\ Window(n, S \ {c}, Shifted(S \ {c}, R, n))
         /\ n \in DOMAIN R => /\ n \in DOMAIN Shifted(S \ {c}, R, n)
                              /\ Shifted(S \ {c}, R, n)[n] = R[n]
<1> DEFINE D == S \ {c}
           Q == Shifted(D, R, n)
           k == Lim(D)
<1>1. k \in Nat /\ k >= 1 /\ k = Cardinality(D) \div 2 + 1 /\ Cardinality(D) \div 2 \in Nat
  BY LimType, SignersFinite DEF Lim
<1>2. Cardinality(S) \div 2 <= k
  <2>1. Cardinality(S) \in Nat /\ Cardinality(D) \in Nat /\ Cardinality(S) <= Cardinality(D) + 1
    BY SignersFinite, FS_RemoveElement
  <2> QED BY <1>1, <2>1
<1>3. \A i \in DOMAIN R : i \in 1..n /\ i + Cardinality(S) \div 2 + 1 > n
  BY Zenon DEF Window
<1>4. R \in [DOMAIN R -> Accounts]
  BY Zenon DEF Window
<1> HIDE DEF D, k
<1>5. DOMAIN R \subseteq Nat \ {0} /\ \A i \in DOMAIN R : i + k >= n
  BY <1>1, <1>2, <1>3, SignersFinite
<1>6. /\ DOMAIN Q = {i \in DOMAIN R : i + k > n}
      /\ \A i \in DOMAIN Q : Q[i] = R[i]
      /\ Q \in [DOMAIN Q -> Accounts]
  <2>1. D \in SUBSET Accounts
    BY DEF D
  <2>2. \A i \in DOMAIN R : i + Lim(D) >= n
    BY <1>5, Zenon DEF k
  <2> QED BY <1>4, <1>5, <2>1, <2>2, ShiftedWindow, Zenon DEF k
<1> HIDE DEF Q
<1>7. DOMAIN Q \subseteq 1..n /\ \A i \in DOMAIN Q : i + Cardinality(D) \div 2 + 1 > n
  BY <1>1, <1>3, <1>6
<1>8. Window(n, D, Q)
  BY <1>6, <1>7, Zenon DEF Window
<1>9. n \in DOMAIN R => n \in DOMAIN Q /\ Q[n] = R[n]
  BY <1>1, <1>6
<1> QED BY <1>8, <1>9, Zenon DEF Q, D

\* No votes, no tally.
LEMMA EmptyTallied == Tallied({}, <<>>)
  BY DEF Tallied

\* The tally when the earlier vote of the signer is withdrawn,
LEMMA KeptTallied ==
  ASSUME NEW V, NEW T, Tallied(V, T), NEW h
  PROVE  /\ Tallied(KeptVotes(h, V), KeptTally(h, V, T))
         /\ KeptVotes(h, V) \subseteq V
         /\ \A v \in KeptVotes(h, V) : ~ (v.signer = h.signer /\ v.address = h.coinbase)
<1>1. Tallied(OpenVotes(h, V), OpenTally(h, T))
  BY EmptyTallied, Zenon DEF OpenVotes, OpenTally
<1>2. OpenVotes(h, V) \subseteq V
  BY DEF OpenVotes
<1>3. Earlier(h, V) = {v \in OpenVotes(h, V) : v.signer = h.signer /\ v.address = h.coinbase}
  BY DEF Earlier, By
<1>4. Earlier(h, V) \in SUBSET OpenVotes(h, V)
  BY <1>3
<1>5. Tallied(KeptVotes(h, V), KeptTally(h, V, T))
  BY <1>1, <1>4, UncastTallied, Zenon DEF KeptVotes, KeptTally
<1> QED BY <1>2, <1>3, <1>5, Zenon DEF KeptVotes

\* A vote that changes something is on an account.
LEMMA ValidVoteOnAccount ==
  ASSUME NEW S \in SUBSET Accounts, NEW h, HeaderOK(h), Valid(h, S)
  PROVE  h.coinbase \in Accounts /\ (h.coinbase \in S) # h.authorize
<1>1. (h.coinbase \in S) # h.authorize
  BY Zenon DEF Valid, Changes
<1>2. Zero \notin S
  BY CliqueAssumption DEF Zero
<1>3. h.coinbase \in Accounts \cup {Zero} /\ h.authorize \in BOOLEAN /\ (h.coinbase = Zero => ~ h.authorize)
  BY Zenon DEF HeaderOK
<1> QED BY <1>1, <1>2, <1>3

\* when the new one is cast,
LEMMA PollTallied ==
  ASSUME NEW S \in SUBSET Accounts, NEW V, NEW T, Tallied(V, T), Meaningful(S, V),
         NEW h, HeaderOK(h), h.signer \in S
  PROVE  /\ Tallied(PollVotes(h, S, V), PollTally(h, S, V, T))
         /\ Meaningful(S, PollVotes(h, S, V))
         /\ PollVotes(h, S, V) \subseteq V \cup {NewVote(h)}
<1>1. /\ Tallied(KeptVotes(h, V), KeptTally(h, V, T))
      /\ KeptVotes(h, V) \subseteq V
      /\ \A v \in KeptVotes(h, V) : ~ (v.signer = h.signer /\ v.address = h.coinbase)
  BY KeptTallied, Zenon
<1>2. Meaningful(S, KeptVotes(h, V))
  BY <1>1, Zenon DEF Meaningful
<1>3. CASE Valid(h, S)
  <2>1. h.coinbase \in Accounts /\ (h.coinbase \in S) # h.authorize
    BY <1>3, ValidVoteOnAccount, Zenon
  <2>2. h.signer \in Accounts /\ h.authorize \in BOOLEAN
    BY Zenon DEF HeaderOK
  <2>3. Tallied(KeptVotes(h, V) \cup {NewVote(h)},
                count(KeptTally(h, V, T), h.coinbase, h.authorize))
    BY <1>1, <1>2, <2>1, <2>2, CastTallied, Zenon DEF NewVote
  <2>4. NewVote(h).signer \in S /\ (NewVote(h).address \in S) # NewVote(h).authorize
    BY <2>1 DEF NewVote
  <2>5. Meaningful(S, KeptVotes(h, V) \cup {NewVote(h)})
    BY <1>2, <2>4, Zenon DEF Meaningful
  <2>6. PollVotes(h, S, V) = KeptVotes(h, V) \cup {NewVote(h)}
    BY <1>3, Zenon DEF PollVotes
  <2>7. PollTally(h, S, V, T) = count(KeptTally(h, V, T), h.coinbase, h.authorize)
    BY <1>3, Zenon DEF PollTally
  <2> QED BY <1>1, <2>3, <2>5, <2>6, <2>7, Zenon
<1>4. CASE ~ Valid(h, S)
  <2>1. PollVotes(h, S, V) = KeptVotes(h, V) /\ PollTally(h, S, V, T) = KeptTally(h, V, T)
    BY <1>4, Zenon DEF PollVotes, PollTally
  <2> QED BY <1>1, <1>2, <2>1, Zenon
<1> QED BY <1>3, <1>4, Zenon

\* What a tally that passed says of its account: it is one, there is a vote on
\* it, and the vote is to add it if and only if it is no signer.
LEMMA PassedVote ==
  ASSUME NEW S, NEW V, NEW T, Tallied(V, T), Meaningful(S, V), NEW c \in DOMAIN T
  PROVE  c \in Accounts /\ T[c].authorize \in BOOLEAN /\ (T[c].authorize <=> c \notin S)
<1>1. T \in [{v.address : v \in V} -> Tally]
  BY Zenon DEF Tallied
<1>2. c \in {v.address : v \in V}
  BY <1>1
<1>3. PICK v \in V : v.address = c
  BY <1>2
<1>4. v \in Votes /\ T[c].authorize = v.authorize
  BY <1>3, Zenon DEF Tallied
<1>5. (c \in S) # v.authorize
  BY <1>3, Zenon DEF Meaningful
<1>6. v.authorize \in BOOLEAN /\ c \in Accounts
  BY <1>3, <1>4 DEF Votes
<1> QED BY <1>4, <1>5, <1>6

\* and when the vote has passed.
LEMMA NextTallied ==
  ASSUME NEW S \in SUBSET Accounts, NEW V, NEW T, Tallied(V, T), Meaningful(S, V),
         NEW h, HeaderOK(h), h.signer \in S
  PROVE  /\ Tallied(NextVotes(h, S, V, T), NextTally(h, S, V, T))
         /\ Meaningful(NextSigners(h, S, V, T), NextVotes(h, S, V, T))
         /\ NextSigners(h, S, V, T) \subseteq Accounts
<1> DEFINE P == PollVotes(h, S, V)
           Q == PollTally(h, S, V, T)
           c == h.coinbase
           L == Left(h, S, V, T)
           U == LeftCount(h, S, V, T)
<1>1. Tallied(P, Q) /\ Meaningful(S, P)
  BY PollTallied, Zenon
<1>2. CASE ~ Passed(h, S, V, T)
  BY <1>1, <1>2, Zenon DEF NextVotes, NextTally, NextSigners
<1>3. CASE Passed(h, S, V, T)
  <2>1. c \in Accounts
    BY <1>1, <1>3, PassedVote, Zenon DEF Passed
  <2>2. By(P, c) \in SUBSET P
    BY DEF By
  <2>3. Tallied(L, U) /\ L \subseteq P
    <3>1. CASE Grants(h, S, V, T)
      <4>1. L = P /\ U = Q
        BY <3>1, Zenon DEF Left, LeftCount, LeftVotes, LeftTally
      <4> QED BY <1>1, <4>1, Zenon
    <3>2. CASE ~ Grants(h, S, V, T)
      <4>1. L = P \ By(P, c) /\ U = uncast(Q, By(P, c))
        BY <3>2, Zenon DEF Left, LeftCount, LeftVotes, LeftTally
      <4>2. Tallied(P \ By(P, c), uncast(Q, By(P, c)))
        BY <1>1, <2>2, UncastTallied, Zenon
      <4> QED BY <4>1, <4>2, Zenon
    <3> QED BY <3>1, <3>2, Zenon
  <2>4. NextVotes(h, S, V, T) = L \ On(L, c) /\ NextTally(h, S, V, T) = Restrict(U, DOMAIN U \ {c})
    BY <1>3, Zenon DEF NextVotes, NextTally
  <2>5. Tallied(L \ On(L, c), Restrict(U, DOMAIN U \ {c}))
    BY <2>3, ForgetTallied, Zenon
  <2>6. \A v \in NextVotes(h, S, V, T) : v \in P /\ v \in L /\ v.address # c
    BY <2>3, <2>4, Zenon DEF On
  <2>7. CASE Grants(h, S, V, T)
    <3>1. NextSigners(h, S, V, T) = S \cup {c}
      BY <1>3, <2>7, Zenon DEF NextSigners
    <3>2. Meaningful(S \cup {c}, NextVotes(h, S, V, T))
      <4> HIDE DEF P, L, c
      <4> SUFFICES ASSUME NEW v \in NextVotes(h, S, V, T)
                   PROVE  v.signer \in S \cup {c} /\ (v.address \in S \cup {c}) # v.authorize
        BY Zenon DEF Meaningful
      <4>1. v \in P /\ v.address # c
        BY <2>6, Zenon
      <4>2. v.signer \in S /\ (v.address \in S) # v.authorize
        BY <1>1, <4>1, Zenon DEF Meaningful
      <4>3. v.address \in S \cup {c} <=> v.address \in S
        BY <4>1, Zenon
      <4> QED BY <4>2, <4>3
    <3> QED BY <2>1, <2>4, <2>5, <3>1, <3>2, Zenon
  <2>8. CASE ~ Grants(h, S, V, T)
    <3>1. NextSigners(h, S, V, T) = S \ {c}
      BY <1>3, <2>8, Zenon DEF NextSigners
    <3>2. L = P \ By(P, c)
      BY <2>8, Zenon DEF Left, LeftVotes
    <3>3. \A v \in NextVotes(h, S, V, T) : v.signer # c
      BY <2>6, <3>2, Zenon DEF By
    <3>4. Meaningful(S \ {c}, NextVotes(h, S, V, T))
      <4> HIDE DEF P, L, c
      <4> SUFFICES ASSUME NEW v \in NextVotes(h, S, V, T)
                   PROVE  v.signer \in S \ {c} /\ (v.address \in S \ {c}) # v.authorize
        BY Zenon DEF Meaningful
      <4>1. v \in P /\ v.address # c /\ v.signer # c
        BY <2>6, <3>3, Zenon
      <4>2. v.signer \in S /\ (v.address \in S) # v.authorize
        BY <1>1, <4>1, Zenon DEF Meaningful
      <4>3. v.address \in S \ {c} <=> v.address \in S
        BY <4>1, Zenon
      <4> QED BY <4>1, <4>2, <4>3
    <3> QED BY <2>4, <2>5, <3>1, <3>4, Zenon
  <2> QED BY <2>7, <2>8, Zenon
<1> QED BY <1>2, <1>3, Zenon

\* The window after the whole block; its own signer is the newest in it.
LEMMA NextWindow ==
  ASSUME NEW n \in Nat, NEW S \in SUBSET Accounts, NEW R, Window(n, S, R),
         NEW V, NEW T, Tallied(V, T), Meaningful(S, V),
         NEW h, HeaderOK(h), h.signer \in S, h.number = n + 1
  PROVE  /\ Window(h.number, NextSigners(h, S, V, T), NextRecents(h, S, R, V, T))
         /\ NextRecents(h, S, R, V, T)[h.number] = h.signer
<1> DEFINE m == h.number
           Q == Signed(h, S, R)
           c == h.coinbase
<1>1. m \in Nat /\ Window(m, S, Q) /\ m \in DOMAIN Q /\ Q[m] = h.signer
  <2>1. h.signer \in Accounts
    OBVIOUS
  <2>2. Window(n + 1, S, Q) /\ n + 1 \in DOMAIN Q /\ Q[n + 1] = h.signer
    BY <2>1, SignedWindow
  <2> QED BY <2>2
<1> HIDE DEF m, Q
<1>2. CASE ~ Passed(h, S, V, T)
  <2>1. NextSigners(h, S, V, T) = S /\ NextRecents(h, S, R, V, T) = Q
    BY <1>2, Zenon DEF NextSigners, NextRecents, Q
  <2> QED BY <1>1, <2>1, Zenon DEF m
<1>3. CASE Passed(h, S, V, T) /\ Grants(h, S, V, T)
  <2>1. NextSigners(h, S, V, T) = S \cup {c} /\ NextRecents(h, S, R, V, T) = Q
    BY <1>3, Zenon DEF NextSigners, NextRecents, Q
  <2>2. c \in Accounts
    BY <1>3, PollTallied, PassedVote, Zenon DEF Passed
  <2>3. Window(m, S \cup {c}, Q)
    BY <1>1, <2>2, GrownWindow, Zenon
  <2> QED BY <1>1, <2>1, <2>3, Zenon DEF m
<1>4. CASE Passed(h, S, V, T) /\ ~ Grants(h, S, V, T)
  <2>1. /\ NextSigners(h, S, V, T) = S \ {c}
        /\ NextRecents(h, S, R, V, T) = Shifted(S \ {c}, Q, m)
    BY <1>4, Zenon DEF NextSigners, NextRecents, Q, m
  <2>2. Window(m, S \ {c}, Shifted(S \ {c}, Q, m)) /\ Shifted(S \ {c}, Q, m)[m] = Q[m]
    BY <1>1, ShrunkWindow, Zenon
  <2> QED BY <1>1, <2>1, <2>2, Zenon DEF m
<1> QED BY <1>2, <1>3, <1>4, Zenon

\* The fields of a snapshot.
LEMMA FieldsOf ==
  ASSUME NEW n, NEW S, NEW R, NEW V, NEW T, NEW t, t = Snapshot(n, S, R, V, T)
  PROVE  t.number = n /\ t.signers = S /\ t.recents = R /\ t.votes = V /\ t.tally = T
  BY DEF Snapshot

\* What SnapshotInv says, one fact at a time.
LEMMA InvParts ==
  ASSUME NEW s, SnapshotInv(s)
  PROVE  /\ s = Snapshot(s.number, s.signers, s.recents, s.votes, s.tally)
         /\ s.number \in Nat /\ s.signers \in SUBSET Accounts
         /\ Window(s.number, s.signers, s.recents)
         /\ Tallied(s.votes, s.tally)
         /\ Meaningful(s.signers, s.votes)
  BY Zenon DEF SnapshotInv

\* A snapshot put together from such parts satisfies SnapshotInv.
LEMMA InvFrom ==
  ASSUME NEW n \in Nat, NEW S \in SUBSET Accounts, NEW R, NEW V, NEW T,
         Window(n, S, R), Tallied(V, T), Meaningful(S, V)
  PROVE  SnapshotInv(Snapshot(n, S, R, V, T))
<1> DEFINE t == Snapshot(n, S, R, V, T)
<1>1. t.number = n /\ t.signers = S /\ t.recents = R /\ t.votes = V /\ t.tally = T
  BY FieldsOf
<1> HIDE DEF t
<1>2. t = Snapshot(t.number, t.signers, t.recents, t.votes, t.tally)
  BY <1>1, Zenon DEF t
<1> QED BY <1>1, <1>2, Zenon DEF SnapshotInv, t

\* The snapshot of the next block, by its fields.
LEMMA ApplyParts ==
  ASSUME NEW s, SnapshotInv(s), NEW h
  PROVE  LET t == apply(s, h)
         IN  /\ t = Snapshot(t.number, t.signers, t.recents, t.votes, t.tally)
             /\ t.number = h.number
             /\ t.signers = NextSigners(h, s.signers, s.votes, s.tally)
             /\ t.recents = NextRecents(h, s.signers, s.recents, s.votes, s.tally)
             /\ t.votes = NextVotes(h, s.signers, s.votes, s.tally)
             /\ t.tally = NextTally(h, s.signers, s.votes, s.tally)
<1> DEFINE t == apply(s, h)
           A == NextSigners(h, s.signers, s.votes, s.tally)
           B == NextRecents(h, s.signers, s.recents, s.votes, s.tally)
           C == NextVotes(h, s.signers, s.votes, s.tally)
           D == NextTally(h, s.signers, s.votes, s.tally)
<1>1. s = Snapshot(s.number, s.signers, s.recents, s.votes, s.tally)
  BY InvParts, Zenon
<1>2. apply(Snapshot(s.number, s.signers, s.recents, s.votes, s.tally), h)
        = Snapshot(h.number, A, B, C, D)
  BY ApplyFields
<1>3. t = Snapshot(h.number, A, B, C, D)
  BY <1>1, <1>2, Zenon
<1> HIDE DEF t, A, B, C, D
<1>4. t.number = h.number /\ t.signers = A /\ t.recents = B /\ t.votes = C /\ t.tally = D
  BY <1>3, FieldsOf
<1> QED BY <1>3, <1>4, Zenon DEF t, A, B, C, D

\* apply keeps the invariant of snapshots.
LEMMA ApplyKeeps ==
  ASSUME NEW s, SnapshotInv(s), NEW h, HeaderOK(h), Applies(s, h)
  PROVE  SnapshotInv(apply(s, h))
<1> DEFINE t == apply(s, h)
<1>1. /\ t = Snapshot(t.number, t.signers, t.recents, t.votes, t.tally)
      /\ t.number = h.number
      /\ t.signers = NextSigners(h, s.signers, s.votes, s.tally)
      /\ t.recents = NextRecents(h, s.signers, s.recents, s.votes, s.tally)
      /\ t.votes = NextVotes(h, s.signers, s.votes, s.tally)
      /\ t.tally = NextTally(h, s.signers, s.votes, s.tally)
  BY ApplyParts, Zenon
<1>2. h.number = s.number + 1 /\ h.signer \in s.signers /\ h.number \in Nat
  BY Zenon DEF Applies, HeaderOK
<1>3. /\ s.number \in Nat /\ s.signers \in SUBSET Accounts
      /\ Window(s.number, s.signers, s.recents)
      /\ Tallied(s.votes, s.tally)
      /\ Meaningful(s.signers, s.votes)
  BY InvParts, Zenon
<1> HIDE DEF t
<1>4. Window(t.number, t.signers, t.recents)
  <2>1. Window(h.number, NextSigners(h, s.signers, s.votes, s.tally),
               NextRecents(h, s.signers, s.recents, s.votes, s.tally))
    BY <1>2, <1>3, NextWindow
  <2> QED BY <1>1, <2>1, Zenon
<1>5. Tallied(t.votes, t.tally) /\ Meaningful(t.signers, t.votes) /\ t.signers \subseteq Accounts
  <2>1. /\ Tallied(NextVotes(h, s.signers, s.votes, s.tally), NextTally(h, s.signers, s.votes, s.tally))
        /\ Meaningful(NextSigners(h, s.signers, s.votes, s.tally), NextVotes(h, s.signers, s.votes, s.tally))
        /\ NextSigners(h, s.signers, s.votes, s.tally) \subseteq Accounts
    BY <1>2, <1>3, NextTallied
  <2> QED BY <1>1, <2>1, Zenon
<1>6. SnapshotInv(t)
  BY <1>1, <1>2, <1>4, <1>5, Zenon DEF SnapshotInv
<1> QED BY <1>6, Zenon DEF t

-----------------------------------------------------------------------------
(* The three checks of the recent signers.                                 *)

\* The window that apply looks at.
LEMMA AppliesFields ==
  ASSUME NEW s, SnapshotInv(s), NEW h
  PROVE  Applies(s, h) <=> /\ h.number = s.number + 1
                           /\ h.signer \in s.signers
                           /\ h.signer \notin Range(Shifted(s.signers, s.recents, h.number))
<1> DEFINE R == Shifted(s.signers, s.recents, h.number)
           t == Snapshot(s.number, s.signers, R, s.votes, s.tally)
<1>1. s = Snapshot(s.number, s.signers, s.recents, s.votes, s.tally)
  BY InvParts, Zenon
<1>2. shift(Snapshot(s.number, s.signers, s.recents, s.votes, s.tally), h.number) = t
  BY ShiftFields
<1>3. shift(s, h.number) = t
  BY <1>1, <1>2, Zenon
<1>4. t.recents = R
  BY DEF Snapshot
<1> HIDE DEF R, t
<1>5. shift(s, h.number).recents = R
  BY <1>3, <1>4, Zenon
<1> QED BY <1>5, Zenon DEF Applies, R

\* The next block is out of the way of whoever is the limit behind it.
OutOfWindow(s, h) ==
  \A seen \in DOMAIN s.recents :
    s.recents[seen] = h.signer => (h.number >= Lim(s.signers) /\ seen <= h.number - Lim(s.signers))

\* The entries of the window, the limit, and the number of the next block.
LEMMA WindowNumbers ==
  ASSUME NEW s, SnapshotInv(s), NEW h, h.number = s.number + 1
  PROVE  /\ Lim(s.signers) \in Nat /\ Lim(s.signers) >= 1 /\ limit(s) = Lim(s.signers)
         /\ h.number \in Nat \ {0}
         /\ s.recents \in [DOMAIN s.recents -> Accounts] /\ DOMAIN s.recents \subseteq Nat \ {0}
         /\ \A i \in DOMAIN s.recents : i + Lim(s.signers) >= h.number /\ i < h.number
<1>1. s.number \in Nat /\ s.signers \in SUBSET Accounts /\ Window(s.number, s.signers, s.recents)
  BY InvParts, Zenon
<1>2. Lim(s.signers) \in Nat /\ Lim(s.signers) >= 1
  BY <1>1, LimType
<1>3. limit(s) = Lim(s.signers)
  BY Zenon DEF limit, Lim
<1>4. s.recents \in [DOMAIN s.recents -> Accounts]
  BY <1>1, Zenon DEF Window
<1>5. \A i \in DOMAIN s.recents :
        i \in 1..s.number /\ i + Cardinality(s.signers) \div 2 + 1 > s.number
  BY <1>1, Zenon DEF Window
<1>6. \A i \in Nat : i + Cardinality(s.signers) \div 2 + 1 = i + Lim(s.signers)
  BY <1>1, SignersFinite DEF Lim
<1>7. \A i \in DOMAIN s.recents : i \in 1..s.number /\ i + Lim(s.signers) > s.number
  BY <1>5, <1>6
<1>8. \A i \in DOMAIN s.recents :
        i \in Nat \ {0} /\ i + Lim(s.signers) >= h.number /\ i < h.number
  <2> DEFINE k == Lim(s.signers)
             n == s.number
  <2> HIDE DEF k, n
  <2>1. n \in Nat /\ k \in Nat /\ h.number = n + 1 /\ \A i \in DOMAIN s.recents : i \in 1..n /\ i + k > n
    BY <1>1, <1>2, <1>7, Zenon DEF n, k
  <2>2. \A i \in DOMAIN s.recents : i \in Nat \ {0} /\ i + k >= h.number /\ i < h.number
    BY <2>1
  <2> QED BY <2>2, Zenon DEF k
<1>9. h.number \in Nat \ {0}
  BY <1>1
<1> QED BY <1>2, <1>3, <1>4, <1>8, <1>9, Zenon

\* A signer who is out of the window is accepted by apply.
LEMMA OutOfWindowApplies ==
  ASSUME NEW s, SnapshotInv(s), NEW h, h.number = s.number + 1, h.signer \in s.signers,
         OutOfWindow(s, h)
  PROVE  Applies(s, h)
<1> DEFINE S == s.signers
           R == s.recents
           m == h.number
           k == Lim(s.signers)
           Q == Shifted(S, R, m)
<1>1. /\ k \in Nat /\ m \in Nat
      /\ R \in [DOMAIN R -> Accounts] /\ DOMAIN R \subseteq Nat \ {0}
      /\ \A i \in DOMAIN R : i + k >= m
  BY WindowNumbers, Zenon
<1>2. DOMAIN Q = {i \in DOMAIN R : i + k > m} /\ \A i \in DOMAIN Q : Q[i] = R[i]
  <2>1. S \in SUBSET Accounts
    BY InvParts, Zenon
  <2> HIDE DEF S, R, m
  <2>2. \A i \in DOMAIN R : i + Lim(S) >= m
    BY <1>1, Zenon DEF S
  <2>3. /\ DOMAIN Shifted(S, R, m) = {i \in DOMAIN R : i + Lim(S) > m}
        /\ \A i \in DOMAIN Shifted(S, R, m) : Shifted(S, R, m)[i] = R[i]
    BY <1>1, <2>1, <2>2, ShiftedWindow, Zenon
  <2> QED BY <2>3, Zenon DEF S
<1>3. \A i \in DOMAIN R : R[i] = h.signer => (m >= k /\ i <= m - k)
  BY Zenon DEF OutOfWindow
<1> HIDE DEF k, m, Q, R
<1>4. \A i \in DOMAIN Q : Q[i] # h.signer
  BY <1>1, <1>2, <1>3
<1>5. h.signer \notin Range(Q)
  BY <1>4, Zenon DEF Range
<1> QED BY <1>5, AppliesFields, Zenon DEF Q, R, m

\* Seal and apply look for the same window,
LEMMA SealIsOutOfWindow ==
  ASSUME NEW s, SnapshotInv(s), NEW h, h.number = s.number + 1
  PROVE  SealPermits(s, h) <=> (h.signer \in s.signers /\ OutOfWindow(s, h))
<1> DEFINE k == Lim(s.signers)
           m == h.number
           R == s.recents
<1>1. /\ k \in Nat /\ limit(s) = k /\ m \in Nat /\ DOMAIN R \subseteq Nat \ {0}
  BY WindowNumbers, Zenon
<1> HIDE DEF k, m, R
<1>2. \A i \in DOMAIN R : ~ (m < k \/ i > m - k) <=> (m >= k /\ i <= m - k)
  BY <1>1
<1> QED BY <1>1, <1>2, Zenon DEF SealPermits, OutOfWindow, k, m, R

\* and so does verifySeal, except that its arithmetic wraps below the limit.
LEMMA VerifyIsOutOfWindow ==
  ASSUME NEW s, SnapshotInv(s), NEW h, h.number = s.number + 1, h.number <= MaxNumber + 1,
         s.signers # {}, h.number >= limit(s)
  PROVE  verifySeal(s, h) <=>
           /\ h.signer \in s.signers /\ OutOfWindow(s, h)
           /\ h.difficulty = IF inturn(s, h.number, h.signer) THEN 2 ELSE 1
<1> DEFINE k == Lim(s.signers)
           m == h.number
           R == s.recents
<1>1. /\ k \in Nat /\ k >= 1 /\ limit(s) = k /\ m \in Nat /\ DOMAIN R \subseteq Nat \ {0}
  BY WindowNumbers, Zenon
<1>2. MaxNumber \in Nat /\ Uint64 \in Nat /\ MaxNumber + 1 <= Uint64
  <2>1. Cardinality(Accounts) \in Nat
    BY CliqueAssumption, FS_CardinalityType
  <2> QED BY <2>1, CliqueAssumption
<1> HIDE DEF k, m, R
<1>3. m >= k /\ m <= MaxNumber + 1
  BY <1>1, Zenon DEF m
<1>4. m - k \in 0..(Uint64 - 1)
  BY <1>1, <1>2, <1>3
<1>5. (m - k) % Uint64 = m - k
  BY <1>2, <1>4
<1>6. \A i \in DOMAIN R : ~ (i > (m - k) % Uint64) <=> (m >= k /\ i <= m - k)
  BY <1>1, <1>3, <1>5
<1> QED BY <1>1, <1>6, Zenon DEF verifySeal, OutOfWindow, k, m, R

\* Fewer signers are in the window than there are: one of them is out of it.
LEMMA SomeoneIsOutOfWindow ==
  ASSUME NEW s, SnapshotInv(s), s.signers # {}
  PROVE  \E a \in s.signers :
           \A h : (h.number = s.number + 1 /\ h.signer = a) => OutOfWindow(s, h)
<1> DEFINE S == s.signers
           R == s.recents
           m == s.number + 1
           k == Lim(S)
           Q == Shifted(S, R, m)
           D == DOMAIN Q
<1>1. s.number \in Nat /\ S \in SUBSET Accounts /\ Window(s.number, S, R)
  BY InvParts, Zenon
<1>2. k \in Nat /\ k >= 1 /\ k - 1 = Cardinality(S) \div 2
  BY <1>1, SignersFinite DEF Lim
<1>3. /\ IsFiniteSet(S) /\ Cardinality(S) \in Nat /\ Cardinality(S) > Cardinality(S) \div 2
  <2>1. IsFiniteSet(S) /\ Cardinality(S) \in Nat
    BY <1>1, SignersFinite, Zenon
  <2>2. Cardinality(S) # 0
    BY <2>1, FS_EmptySet
  <2> QED BY <2>1, <2>2
<1>4. /\ R \in [DOMAIN R -> Accounts] /\ DOMAIN R \subseteq Nat \ {0}
      /\ \A i \in DOMAIN R : i + k >= m /\ i < m
  <2> DEFINE g == [number |-> m]
  <2>1. g.number = s.number + 1
    OBVIOUS
  <2> HIDE DEF g
  <2>2. /\ R \in [DOMAIN R -> Accounts] /\ DOMAIN R \subseteq Nat \ {0}
        /\ \A i \in DOMAIN R : i + k >= g.number /\ i < g.number
    BY <2>1, WindowNumbers, Zenon
  <2> QED BY <2>1, <2>2, Zenon
<1>5. m \in Nat
  BY <1>1
<1> HIDE DEF m, k, S, R
<1>6. D = {i \in DOMAIN R : i + k > m} /\ (\A i \in D : Q[i] = R[i]) /\ Q \in [D -> Accounts]
  BY <1>1, <1>4, <1>5, ShiftedWindow, Zenon DEF k
<1> HIDE DEF Q, D
<1>7. IsFiniteSet(D) /\ Cardinality(D) <= k - 1 /\ Cardinality(D) \in Nat
  <2>1. D \in SUBSET ((m - k + 1)..(m - 1))
    BY <1>2, <1>4, <1>5, <1>6
  <2>2. IsFiniteSet((m - k + 1)..(m - 1)) /\ Cardinality((m - k + 1)..(m - 1)) = k - 1
    <3>1. m - k + 1 \in Int /\ m - 1 \in Int
      BY <1>2, <1>5
    <3>2. /\ IsFiniteSet((m - k + 1)..(m - 1))
          /\ Cardinality((m - k + 1)..(m - 1))
               = IF m - k + 1 > m - 1 THEN 0 ELSE (m - 1) - (m - k + 1) + 1
      BY <3>1, FS_Interval
    <3> QED BY <1>2, <1>5, <3>2
  <2>3. IsFiniteSet(D) /\ Cardinality(D) <= k - 1
    BY <2>1, <2>2, FS_Subset, Zenon
  <2> QED BY <2>3, FS_CardinalityType
<1>8. /\ IsFiniteSet(Range(Q)) /\ Cardinality(Range(Q)) <= Cardinality(D)
      /\ Cardinality(Range(Q)) \in Nat
  <2>1. Q \in Surjection(D, Range(Q))
    <3>1. DOMAIN Q = D
      BY Zenon DEF D
    <3>2. Q \in [D -> Range(Q)]
      BY <1>6, <3>1 DEF Range
    <3>3. \A t \in Range(Q) : \E i \in D : Q[i] = t
      BY <3>1, Zenon DEF Range
    <3> QED BY <3>2, <3>3, Zenon DEF Surjection
  <2>2. IsFiniteSet(Range(Q)) /\ Cardinality(Range(Q)) <= Cardinality(D)
    BY <1>7, <2>1, FS_Surjection
  <2> QED BY <2>2, FS_CardinalityType
<1>9. ~ (S \subseteq Range(Q))
  <2> SUFFICES ASSUME S \in SUBSET Range(Q) PROVE FALSE
    OBVIOUS
  <2>1. Cardinality(S) <= Cardinality(Range(Q))
    BY <1>8, FS_Subset
  <2> QED BY <1>2, <1>3, <1>7, <1>8, <2>1
<1>10. PICK a \in S : a \notin Range(Q)
  BY <1>9
<1>11. ASSUME NEW h, h.number = s.number + 1, h.signer = a
       PROVE  OutOfWindow(s, h)
  <2>1. \A i \in DOMAIN R : R[i] = a => i \notin D
    BY <1>6, <1>10, Zenon DEF Range, D
  <2>2. \A i \in DOMAIN R : R[i] = a => (m >= k /\ i <= m - k)
    BY <1>2, <1>4, <1>5, <1>6, <2>1
  <2>3. h.number = m
    BY <1>11, Zenon DEF m
  <2> QED BY <1>11, <2>2, <2>3, Zenon DEF OutOfWindow, k, S, R
<1> QED BY <1>10, <1>11, Zenon DEF S

\* What Prepare produces.
LEMMA Prepared ==
  ASSUME NEW s, SnapshotInv(s), NEW signer \in Accounts, NEW h \in Prepare(s, signer)
  PROVE  /\ HeaderOK(h) /\ h.number = s.number + 1 /\ h.signer = signer
         /\ h.number % Epoch = 0 => (h.coinbase = Zero /\ ~ h.authorize)
         /\ h.extra = IF h.number % Epoch = 0 THEN s.signers ELSE {}
         /\ h.difficulty = IF inturn(s, h.number, h.signer) THEN 2 ELSE 1
<1> DEFINE number == s.number + 1
<1>1. PICK v \in Proposals(s) :
        /\ number % Epoch = 0 => v.address = Zero
        /\ h = [number |-> number, signer |-> signer,
                coinbase |-> v.address, authorize |-> v.authorize,
                extra |-> IF number % Epoch = 0 THEN s.signers ELSE {},
                difficulty |-> calcDifficulty(s, signer)]
  BY DEF Prepare
<1>2. /\ h.number = number /\ h.signer = signer
      /\ h.coinbase = v.address /\ h.authorize = v.authorize
      /\ h.extra = IF number % Epoch = 0 THEN s.signers ELSE {}
      /\ h.difficulty = calcDifficulty(s, signer)
  BY <1>1
<1>3. s.number \in Nat /\ number \in Nat
  <2>1. s.number \in Nat
    BY InvParts, Zenon
  <2> QED BY <2>1
<1>4. Zero \notin Accounts
  BY CliqueAssumption DEF Zero
<1>5. /\ v.address \in Accounts \cup {Zero} /\ v.authorize \in BOOLEAN
      /\ v.address = Zero => ~ v.authorize
  <2>1. \/ v \in [address : Accounts, authorize : BOOLEAN]
        \/ v = [address |-> Zero, authorize |-> FALSE]
    BY Zenon DEF Proposals
  <2>2. ASSUME v \in [address : Accounts, authorize : BOOLEAN]
        PROVE  v.address \in Accounts /\ v.authorize \in BOOLEAN
    BY <2>2
  <2>3. ASSUME v = [address |-> Zero, authorize |-> FALSE]
        PROVE  v.address = Zero /\ v.authorize = FALSE
    BY <2>3
  <2> QED BY <1>4, <2>1, <2>2, <2>3, Zenon
<1>6. HeaderOK(h)
  BY <1>2, <1>3, <1>5, Zenon DEF HeaderOK
<1>7. h.difficulty = IF inturn(s, h.number, h.signer) THEN 2 ELSE 1
  BY <1>2, Zenon DEF calcDifficulty
<1> QED BY <1>1, <1>2, <1>5, <1>6, <1>7, Zenon

\* What is sealed is verified and applies.
LEMMA SealedAccepted ==
  ASSUME NEW s, SnapshotInv(s), s.number <= MaxNumber, s.signers # {},
         NEW signer \in Accounts, NEW h \in Prepare(s, signer), SealPermits(s, h)
  PROVE  verifyHeader(s, h) /\ Applies(s, h)
<1>1. /\ h.number = s.number + 1 /\ h.signer = signer
      /\ h.number % Epoch = 0 => (h.coinbase = Zero /\ ~ h.authorize)
      /\ h.extra = IF h.number % Epoch = 0 THEN s.signers ELSE {}
      /\ h.difficulty = IF inturn(s, h.number, h.signer) THEN 2 ELSE 1
  BY Prepared
<1>2. h.signer \in s.signers /\ OutOfWindow(s, h)
  BY <1>1, SealIsOutOfWindow, Zenon
<1>3. Applies(s, h)
  BY <1>1, <1>2, OutOfWindowApplies, Zenon
<1>4. verifySeal(s, h)
  <2>1. CASE h.number >= limit(s)
    <3>1. h.number <= MaxNumber + 1
      <4>1. s.number \in Nat /\ MaxNumber \in Nat
        BY InvParts, CliqueAssumption, Zenon
      <4> QED BY <1>1, <4>1
    <3> QED BY <1>1, <1>2, <2>1, <3>1, VerifyIsOutOfWindow, Zenon
  <2>2. CASE ~ (h.number >= limit(s))
    <3>1. \A seen \in DOMAIN s.recents : s.recents[seen] # h.signer
      <4>1. limit(s) = Lim(s.signers)
        BY <1>1, WindowNumbers, Zenon
      <4> QED BY <1>2, <2>2, <4>1, Zenon DEF OutOfWindow
    <3> QED BY <1>1, <1>2, <3>1, Zenon DEF verifySeal
  <2> QED BY <2>1, <2>2, Zenon
<1>5. h.difficulty \in {1, 2}
  BY <1>1
<1> QED BY <1>1, <1>3, <1>4, <1>5, Zenon DEF verifyHeader

\* Somebody's header is sealed.
LEMMA SomethingSealed ==
  ASSUME NEW s, SnapshotInv(s), s.signers # {}
  PROVE  \E signer \in Accounts : \E h \in Prepare(s, signer) : SealPermits(s, h)
<1>1. PICK a \in s.signers :
        \A h : (h.number = s.number + 1 /\ h.signer = a) => OutOfWindow(s, h)
  BY SomeoneIsOutOfWindow, Zenon
<1>2. a \in Accounts
  <2>1. s.signers \in SUBSET Accounts
    BY InvParts, Zenon
  <2> QED BY <2>1
<1> DEFINE v == [address |-> Zero, authorize |-> FALSE]
           number == s.number + 1
           h == [number |-> number, signer |-> a, coinbase |-> v.address, authorize |-> v.authorize,
                 extra |-> IF number % Epoch = 0 THEN s.signers ELSE {},
                 difficulty |-> calcDifficulty(s, a)]
<1>3. v \in Proposals(s) /\ v.address = Zero
  BY DEF Proposals
<1>4. h \in Prepare(s, a)
  <2> HIDE DEF v
  <2> QED BY <1>3, Zenon DEF Prepare
<1>5. h.number = s.number + 1 /\ h.signer = a
  OBVIOUS
<1> HIDE DEF h
<1>6. SealPermits(s, h)
  BY <1>1, <1>5, SealIsOutOfWindow, Zenon
<1> QED BY <1>2, <1>4, <1>6, Zenon

-----------------------------------------------------------------------------
(* Checkpoints.                                                            *)

\* A checkpoint block changes no signer and leaves no vote.
LEMMA CheckpointApply ==
  ASSUME NEW S \in SUBSET Accounts, NEW V, NEW T, Tallied(V, T),
         NEW h, HeaderOK(h), h.number % Epoch = 0, h.coinbase = Zero
  PROVE  /\ NextSigners(h, S, V, T) = S
         /\ NextVotes(h, S, V, T) = {} /\ NextTally(h, S, V, T) = <<>>
<1>1. KeptVotes(h, V) = {}
  BY DEF KeptVotes, OpenVotes
<1>2. KeptTally(h, V, T) = <<>>
  <2>0. Tallied(KeptVotes(h, V), KeptTally(h, V, T))
    BY KeptTallied, Zenon
  <2>1. Tallied({}, KeptTally(h, V, T))
    BY <1>1, <2>0, Zenon
  <2>2. KeptTally(h, V, T) \in [{v.address : v \in {}} -> Tally]
    BY <2>1, Zenon DEF Tallied
  <2>3. {v.address : v \in {}} = {}
    OBVIOUS
  <2> QED BY <2>2, <2>3
<1>3. ~ Valid(h, S)
  <2>1. Zero \notin Accounts
    BY CliqueAssumption DEF Zero
  <2> QED BY <2>1, ValidVoteOnAccount, Zenon
<1>4. PollVotes(h, S, V) = {} /\ PollTally(h, S, V, T) = <<>>
  BY <1>1, <1>2, <1>3, Zenon DEF PollVotes, PollTally
<1>5. DOMAIN <<>> = {}
  OBVIOUS
<1>6. ~ Passed(h, S, V, T)
  BY <1>4, <1>5, Zenon DEF Passed
<1> QED BY <1>4, <1>6, Zenon DEF NextSigners, NextVotes, NextTally

\* The recent signers after block cp.
Since(R, cp) == Restrict(R, {n \in DOMAIN R : n > cp})

\* The shift, seen from a checkpoint,
LEMMA ShiftedSince ==
  ASSUME NEW S, NEW R, NEW cp, NEW m
  PROVE  Shifted(S, Since(R, cp), m) = Since(Shifted(S, R, m), cp)
<1> DEFINE k == Cardinality(S) \div 2 + 1
           D == {n \in DOMAIN R : n > cp}
<1>1. Since(R, cp) = [n \in D |-> R[n]] /\ DOMAIN Since(R, cp) = D
  BY DEF Since, Restrict
<1>2. CASE m >= k
  <2> DEFINE E == DOMAIN R \ {m - k}
  <2>1. Shifted(S, R, m) = [n \in E |-> R[n]]
    BY <1>2, Zenon DEF Shifted, Restrict
  <2>2. Shifted(S, Since(R, cp), m) = [n \in D \ {m - k} |-> Since(R, cp)[n]]
    BY <1>1, <1>2, Zenon DEF Shifted, Restrict
  <2>3. DOMAIN Shifted(S, R, m) = E /\ \A n \in E : Shifted(S, R, m)[n] = R[n]
    BY <2>1
  <2>4. Since(Shifted(S, R, m), cp) = [n \in {i \in E : i > cp} |-> Shifted(S, R, m)[n]]
    BY <2>3, Zenon DEF Since, Restrict
  <2>5. {i \in E : i > cp} = D \ {m - k}
    OBVIOUS
  <2>6. \A n \in D \ {m - k} : Since(R, cp)[n] = R[n] /\ Shifted(S, R, m)[n] = R[n]
    BY <1>1, <2>3
  <2> HIDE DEF D, E
  <2> QED BY <2>2, <2>4, <2>5, <2>6
<1>3. CASE ~ (m >= k)
  BY <1>3, Zenon DEF Shifted
<1> QED BY <1>2, <1>3

\* and a new block.
LEMMA PutSince ==
  ASSUME NEW R, NEW cp, NEW m, m > cp, NEW g
  PROVE  Put(Since(R, cp), m, g) = Since(Put(R, m, g), cp)
<1> DEFINE D == {n \in DOMAIN R : n > cp}
           P == Put(R, m, g)
<1>1. Since(R, cp) = [n \in D |-> R[n]] /\ DOMAIN Since(R, cp) = D
  BY DEF Since, Restrict
<1>2. Put(Since(R, cp), m, g) = [n \in D \cup {m} |-> IF n = m THEN g ELSE Since(R, cp)[n]]
  BY <1>1, Zenon DEF Put
<1>3. P = [n \in DOMAIN R \cup {m} |-> IF n = m THEN g ELSE R[n]]
  BY Zenon DEF Put
<1>4. Since(P, cp) = [n \in {i \in DOMAIN P : i > cp} |-> P[n]]
  BY Zenon DEF Since, Restrict
<1> HIDE DEF P
<1>5. DOMAIN P = DOMAIN R \cup {m} /\ \A n \in DOMAIN P : P[n] = IF n = m THEN g ELSE R[n]
  BY <1>3
<1>6. {i \in DOMAIN P : i > cp} = D \cup {m}
  BY <1>5, Zenon
<1>7. \A n \in D \cup {m} : P[n] = IF n = m THEN g ELSE Since(R, cp)[n]
  BY <1>1, <1>5
<1> HIDE DEF D
<1> QED BY <1>2, <1>4, <1>6, <1>7 DEF P

\* The window of a node that started at a checkpoint stays that of the others
\* from there on.
LEMMA NextRecentsSince ==
  ASSUME NEW h, NEW S, NEW R, NEW V, NEW T, NEW cp, h.number > cp
  PROVE  NextRecents(h, S, Since(R, cp), V, T) = Since(NextRecents(h, S, R, V, T), cp)
<1>1. Signed(h, S, Since(R, cp)) = Since(Signed(h, S, R), cp)
  <2> DEFINE Q == Shifted(S, R, h.number)
  <2>1. Shifted(S, Since(R, cp), h.number) = Since(Q, cp)
    BY ShiftedSince
  <2>2. Put(Since(Q, cp), h.number, h.signer) = Since(Put(Q, h.number, h.signer), cp)
    BY PutSince
  <2> QED BY <2>1, <2>2, Zenon DEF Signed
<1>2. Shifted(S \ {h.coinbase}, Since(Signed(h, S, R), cp), h.number)
        = Since(Shifted(S \ {h.coinbase}, Signed(h, S, R), h.number), cp)
  BY ShiftedSince
<1> QED BY <1>1, <1>2, Zenon DEF NextRecents

\* It accepts every block that the others accept.
LEMMA SinceApplies ==
  ASSUME NEW s, SnapshotInv(s), NEW l, SnapshotInv(l), NEW cp,
         l.number = s.number, l.signers = s.signers, l.recents = Since(s.recents, cp),
         NEW h, Applies(s, h)
  PROVE  Applies(l, h)
<1> DEFINE Q == Shifted(s.signers, s.recents, h.number)
<1>1. h.number = s.number + 1 /\ h.signer \in s.signers /\ h.signer \notin Range(Q)
  BY AppliesFields, Zenon
<1>2. Shifted(l.signers, l.recents, h.number) = Since(Q, cp)
  BY ShiftedSince
<1>3. Range(Since(Q, cp)) \subseteq Range(Q)
  <2> HIDE DEF Q
  <2>1. Since(Q, cp) = [n \in {i \in DOMAIN Q : i > cp} |-> Q[n]]
    BY Zenon DEF Since, Restrict
  <2> QED BY <2>1 DEF Range
<1>4. h.signer \notin Range(Shifted(l.signers, l.recents, h.number))
  BY <1>1, <1>2, <1>3, Zenon
<1> QED BY <1>1, <1>4, AppliesFields, Zenon

-----------------------------------------------------------------------------
(* The chain.                                                              *)

\* What Seal and Import require of the block h that they write.
Written(h) ==
  /\ HasSnapshot /\ head.number < MaxNumber /\ snap.signers # {}
  /\ HeaderOK(h) /\ h.number = snap.number + 1 /\ h.extra \in SUBSET Accounts
  /\ h.signer \in snap.signers
  /\ h.number % Epoch = 0 => h.coinbase = Zero /\ h.extra = snap.signers
  /\ Applies(snap, h) \/ h.number < limit(snap)

\* A signer writes such a block, and it has a snapshot.
LEMMA SealWrites ==
  ASSUME CliqueInv, NEW signer \in Accounts, Seal(signer)
  PROVE  \E h : Written(h) /\ Applies(snap, h) /\ Extend(h)
<1>1. HasSnapshot /\ head.number < MaxNumber /\ snap.signers # {}
  BY Zenon DEF Seal
<1>2. PICK h \in Prepare(snap, signer) : SealPermits(snap, h) /\ Extend(h)
  BY Zenon DEF Seal
<1>3. SnapshotInv(snap) /\ snap.signers \in SUBSET Accounts /\ snap.number <= MaxNumber
  <2>1. SnapshotInv(snap) /\ HeadInv
    BY Zenon DEF CliqueInv
  <2>2. head.number \in 0..MaxNumber
    BY <2>1 DEF HeadInv
  <2>3. snap.number <= MaxNumber
    BY <1>1, <2>2 DEF HasSnapshot
  <2> QED BY <2>1, <2>3, InvParts, Zenon
<1>4. /\ HeaderOK(h) /\ h.number = snap.number + 1
      /\ h.number % Epoch = 0 => h.coinbase = Zero
      /\ h.extra = IF h.number % Epoch = 0 THEN snap.signers ELSE {}
  BY <1>3, Prepared
<1>5. Applies(snap, h)
  BY <1>1, <1>2, <1>3, SealedAccepted, Zenon
<1>6. h.signer \in snap.signers
  BY <1>5, Zenon DEF Applies
<1>7. h.extra \in SUBSET Accounts
  BY <1>3, <1>4
<1>8. Written(h)
  BY <1>1, <1>4, <1>5, <1>6, <1>7, Zenon DEF Written
<1> QED BY <1>2, <1>5, <1>8, Zenon

\* A block that passes the verification has a snapshot from the limit on.
LEMMA ImportWrites ==
  ASSUME CliqueInv, NEW h \in Headers(snap), Import(h)
  PROVE  Written(h) /\ Extend(h)
<1>1. HasSnapshot /\ head.number < MaxNumber /\ snap.signers # {} /\ verifyHeader(snap, h) /\ Extend(h)
  BY Zenon DEF Import
<1>2. SnapshotInv(snap) /\ snap.signers \in SUBSET Accounts /\ snap.number \in Nat
  <2>1. SnapshotInv(snap)
    BY Zenon DEF CliqueInv
  <2> QED BY <2>1, InvParts, Zenon
<1>3. snap.number < MaxNumber /\ MaxNumber \in Nat
  BY <1>1, CliqueAssumption, Zenon DEF HasSnapshot
<1>4. /\ h.number = snap.number + 1 /\ h.signer \in Accounts /\ h.coinbase \in Accounts \cup {Zero}
      /\ h.authorize \in BOOLEAN /\ h.extra \in {{}, snap.signers}
      /\ h.coinbase = Zero => ~ h.authorize
  BY DEF Headers
<1>5. HeaderOK(h)
  <2>1. h.number \in Nat
    BY <1>2, <1>4
  <2> QED BY <1>4, <2>1, Zenon DEF HeaderOK
<1>6. h.number % Epoch = 0 => h.coinbase = Zero /\ h.extra = snap.signers
  BY <1>1, Zenon DEF verifyHeader
<1>7. verifySeal(snap, h)
  BY <1>1, Zenon DEF verifyHeader
<1>8. h.signer \in snap.signers
  BY <1>7, Zenon DEF verifySeal
<1>9. h.extra \in SUBSET Accounts
  BY <1>2, <1>4
<1>10. Applies(snap, h) \/ h.number < limit(snap)
  <2>1. h.number <= MaxNumber + 1
    BY <1>2, <1>3, <1>4
  <2>2. limit(snap) \in Nat /\ h.number \in Nat
    BY <1>2, <1>4, WindowNumbers
  <2>3. h.number >= limit(snap) => OutOfWindow(snap, h)
    BY <1>1, <1>2, <1>4, <1>7, <2>1, VerifyIsOutOfWindow, Zenon
  <2>4. h.number >= limit(snap) => Applies(snap, h)
    BY <1>2, <1>4, <1>8, <2>3, OutOfWindowApplies, Zenon
  <2>5. h.number < limit(snap) \/ h.number >= limit(snap)
    BY <2>2
  <2> QED BY <2>4, <2>5, Zenon
<1> QED BY <1>1, <1>4, <1>5, <1>6, <1>8, <1>9, <1>10, Zenon DEF Written


\* A node without a snapshot applies no block.
LEMMA NothingApplies ==
  ASSUME NEW h
  PROVE  ~ Applies(NoSnapshot, h)
<1>1. NoSnapshot.signers = {}
  BY DEF NoSnapshot, newSnapshot
<1> QED BY <1>1, Zenon DEF Applies

\* The node that trusted a checkpoint applies the block as the others do.
LEMMA LightFollows ==
  ASSUME CliqueInv, NEW h, Written(h), Applies(snap, h), light # NoSnapshot
  PROVE  LET s == apply(snap, h)
             l == apply(light, h)
         IN  /\ Applies(light, h)
             /\ l.number = s.number /\ l.signers = s.signers
             /\ l.votes = s.votes /\ l.tally = s.tally
             /\ \E checkpoint \in {n \in 1..s.number : n % Epoch = 0} :
                  l.recents = Since(s.recents, checkpoint)
<1> DEFINE s == apply(snap, h)
           l == apply(light, h)
<1>1. SnapshotInv(snap) /\ SnapshotInv(light) /\ CheckpointFollows
  BY Zenon DEF CliqueInv
<1>2. HasSnapshot /\ h.number = snap.number + 1 /\ snap.number \in Nat
  BY <1>1, InvParts, Zenon DEF Written
<1>3. /\ light.number = snap.number /\ light.signers = snap.signers
      /\ light.votes = snap.votes /\ light.tally = snap.tally
  BY <1>1, <1>2, Zenon DEF CheckpointFollows
<1>4. PICK cp \in {n \in 1..snap.number : n % Epoch = 0} : light.recents = Since(snap.recents, cp)
  BY <1>1, <1>2, Zenon DEF CheckpointFollows, Since
<1>5. Applies(light, h)
  BY <1>1, <1>3, <1>4, SinceApplies, Zenon
<1>6. /\ s.number = h.number
      /\ s.signers = NextSigners(h, snap.signers, snap.votes, snap.tally)
      /\ s.recents = NextRecents(h, snap.signers, snap.recents, snap.votes, snap.tally)
      /\ s.votes = NextVotes(h, snap.signers, snap.votes, snap.tally)
      /\ s.tally = NextTally(h, snap.signers, snap.votes, snap.tally)
  BY <1>1, ApplyParts, Zenon
<1>7. /\ l.number = h.number
      /\ l.signers = NextSigners(h, light.signers, light.votes, light.tally)
      /\ l.recents = NextRecents(h, light.signers, light.recents, light.votes, light.tally)
      /\ l.votes = NextVotes(h, light.signers, light.votes, light.tally)
      /\ l.tally = NextTally(h, light.signers, light.votes, light.tally)
  BY <1>1, ApplyParts, Zenon
<1> HIDE DEF s, l
<1>8. h.number > cp /\ cp \in {n \in 1..s.number : n % Epoch = 0}
  BY <1>2, <1>4, <1>6
<1>9. NextRecents(h, snap.signers, Since(snap.recents, cp), snap.votes, snap.tally)
        = Since(NextRecents(h, snap.signers, snap.recents, snap.votes, snap.tally), cp)
  BY <1>8, NextRecentsSince
<1>10. l.recents = Since(s.recents, cp)
  BY <1>3, <1>4, <1>6, <1>7, <1>9, Zenon
<1>11. l.number = s.number /\ l.signers = s.signers /\ l.votes = s.votes /\ l.tally = s.tally
  BY <1>3, <1>6, <1>7, Zenon
<1> QED BY <1>5, <1>8, <1>10, <1>11, Zenon DEF s, l

\* Writing a block keeps the head and the snapshots,
LEMMA ExtendKeepsSnapshots ==
  ASSUME CliqueInv, NEW h, Written(h), Extend(h)
  PROVE  HeadInv' /\ SnapshotInv(snap') /\ SnapshotInv(light')
<1>1. SnapshotInv(snap) /\ SnapshotInv(light) /\ HeadInv
  BY Zenon DEF CliqueInv
<1>2. /\ HasSnapshot /\ head.number < MaxNumber
      /\ HeaderOK(h) /\ h.number = snap.number + 1 /\ h.extra \in SUBSET Accounts
  BY Zenon DEF Written
<1>3. /\ head' = [number |-> h.number, extra |-> h.extra]
      /\ snap' = IF Applies(snap, h) THEN apply(snap, h) ELSE snap
      /\ light' = IF Applies(light, h) THEN apply(light, h) ELSE light
      /\ panicked' = panicked
  BY Zenon DEF Extend
<1>4. SnapshotInv(snap')
  BY <1>1, <1>2, <1>3, ApplyKeeps, Zenon
<1>5. SnapshotInv(light')
  BY <1>1, <1>2, <1>3, ApplyKeeps, Zenon
<1>6. /\ head.number \in 0..MaxNumber /\ panicked \in BOOLEAN
      /\ snap.number = head.number /\ light.number <= head.number
  BY <1>1, <1>2 DEF HeadInv, HasSnapshot
<1>7. snap.number \in Nat /\ light.number \in Nat /\ MaxNumber \in Nat
  BY <1>1, InvParts, CliqueAssumption, Zenon
<1>8. head' \in [number : 0..MaxNumber, extra : SUBSET Accounts] /\ head'.number = h.number
  BY <1>2, <1>3, <1>6, <1>7
<1>9. apply(snap, h).number = h.number /\ apply(light, h).number = h.number
  BY <1>1, ApplyParts, Zenon
<1>10. snap'.number <= head'.number
  BY <1>2, <1>3, <1>7, <1>8, <1>9
<1>11. light'.number <= head'.number
  BY <1>2, <1>3, <1>6, <1>7, <1>8, <1>9
<1> QED BY <1>3, <1>4, <1>5, <1>6, <1>8, <1>10, <1>11, Zenon DEF HeadInv

\* and what is said of a head that has a snapshot.
LEMMA ExtendKeepsCheckpoints ==
  ASSUME CliqueInv, NEW h, Written(h), Extend(h)
  PROVE  CheckpointInv' /\ CheckpointFollows' /\ VerifiedIsApplied'
<1>1. SnapshotInv(snap) /\ SnapshotInv(light)
  BY Zenon DEF CliqueInv
<1>2. /\ HeaderOK(h) /\ h.number = snap.number + 1
      /\ h.number % Epoch = 0 => h.coinbase = Zero /\ h.extra = snap.signers
      /\ Applies(snap, h) \/ h.number < limit(snap)
  BY Zenon DEF Written
<1>3. /\ head' = [number |-> h.number, extra |-> h.extra]
      /\ snap' = IF Applies(snap, h) THEN apply(snap, h) ELSE snap
      /\ light' = IF Applies(light, h) THEN apply(light, h) ELSE light
  BY Zenon DEF Extend
<1>4. head'.number = h.number /\ head'.extra = h.extra
  BY <1>3
<1>5. /\ snap.number \in Nat /\ snap.signers \in SUBSET Accounts /\ Tallied(snap.votes, snap.tally)
  BY <1>1, InvParts, Zenon
<1>6. CASE ~ Applies(snap, h)
  <2>1. snap' = snap /\ h.number < limit(snap)
    BY <1>2, <1>3, <1>6, Zenon
  <2>2. ~ HasSnapshot'
    BY <1>2, <1>4, <1>5, <2>1 DEF HasSnapshot
  <2>3. head'.number < limit(snap')
    BY <1>4, <2>1, Zenon
  <2> QED BY <2>2, <2>3, Zenon DEF CheckpointInv, CheckpointFollows, VerifiedIsApplied
<1>7. CASE Applies(snap, h)
  <2>1. snap' = apply(snap, h)
    BY <1>3, <1>7, Zenon
  <2>2. /\ snap'.number = h.number
        /\ snap'.signers = NextSigners(h, snap.signers, snap.votes, snap.tally)
        /\ snap'.votes = NextVotes(h, snap.signers, snap.votes, snap.tally)
        /\ snap'.tally = NextTally(h, snap.signers, snap.votes, snap.tally)
    BY <1>1, <2>1, ApplyParts, Zenon
  <2>3. VerifiedIsApplied'
    BY <1>4, <2>2, Zenon DEF VerifiedIsApplied, HasSnapshot
  <2>4. CheckpointInv'
    <3>1. SUFFICES ASSUME h.number % Epoch = 0
                   PROVE  head'.extra = snap'.signers /\ snap'.votes = {} /\ snap'.tally = <<>>
      BY <1>4, Zenon DEF CheckpointInv
    <3>2. ASSUME NEW S \in SUBSET Accounts, NEW V, NEW T, Tallied(V, T)
          PROVE  NextSigners(h, S, V, T) = S /\ NextVotes(h, S, V, T) = {} /\ NextTally(h, S, V, T) = <<>>
      <4>1. HeaderOK(h) /\ h.coinbase = Zero
        BY <1>2, <3>1, Zenon
      <4> QED BY <3>1, <3>2, <4>1, CheckpointApply, Zenon
    <3>3. /\ NextSigners(h, snap.signers, snap.votes, snap.tally) = snap.signers
          /\ NextVotes(h, snap.signers, snap.votes, snap.tally) = {}
          /\ NextTally(h, snap.signers, snap.votes, snap.tally) = <<>>
      BY <1>5, <3>2, Zenon
    <3> QED BY <1>2, <1>4, <2>2, <3>1, <3>3, Zenon
  <2>5. CheckpointFollows'
    <3>1. CASE light = NoSnapshot
      <4>1. light' = NoSnapshot
        BY <1>3, <3>1, NothingApplies, Zenon
      <4>2. (light = NoSnapshot)'
        BY <4>1, Zenon DEF NoSnapshot, newSnapshot
      <4> QED BY <4>2, Zenon DEF CheckpointFollows
    <3>2. CASE light # NoSnapshot
      <4>1. LET s == apply(snap, h)
                l == apply(light, h)
            IN  /\ Applies(light, h)
                /\ l.number = s.number /\ l.signers = s.signers
                /\ l.votes = s.votes /\ l.tally = s.tally
                /\ \E checkpoint \in {n \in 1..s.number : n % Epoch = 0} :
                     l.recents = Since(s.recents, checkpoint)
        BY <1>7, <3>2, LightFollows, Zenon
      <4>2. light' = apply(light, h)
        BY <1>3, <4>1, Zenon
      <4>3. /\ light'.number = snap'.number /\ light'.signers = snap'.signers
            /\ light'.votes = snap'.votes /\ light'.tally = snap'.tally
            /\ \E checkpoint \in {n \in 1..snap'.number : n % Epoch = 0} :
                 light'.recents = Since(snap'.recents, checkpoint)
        BY <2>1, <4>1, <4>2, Zenon
      <4> QED BY <4>3, Zenon DEF CheckpointFollows, Since
    <3> QED BY <3>1, <3>2, Zenon
  <2> QED BY <2>3, <2>4, <2>5, Zenon
<1> QED BY <1>6, <1>7, Zenon


\* A new snapshot has no votes and no window.
LEMMA NewSnapshotInv ==
  ASSUME NEW n \in Nat, NEW S \in SUBSET Accounts
  PROVE  SnapshotInv(Snapshot(n, S, <<>>, {}, <<>>))
<1>1. Window(n, S, <<>>)
  BY DEF Window
<1>2. Meaningful(S, {})
  BY DEF Meaningful
<1> QED BY <1>1, <1>2, EmptyTallied, InvFrom

\* A node that trusts the list in the head has the snapshot of the others,
\* without the recent signers.
LEMMA TrustKeeps ==
  ASSUME CliqueInv, TrustCheckpoint
  PROVE  CliqueInv'
<1>1. /\ light' = newSnapshot(head.number, head.extra)
      /\ head' = head /\ snap' = snap /\ panicked' = panicked
      /\ head.number % Epoch = 0 /\ head.number > 0
  BY Zenon DEF TrustCheckpoint
<1>2. SnapshotInv(snap) /\ HeadInv /\ CheckpointInv /\ VerifiedIsApplied
  BY Zenon DEF CliqueInv
<1>3. head.number \in Nat /\ head.extra \in SUBSET Accounts /\ head.number \in 0..MaxNumber
  BY <1>2 DEF HeadInv
<1>4. /\ light'.number = head.number /\ light'.signers = head.extra /\ light'.recents = <<>>
      /\ light'.votes = {} /\ light'.tally = <<>>
      /\ light' = Snapshot(head.number, head.extra, <<>>, {}, <<>>)
  BY <1>1 DEF newSnapshot, Snapshot
<1>5. SnapshotInv(light')
  BY <1>3, <1>4, NewSnapshotInv, Zenon
<1>6. HeadInv'
  <2>1. light'.number <= head.number
    BY <1>3, <1>4
  <2> QED BY <1>1, <1>2, <2>1, Zenon DEF HeadInv
<1>7. CheckpointInv' /\ VerifiedIsApplied'
  BY <1>1, <1>2, Zenon DEF CheckpointInv, VerifiedIsApplied, HasSnapshot, limit
<1>8. CheckpointFollows'
  <2>1. SUFFICES ASSUME head.number = snap.number
                 PROVE  /\ light'.number = snap.number /\ light'.signers = snap.signers
                        /\ light'.votes = snap.votes /\ light'.tally = snap.tally
                        /\ \E checkpoint \in {n \in 1..snap.number : n % Epoch = 0} :
                             light'.recents = Since(snap.recents, checkpoint)
    BY <1>1, Zenon DEF CheckpointFollows, HasSnapshot, Since
  <2>2. head.extra = snap.signers /\ snap.votes = {} /\ snap.tally = <<>>
    BY <1>1, <1>2, <2>1, Zenon DEF CheckpointInv, HasSnapshot
  <2>3. snap.number \in {n \in 1..snap.number : n % Epoch = 0}
    BY <1>1, <1>3, <2>1
  <2>4. Since(snap.recents, snap.number) = <<>>
    <3>1. Window(snap.number, snap.signers, snap.recents) /\ snap.number \in Nat
      BY <1>2, InvParts, Zenon
    <3>2. DOMAIN snap.recents \subseteq 1..snap.number
      BY <3>1, Zenon DEF Window
    <3>3. {n \in DOMAIN snap.recents : n > snap.number} = {}
      BY <3>1, <3>2
    <3> QED BY <3>3 DEF Since, Restrict
  <2> QED BY <1>4, <2>1, <2>2, <2>3, <2>4, Zenon
<1> QED BY <1>1, <1>2, <1>5, <1>6, <1>7, <1>8, Zenon DEF CliqueInv

\* The genesis block.
LEMMA InitEstablishes == Init => CliqueInv
<1> SUFFICES ASSUME Init PROVE CliqueInv
  OBVIOUS
<1>1. PICK g \in Geneses : head = [number |-> 0, extra |-> g] /\ snap = newSnapshot(0, g)
  BY Zenon DEF Init
<1>2. light = NoSnapshot /\ panicked = FALSE
  BY Zenon DEF Init
<1>3. g \in SUBSET Accounts /\ {} \in SUBSET Accounts /\ MaxNumber \in Nat
  BY CliqueAssumption
<1>4. /\ snap = Snapshot(0, g, <<>>, {}, <<>>) /\ light = Snapshot(0, {}, <<>>, {}, <<>>)
      /\ head.number = 0 /\ head.extra = g
  BY <1>1, <1>2 DEF newSnapshot, NoSnapshot, Snapshot
<1>5. /\ snap.number = 0 /\ snap.signers = g /\ snap.votes = {} /\ snap.tally = <<>>
      /\ light.number = 0
  BY <1>4 DEF Snapshot
<1>6. 0 \in Nat
  OBVIOUS
<1>7. SnapshotInv(snap)
  BY <1>3, <1>4, <1>6, NewSnapshotInv, Zenon
<1>8. SnapshotInv(light)
  BY <1>3, <1>4, <1>6, NewSnapshotInv, Zenon
<1>9. HeadInv
  <2>1. head \in [number : 0..MaxNumber, extra : SUBSET Accounts]
    BY <1>1, <1>3
  <2>2. 0 <= 0
    OBVIOUS
  <2> QED BY <1>2, <1>4, <1>5, <2>1, <2>2, Zenon DEF HeadInv
<1>10. CheckpointInv /\ CheckpointFollows /\ VerifiedIsApplied
  BY <1>2, <1>4, <1>5, Zenon DEF CheckpointInv, CheckpointFollows, VerifiedIsApplied, HasSnapshot
<1> QED BY <1>7, <1>8, <1>9, <1>10, Zenon DEF CliqueInv

\* Every step keeps the invariant.
LEMMA NextKeeps == CliqueInv /\ [Next]_vars => CliqueInv'
<1> SUFFICES ASSUME CliqueInv, [Next]_vars PROVE CliqueInv'
  OBVIOUS
<1>1. ASSUME NEW h, Written(h), Extend(h) PROVE CliqueInv'
  BY <1>1, ExtendKeepsSnapshots, ExtendKeepsCheckpoints, Zenon DEF CliqueInv
<1>2. CASE \E signer \in Accounts : Seal(signer)
  BY <1>1, <1>2, SealWrites, Zenon
<1>3. CASE \E h \in Headers(snap) : Import(h)
  BY <1>1, <1>3, ImportWrites, Zenon
<1>4. CASE PrepareWithoutSigners
  <2>1. head' = head /\ snap' = snap /\ light' = light /\ panicked' = TRUE
    BY <1>4, Zenon DEF PrepareWithoutSigners
  <2>2. HeadInv'
    BY <2>1, Zenon DEF CliqueInv, HeadInv
  <2> QED BY <2>1, <2>2, Zenon DEF CliqueInv, CheckpointInv, CheckpointFollows, VerifiedIsApplied,
                                   HasSnapshot, limit
<1>5. CASE TrustCheckpoint
  BY <1>5, TrustKeeps, Zenon
<1>6. CASE UNCHANGED vars
  <2>1. head' = head /\ snap' = snap /\ light' = light /\ panicked' = panicked
    BY <1>6, Zenon DEF vars
  <2> QED BY <2>1, Zenon DEF CliqueInv, HeadInv, CheckpointInv, CheckpointFollows, VerifiedIsApplied,
                             HasSnapshot, limit
<1> QED BY <1>2, <1>3, <1>4, <1>5, <1>6, Zenon DEF Next


-----------------------------------------------------------------------------
(* What follows from the invariant.                                        *)

\* CliqueInv holds of every reachable state: the tally counts the votes, the
\* window is shorter than the limit, and the checkpoint blocks carry the list.
THEOREM CliqueInvariant == Spec => []CliqueInv
<1>1. Init => CliqueInv
  BY InitEstablishes
<1>2. CliqueInv /\ [Next]_vars => CliqueInv'
  BY NextKeeps
<1> QED BY <1>1, <1>2, PTL DEF Spec

\* The shape of a snapshot whose number is within the bound.
LEMMA SnapshotShape ==
  ASSUME NEW s, SnapshotInv(s), s.number <= MaxNumber
  PROVE  IsSnapshot(s)
<1> DEFINE V == s.votes
           T == s.tally
<1>1. /\ s.number \in Nat /\ s.signers \in SUBSET Accounts
      /\ Window(s.number, s.signers, s.recents) /\ Tallied(V, T)
  BY InvParts, Zenon
<1>2. s.number \in 0..MaxNumber
  BY <1>1, CliqueAssumption
<1>3. DOMAIN s.recents \subseteq 1..s.number /\ s.recents \in [DOMAIN s.recents -> Accounts]
  BY <1>1, Zenon DEF Window
<1>4. Range(s.recents) \subseteq Accounts
  BY <1>3 DEF Range
<1> HIDE DEF V, T
<1>5. /\ V \subseteq Votes /\ T \in [{v.address : v \in V} -> Tally]
      /\ \A a \in DOMAIN T : T[a].votes = Cardinality(On(V, a))
      /\ \A v, w \in V : (v.signer = w.signer /\ v.address = w.address) => v = w
  BY <1>1, Zenon DEF Tallied
<1>6. DOMAIN T = {v.address : v \in V}
  BY <1>5
<1>7. DOMAIN T \subseteq Accounts
  BY <1>5, <1>6 DEF Votes
<1>8. ASSUME NEW a \in DOMAIN T
      PROVE  T[a] \in [authorize : BOOLEAN, votes : 1..Cardinality(Accounts)]
  <2>1. T[a] \in Tally
    BY <1>5, <1>6
  <2>2. T[a].votes <= Cardinality(Accounts)
    <3>1. Cardinality(On(V, a)) <= Cardinality(Accounts)
      BY <1>5, VotesHaveSigners, Zenon
    <3> QED BY <1>5, <3>1, Zenon
  <2>3. Cardinality(Accounts) \in Nat
    BY CliqueAssumption, FS_CardinalityType
  <2> QED BY <2>1, <2>2, <2>3 DEF Tally
<1> QED BY <1>1, <1>2, <1>3, <1>4, <1>5, <1>7, <1>8, Zenon DEF IsSnapshot, Votes, V, T

\* The shape of the state, on both nodes: what uncast and apply leave of the
\* tally and the votes is well formed, and a tally that exists is not zero.
THEOREM WellFormed == Spec => []TypeOK
<1>1. CliqueInv => TypeOK
  <2> SUFFICES ASSUME CliqueInv PROVE TypeOK
    OBVIOUS
  <2>1. HeadInv /\ SnapshotInv(snap) /\ SnapshotInv(light)
    BY Zenon DEF CliqueInv
  <2>2. snap.number \in Nat /\ light.number \in Nat /\ MaxNumber \in Nat
    BY <2>1, InvParts, CliqueAssumption, Zenon
  <2>3. head.number \in 0..MaxNumber /\ snap.number <= head.number /\ light.number <= head.number
    BY <2>1 DEF HeadInv
  <2>4. snap.number <= MaxNumber /\ light.number <= MaxNumber
    BY <2>2, <2>3
  <2>5. IsSnapshot(snap) /\ IsSnapshot(light)
    BY <2>1, <2>4, SnapshotShape, Zenon
  <2> QED BY <2>1, <2>5, Zenon DEF TypeOK, HeadInv
<1> QED BY <1>1, CliqueInvariant, PTL

\* The cached tally is the count of the pending votes, and every pending vote
\* is by a signer, meaningful, and the only one of its signer on its account.
THEOREM TallyCountsVotes == Spec => []VotesAreConsistent
<1>1. CliqueInv => VotesAreConsistent
  <2> SUFFICES ASSUME CliqueInv PROVE VotesAreConsistent
    OBVIOUS
  <2> DEFINE V == snap.votes
             T == snap.tally
  <2>1. Tallied(V, T) /\ Meaningful(snap.signers, V)
    <3>1. SnapshotInv(snap)
      BY Zenon DEF CliqueInv
    <3> QED BY <3>1, InvParts, Zenon
  <2>2. /\ T \in [{v.address : v \in V} -> Tally]
        /\ \A v \in V : T[v.address].authorize = v.authorize
        /\ \A a \in DOMAIN T : T[a].votes = Cardinality(On(V, a))
        /\ \A v, w \in V : (v.signer = w.signer /\ v.address = w.address) => v = w
    BY <2>1, Zenon DEF Tallied
  <2>3. DOMAIN T = {v.address : v \in V}
    BY <2>2
  <2>4. \A a \in DOMAIN T : T[a].votes = Cardinality(VotesOn(snap, a))
    BY <2>2, Zenon DEF On, VotesOn
  <2>5. ASSUME NEW v \in V
        PROVE  /\ v.signer \in snap.signers
               /\ validVote(snap, v.address, v.authorize)
               /\ T[v.address].authorize = v.authorize
               /\ \A w \in VotesBy(snap, v.signer) : w.address = v.address => w = v
    <3>1. v.signer \in snap.signers /\ (v.address \in snap.signers) # v.authorize
      BY <2>1, Zenon DEF Meaningful
    <3>2. ASSUME NEW w \in VotesBy(snap, v.signer), w.address = v.address PROVE w = v
      <4>1. w \in V /\ w.signer = v.signer
        BY <3>2, Zenon DEF VotesBy
      <4> QED BY <2>2, <3>2, <4>1, Zenon
    <3> QED BY <2>2, <3>1, <3>2 DEF validVote
  <2> QED BY <2>3, <2>4, <2>5, Zenon DEF VotesAreConsistent
<1> QED BY <1>1, CliqueInvariant, PTL

\* Seal, verifySeal and apply agree on the recent signers of every snapshot,
\* and always leave some signer who may seal.
THEOREM ChainGoesOn == Spec => []SealedIsAccepted
<1>1. CliqueInv => SealedIsAccepted
  <2> SUFFICES ASSUME CliqueInv, HasSnapshot, snap.signers # {}
               PROVE  LET sealed == {h \in UNION {Prepare(snap, signer) : signer \in Accounts} :
                                       SealPermits(snap, h)}
                      IN  sealed # {} /\ \A h \in sealed : verifyHeader(snap, h) /\ Applies(snap, h)
    BY Zenon DEF SealedIsAccepted
  <2>1. SnapshotInv(snap) /\ snap.number <= MaxNumber
    <3>1. SnapshotInv(snap) /\ HeadInv
      BY Zenon DEF CliqueInv
    <3>2. head.number \in 0..MaxNumber
      BY <3>1 DEF HeadInv
    <3> QED BY <3>1, <3>2 DEF HasSnapshot
  <2>2. \E signer \in Accounts : \E h \in Prepare(snap, signer) : SealPermits(snap, h)
    BY <2>1, SomethingSealed, Zenon
  <2>3. \A signer \in Accounts : \A h \in Prepare(snap, signer) :
          SealPermits(snap, h) => verifyHeader(snap, h) /\ Applies(snap, h)
    BY <2>1, SealedAccepted, Zenon
  <2> QED BY <2>2, <2>3, Zenon
<1> QED BY <1>1, CliqueInvariant, PTL

\* From the limit on, a block that verifySeal lets pass is one that apply
\* accepts: only below it can the chain end in a block without a snapshot.
THEOREM VerifiedBlocksApply == Spec => []VerifiedIsApplied
<1>1. CliqueInv => VerifiedIsApplied
  BY Zenon DEF CliqueInv
<1> QED BY <1>1, CliqueInvariant, PTL

\* A node that trusted a checkpoint has the signers, the votes and the tally of
\* the others, and the recent signers since that checkpoint.
THEOREM CheckpointsSuffice == Spec => []CheckpointFollows
<1>1. CliqueInv => CheckpointFollows
  BY Zenon DEF CliqueInv
<1> QED BY <1>1, CliqueInvariant, PTL


\* The list changes by one account, on which more than half of the signers have
\* a vote: those pending before the block, and the vote of the block itself.
LEMMA MajorityChanges ==
  ASSUME NEW S \in SUBSET Accounts, NEW V, NEW T, Tallied(V, T), Meaningful(S, V),
         NEW h, HeaderOK(h), h.signer \in S, NextSigners(h, S, V, T) # S
  PROVE  LET A == NextSigners(h, S, V, T)
             voters == {v.signer : v \in On(V, h.coinbase)} \cup {h.signer}
         IN  /\ h.coinbase \in Accounts
             /\ (A \ S) \cup (S \ A) = {h.coinbase}
             /\ voters \subseteq S /\ 2 * Cardinality(voters) > Cardinality(S)
<1> DEFINE c == h.coinbase
           A == NextSigners(h, S, V, T)
           P == PollVotes(h, S, V)
           Q == PollTally(h, S, V, T)
           W == {v.signer : v \in On(P, c)}
           voters == {v.signer : v \in On(V, c)} \cup {h.signer}
<1>1. Tallied(P, Q) /\ Meaningful(S, P) /\ P \subseteq V \cup {NewVote(h)}
  BY PollTallied, Zenon
<1>2. /\ c \in DOMAIN Q /\ Q[c].votes > Cardinality(S) \div 2
      /\ A = IF Q[c].authorize THEN S \cup {c} ELSE S \ {c}
  BY Zenon DEF NextSigners, Passed, Grants
<1> HIDE DEF P, Q, A, c
<1>3. c \in Accounts /\ Q[c].authorize \in BOOLEAN /\ (Q[c].authorize <=> c \notin S)
  BY <1>1, <1>2, PassedVote, Zenon
<1>4. (A \ S) \cup (S \ A) = {c}
  BY <1>2, <1>3
<1>5. /\ P \in SUBSET Votes /\ Q[c].votes = Cardinality(On(P, c))
      /\ \A v, w \in P : (v.signer = w.signer /\ v.address = w.address) => v = w
  BY <1>1, <1>2, Zenon DEF Tallied
<1>6. Cardinality(On(P, c)) = Cardinality(W) /\ Cardinality(On(P, c)) \in Nat
  BY <1>5, VotesHaveSigners, Zenon
<1>7. NewVote(h).signer = h.signer
  BY DEF NewVote
<1>8. W \subseteq voters
  BY <1>1, <1>7, Zenon DEF On
<1>9. voters \in SUBSET S
  BY Zenon DEF On, Meaningful
<1> HIDE DEF W, voters
<1>10. IsFiniteSet(voters) /\ Cardinality(voters) \in Nat
  <2>1. voters \in SUBSET Accounts
    BY <1>9
  <2> QED BY <2>1, SignersFinite, Zenon
<1>11. Cardinality(W) <= Cardinality(voters)
  BY <1>8, <1>10, FS_Subset
<1>12. /\ Cardinality(S) \in Nat /\ Cardinality(S) \div 2 \in Nat
       /\ Cardinality(S) <= 2 * (Cardinality(S) \div 2) + 1
  BY SignersFinite
<1>13. 2 * Cardinality(voters) > Cardinality(S)
  BY <1>2, <1>5, <1>6, <1>10, <1>11, <1>12
<1> QED BY <1>3, <1>4, <1>9, <1>13, Zenon DEF A, c, voters

\* The signers change by one account at a time, and only when more than half
\* of them ask for it in votes that are pending since the last checkpoint.
THEOREM SignersChangeByMajority == Spec => ChangesHaveMajority
<1> DEFINE Majority ==
      snap.signers' # snap.signers =>
        \E a \in Accounts :
          LET voters == {v.signer : v \in VotesOn(snap, a)} \cup {snap.recents'[snap.number']}
          IN  /\ (snap.signers' \ snap.signers) \cup (snap.signers \ snap.signers') = {a}
              /\ voters \subseteq snap.signers
              /\ 2 * Cardinality(voters) > Cardinality(snap.signers)
<1>1. CliqueInv /\ [Next]_vars => [Majority]_vars
  <2> SUFFICES ASSUME CliqueInv, Next, snap'.signers # snap.signers PROVE Majority
    BY Zenon
  <2> SUFFICES \E a \in Accounts :
                 LET voters == {v.signer : v \in On(snap.votes, a)} \cup {snap'.recents[snap'.number]}
                 IN  /\ (snap'.signers \ snap.signers) \cup (snap.signers \ snap'.signers) = {a}
                     /\ voters \subseteq snap.signers
                     /\ 2 * Cardinality(voters) > Cardinality(snap.signers)
    BY Zenon DEF VotesOn, On
  <2>1. PICK h : Written(h) /\ Extend(h)
    <3>1. CASE \E signer \in Accounts : Seal(signer)
      BY <3>1, SealWrites, Zenon
    <3>2. CASE \E h \in Headers(snap) : Import(h)
      BY <3>2, ImportWrites, Zenon
    <3>3. snap' # snap
      BY Zenon
    <3>4. ~ PrepareWithoutSigners /\ ~ TrustCheckpoint
      BY <3>3, Zenon DEF PrepareWithoutSigners, TrustCheckpoint
    <3> QED BY <3>1, <3>2, <3>4, Zenon DEF Next
  <2>2. snap' = apply(snap, h) /\ Applies(snap, h)
    BY <2>1, Zenon DEF Extend
  <2>3. SnapshotInv(snap)
    BY Zenon DEF CliqueInv
  <2>4. /\ snap'.number = h.number
        /\ snap'.signers = NextSigners(h, snap.signers, snap.votes, snap.tally)
        /\ snap'.recents = NextRecents(h, snap.signers, snap.recents, snap.votes, snap.tally)
    BY <2>2, <2>3, ApplyParts, Zenon
  <2>5. /\ snap.number \in Nat /\ snap.signers \in SUBSET Accounts
        /\ Window(snap.number, snap.signers, snap.recents)
        /\ Tallied(snap.votes, snap.tally) /\ Meaningful(snap.signers, snap.votes)
    BY <2>3, InvParts, Zenon
  <2>6. HeaderOK(h) /\ h.signer \in snap.signers /\ h.number = snap.number + 1
    BY <2>1, Zenon DEF Written
  <2>7. snap'.recents[snap'.number] = h.signer
    <3>1. NextRecents(h, snap.signers, snap.recents, snap.votes, snap.tally)[h.number] = h.signer
      BY <2>5, <2>6, NextWindow
    <3> QED BY <2>4, <3>1, Zenon
  <2>8. NextSigners(h, snap.signers, snap.votes, snap.tally) # snap.signers
    BY <2>4, Zenon
  <2>9. LET A == NextSigners(h, snap.signers, snap.votes, snap.tally)
            voters == {v.signer : v \in On(snap.votes, h.coinbase)} \cup {h.signer}
        IN  /\ h.coinbase \in Accounts
            /\ (A \ snap.signers) \cup (snap.signers \ A) = {h.coinbase}
            /\ voters \subseteq snap.signers /\ 2 * Cardinality(voters) > Cardinality(snap.signers)
    BY <2>5, <2>6, <2>8, MajorityChanges, Zenon

  <2> QED BY <2>4, <2>7, <2>9, Zenon
<1> QED BY <1>1, CliqueInvariant, PTL DEF Spec, ChangesHaveMajority
=============================================================================
