----------------------------- MODULE Bullshark ------------------------------
(***************************************************************************)
(* Bullshark over the certified DAG, on several validators, with garbage   *)
(* collection and crash recovery (sui/narwhal/consensus/src).              *)
(*                                                                         *)
(* A certificate is named <<author, round>>: certification leaves at most  *)
(* one per author and round (module Voting).  The DAG the committee will   *)
(* ever certify is chosen in Init; each validator is handed its            *)
(* certificates by its Synchronizer, in any causal order (module           *)
(* Synchronizer), over a bounded channel.                                  *)
(***************************************************************************)
EXTENDS Committee, Sequences, FiniteSetsExt

CONSTANTS
  Validators,    \* the validators whose consensus is followed
  Dags,          \* functions from certificates to the set of their parents
  LeaderOf,      \* committee.leader(round), for the even rounds
  Digest,        \* certificate digests, as numbers in their order
  GcDepth,       \* gc_depth of the parameters
  ChannelCapacity, \* of tx_new_certificates
  MaxDeliveries, \* how often racing tasks may hand over one certificate
  MaxRestarts    \* bound on the crashes, over all validators

Author(c) == c[1]
Round(c) == c[2]

\* What certification guarantees: a quorum of parents of the previous round.
ASSUME DagsAssumption ==
  \A d \in Dags : \A c \in DOMAIN d :
    /\ c \in Authorities \X (Nat \ {0})
    /\ IF Round(c) = 1 THEN d[c] = {}
       ELSE /\ d[c] \subseteq {p \in DOMAIN d : Round(p) + 1 = Round(c)}
            /\ IsQuorum({Author(p) : p \in d[c]})

\* A committee is finite, and digests identify certificates.
ASSUME BullsharkAssumption ==
  /\ IsFiniteSet(Authorities)
  /\ \A d \in Dags : \A c, e \in DOMAIN d : Digest[c] \in Nat /\ (Digest[c] = Digest[e] => c = e)
  /\ GcDepth \in Nat /\ ChannelCapacity \in Nat /\ MaxDeliveries \in Nat /\ MaxRestarts \in Nat

VARIABLES
  parents,        \* the certified DAG
  \* ConsensusState of each validator
  last_committed, \* last committed round by authority; 0 stands for no entry
  dag,            \* the certificates of ConsensusState::dag
  to_commit,      \* leaders process_certificate still has to commit, oldest first
  channel,        \* tx_new_certificates
  gc_round,       \* gc_round of the validator's Synchronizer
  dropped,        \* certificates its Synchronizer refused as too old
  \* What survives a crash
  cert_store,     \* CertificateStore
  stored_last_committed, committed_sub_dags, \* ConsensusStore
  restarts

volatile == <<last_committed, dag, to_commit, channel, gc_round, dropped>>
durable == <<cert_store, stored_last_committed, committed_sub_dags>>
vars == <<parents, volatile, durable, restarts>>

Certs == DOMAIN parents

\* Mutant: wraps below zero.
saturating_subMutant(a, b) == a - b

saturating_sub(a, b) == IF a >= b THEN a - b ELSE 0

-----------------------------------------------------------------------------
(* ConsensusState                                                           *)

\* last_committed_round is the maximum of last_committed, on both the paths
\* that set it (update and new_from_store).
last_committed_round(lc) == Max({lc[a] : a \in Authorities} \cup {0})

\* The state of a validator as the algorithms take it; a certificate carries its
\* parents.
StateOf(v) == [lc |-> last_committed[v], dag |-> dag[v], parents |-> parents]

try_insert(s, c) ==
  IF Round(c) <= s.lc[Author(c)] THEN s
  ELSE [lc |-> s.lc, dag |-> s.dag \cup {c}, parents |-> s.parents]

\* update for every certificate of a committed sequence: the order does not
\* matter, since last_committed and last_committed_round are maxima and the dag
\* only shrinks.
update(s, certificates) ==
  LET lc == [a \in Authorities |->
               Max({s.lc[a]} \cup {Round(c) : c \in {d \in certificates : Author(d) = a}})]
  IN [lc |-> lc,
      dag |-> {x \in s.dag : /\ Round(x) + GcDepth >= last_committed_round(lc)
                             /\ \A c \in certificates : Author(c) = Author(x) => Round(x) > Round(c)},
      parents |-> s.parents]

\* Mutant: restores only what is above the last committed round.
construct_dag_from_cert_storeMutant(certificates, lc) ==
  {c \in certificates : Round(c) > last_committed_round(lc) + 1}

\* min_committed_round ranges over the entries that exist.
construct_dag_from_cert_store(certificates, lc) ==
  LET entries == {lc[a] : a \in {b \in Authorities : lc[b] > 0}}
      min_committed_round == IF entries = {} THEN 0 ELSE Min(entries)
  IN {c \in certificates : Round(c) >= min_committed_round + 1 /\ Round(c) > lc[Author(c)]}

-----------------------------------------------------------------------------
(* Ordering (utils.rs)                                                      *)

leader(r) == <<LeaderOf[r], r>>

Layer(s, r) == {c \in s.dag : Round(c) = r}

\* The certificates that c reaches through the dag: at k those of the round k
\* below its own.
Reached(s, c, n) ==
  LET reached[k \in 0..n] ==
        IF k = 0 THEN {c}
        ELSE {x \in Layer(s, Round(c) - k) : \E y \in reached[k - 1] : x \in s.parents[y]}
  IN reached

linked(s, c, prev) == prev \in Reached(s, c, Round(c) - Round(prev))[Round(c) - Round(prev)]

\* The number of rounds from leader.round() - 2 down to last_committed_round + 2.
EarlierRounds(s, c) == saturating_sub(Round(c), last_committed_round(s.lc) + 2) \div 2

\* The leaders to commit after k turns of the loop, oldest first.
Chain(s, c) ==
  LET chain[k \in 0..EarlierRounds(s, c)] ==
        IF k = 0 THEN <<c>>
        ELSE LET prev == leader(Round(c) - 2 * k)
             IN IF prev \in s.dag /\ linked(s, Head(chain[k - 1]), prev)
                THEN <<prev>> \o chain[k - 1] ELSE chain[k - 1]
  IN chain

\* Mutant: the newest leader stays first.
order_leadersMutant(s, c) ==
  LET chain[k \in 0..EarlierRounds(s, c)] ==
        IF k = 0 THEN <<c>>
        ELSE LET prev == leader(Round(c) - 2 * k)
             IN IF prev \in s.dag /\ linked(s, chain[k - 1][Len(chain[k - 1])], prev)
                THEN Append(chain[k - 1], prev) ELSE chain[k - 1]
  IN chain[EarlierRounds(s, c)]

\* In the order the caller walks them in.
order_leaders(s, c) == Chain(s, c)[EarlierRounds(s, c)]

\* A set of certificates from the greatest digest to the least.
Descending(S) ==
  [k \in 1..Cardinality(S) |->
     CHOOSE x \in S : Cardinality({y \in S : Digest[y] > Digest[x]}) = k - 1]

\* One turn of the depth-first search: pop a certificate, push those of its
\* parents, in digest order, that are in the dag and neither pushed already
\* nor committed or overtaken for their author.  The top of the stack is first.
DfsStep(s, d) ==
  IF d.buffer = <<>> THEN d
  ELSE LET x == Head(d.buffer)
           next == {p \in s.parents[x] : /\ p \in s.dag /\ p \notin d.already_ordered
                                         /\ Round(p) > s.lc[Author(p)]}
       IN [buffer |-> Descending(next) \o Tail(d.buffer),
           already_ordered |-> d.already_ordered \cup next,
           ordered |-> Append(d.ordered, x)]

\* The search from c, turn by turn; each turn takes another certificate.
Search(s, c) ==
  LET search[n \in 0..Cardinality(s.dag)] ==
        IF n = 0 THEN [buffer |-> <<c>>, already_ordered |-> {}, ordered |-> <<>>]
        ELSE DfsStep(s, search[n - 1])
  IN search

\* Mutant: the order of the search is kept.
SortByRoundMutant(seq, kept) ==
  [k \in 1..Cardinality(kept) |->
     seq[CHOOSE i \in kept : Cardinality({j \in kept : j < i}) = k - 1]]

\* The stable sort by round, of what is at the kept places: each goes where the
\* number of those before it says.
SortByRound(seq, kept) ==
  LET Before(j, i) == Round(seq[j]) < Round(seq[i]) \/ (Round(seq[j]) = Round(seq[i]) /\ j < i)
  IN [k \in 1..Cardinality(kept) |->
        seq[CHOOSE i \in kept : Cardinality({j \in kept : Before(j, i)}) = k - 1]]

order_dag(s, c) ==
  LET ordered == Search(s, c)[Cardinality(s.dag)].ordered
  IN SortByRound(ordered, {i \in 1..Len(ordered) :
                             Round(ordered[i]) + GcDepth >= last_committed_round(s.lc)})

\* The stake of the certificates of the next round that refer to the leader.
Support(s, c) == {Author(x) : x \in {y \in Layer(s, Round(c) + 1) : c \in s.parents[y]}}

\* Mutant: the leader needs no support.
electUnsupportedMutant(s, c) ==
  LET r == Round(c) - 1
  IN IF c \notin s.dag \/ r % 2 # 0 \/ r < 2 \/ r <= last_committed_round(s.lc) \/ leader(r) \notin s.dag
     THEN <<>>
     ELSE order_leaders(s, leader(r))

\* Mutant: the leader needs a quorum of support.
electQuorumMutant(s, c) ==
  LET r == Round(c) - 1
  IN IF c \notin s.dag \/ r % 2 # 0 \/ r < 2 \/ r <= last_committed_round(s.lc) \/ leader(r) \notin s.dag
        \/ ~ IsQuorum(Support(s, leader(r)))
     THEN <<>>
     ELSE order_leaders(s, leader(r))

\* process_certificate up to the election: the leaders to commit, oldest first.
elect(s, c) ==
  LET r == Round(c) - 1
  IN IF \/ c \notin s.dag
        \/ r % 2 # 0 \/ r < 2
        \/ r <= last_committed_round(s.lc)
        \/ leader(r) \notin s.dag
        \/ ~ IsValidity(Support(s, leader(r)))
     THEN <<>>
     ELSE order_leaders(s, leader(r))

-----------------------------------------------------------------------------
Init ==
  /\ parents \in Dags
  /\ last_committed = [v \in Validators |-> [a \in Authorities |-> 0]]
  /\ dag = [v \in Validators |-> {}]
  /\ to_commit = [v \in Validators |-> <<>>]
  /\ channel = [v \in Validators |-> <<>>]
  /\ gc_round = [v \in Validators |-> 0]
  /\ dropped = [v \in Validators |-> {}]
  /\ cert_store = [v \in Validators |-> {}]
  /\ stored_last_committed = [v \in Validators |-> [a \in Authorities |-> 0]]
  /\ committed_sub_dags = [v \in Validators |-> <<>>]
  /\ restarts = 0

\* The Synchronizer accepts a certificate whose parents are stored or garbage
\* collected, also one it sanitized before gc_round moved; two tasks that race
\* may both hand it over.
AcceptCertificate(v, c) ==
  /\ Len(channel[v]) < ChannelCapacity
  /\ c \notin cert_store[v] \cup dropped[v]
  /\ Round(c) <= gc_round[v] + 1 \/ parents[c] \subseteq cert_store[v]
  /\ cert_store' = [cert_store EXCEPT ![v] = @ \cup {c}]
  /\ \E n \in 1..MaxDeliveries :
       channel' = [channel EXCEPT ![v] = @ \o [i \in 1..n |-> c]]
  /\ UNCHANGED <<parents, last_committed, dag, to_commit, gc_round, dropped,
                 stored_last_committed, committed_sub_dags, restarts>>

\* sanitize_certificate: too old.
DropCertificate(v, c) ==
  /\ c \notin cert_store[v] \cup dropped[v]
  /\ Round(c) <= gc_round[v]
  /\ dropped' = [dropped EXCEPT ![v] = @ \cup {c}]
  /\ UNCHANGED <<parents, last_committed, dag, to_commit, channel, gc_round, durable, restarts>>

\* Consensus takes the next certificate and runs process_certificate up to the
\* loop over the leaders.
ProcessCertificate(v) ==
  /\ to_commit[v] = <<>> /\ channel[v] # <<>>
  /\ LET c == Head(channel[v])
         s == try_insert(StateOf(v), c)
     IN /\ dag' = [dag EXCEPT ![v] = s.dag]
        /\ to_commit' = [to_commit EXCEPT ![v] =
             IF Round(c) <= s.lc[Author(c)] THEN <<>> ELSE elect(s, c)]
  /\ channel' = [channel EXCEPT ![v] = Tail(@)]
  /\ UNCHANGED <<parents, last_committed, gc_round, dropped, durable, restarts>>

\* One turn of the loop over the leaders, up to write_consensus_state.
CommitLeader(v) ==
  /\ to_commit[v] # <<>>
  /\ LET l == Head(to_commit[v])
         sequence == order_dag(StateOf(v), l)
         s == update(StateOf(v), Range(sequence))
     IN /\ last_committed' = [last_committed EXCEPT ![v] = s.lc]
        /\ dag' = [dag EXCEPT ![v] = s.dag]
        /\ stored_last_committed' = [stored_last_committed EXCEPT ![v] = s.lc]
        /\ committed_sub_dags' = [committed_sub_dags EXCEPT ![v] =
             Append(@, [leader |-> l, certificates |-> sequence])]
  /\ to_commit' = [to_commit EXCEPT ![v] = Tail(@)]
  /\ UNCHANGED <<parents, channel, gc_round, dropped, cert_store, restarts>>

\* Consensus announced its last commit; the Synchronizer's GC task follows.
UpdateGcRound(v) ==
  /\ to_commit[v] = <<>>
  /\ gc_round[v] # saturating_sub(last_committed_round(last_committed[v]), GcDepth)
  /\ gc_round' = [gc_round EXCEPT ![v] =
                    saturating_sub(last_committed_round(last_committed[v]), GcDepth)]
  /\ UNCHANGED <<parents, last_committed, dag, to_commit, channel, dropped, durable, restarts>>

\* Mutant: last_committed is not recovered.
RestartMutant(v) ==
  /\ restarts < MaxRestarts
  /\ restarts' = restarts + 1
  /\ last_committed' = [last_committed EXCEPT ![v] = [a \in Authorities |-> 0]]
  /\ dag' = [dag EXCEPT ![v] = cert_store[v]]
  /\ to_commit' = [to_commit EXCEPT ![v] = <<>>]
  /\ channel' = [channel EXCEPT ![v] = <<>>]
  /\ gc_round' = [gc_round EXCEPT ![v] = 0]
  /\ dropped' = [dropped EXCEPT ![v] = {}]
  /\ UNCHANGED <<parents, durable>>

\* A crash at any point, also between two leaders of one commit, and the
\* recovery of ConsensusState::new_from_store.
Restart(v) ==
  /\ restarts < MaxRestarts
  /\ restarts' = restarts + 1
  /\ last_committed' = [last_committed EXCEPT ![v] = stored_last_committed[v]]
  /\ dag' = [dag EXCEPT ![v] =
               construct_dag_from_cert_store(cert_store[v], stored_last_committed[v])]
  /\ to_commit' = [to_commit EXCEPT ![v] = <<>>]
  /\ channel' = [channel EXCEPT ![v] = <<>>]
  /\ gc_round' = [gc_round EXCEPT ![v] = 0]
  /\ dropped' = [dropped EXCEPT ![v] = {}]
  /\ UNCHANGED <<parents, durable>>

Next ==
  \E v \in Validators :
    \/ \E c \in Certs : AcceptCertificate(v, c) \/ DropCertificate(v, c)
    \/ ProcessCertificate(v) \/ CommitLeader(v) \/ UpdateGcRound(v) \/ Restart(v)

Spec == Init /\ [][Next]_vars

-----------------------------------------------------------------------------
\* The shape of the consensus state and of its stores.
TypeOK ==
  /\ parents \in Dags
  /\ last_committed \in [Validators -> [Authorities -> Nat]]
  /\ stored_last_committed \in [Validators -> [Authorities -> Nat]]
  /\ dag \in [Validators -> SUBSET Certs] /\ cert_store \in [Validators -> SUBSET Certs]
  /\ dropped \in [Validators -> SUBSET Certs]
  /\ to_commit \in [Validators -> Seq(Certs)] /\ channel \in [Validators -> Seq(Certs)]
  /\ gc_round \in [Validators -> Nat]
  /\ committed_sub_dags \in [Validators -> Seq([leader : Certs, certificates : Seq(Certs)])]
  /\ restarts \in 0..MaxRestarts

\* Two validators commit the same sub-dags in the same order, whatever order
\* their certificates came in: "no skips, no forks".
Agreement ==
  \A v, w \in Validators :
    \A i \in DOMAIN committed_sub_dags[v] \cap DOMAIN committed_sub_dags[w] :
      committed_sub_dags[v][i] = committed_sub_dags[w][i]

\* The places of the commit order, and their order: sub-dag by sub-dag.
Places(sd) == UNION {{i} \X DOMAIN sd[i].certificates : i \in DOMAIN sd}
At(sd, x) == sd[x[1]].certificates[x[2]]
Earlier(x, y) == x[1] < y[1] \/ (x[1] = y[1] /\ x[2] < y[2])

\* last_committed "ensure[s] we don't commit twice the same certificate":
\* neither a second delivery nor a crash makes a certificate commit again.
CommittedOnce ==
  \A v \in Validators : LET sd == committed_sub_dags[v] IN
    \A x, y \in Places(sd) : At(sd, x) = At(sd, y) => x = y

\* A sub-dag ends with its leader and the leaders' rounds are even and grow,
\* also across a crash between two leaders of the same commit.
LeadersAdvance ==
  \A v \in Validators : LET sd == committed_sub_dags[v] IN
    \A i \in DOMAIN sd :
      /\ sd[i].certificates # <<>>
      /\ sd[i].certificates[Len(sd[i].certificates)] = sd[i].leader
      /\ Round(sd[i].leader) % 2 = 0
      /\ i > 1 => Round(sd[i].leader) > Round(sd[i - 1].leader)

\* Within the commit order a certificate follows each of its parents, or a later
\* certificate of the parent's author.
CausalCommit ==
  \A v \in Validators : LET sd == committed_sub_dags[v] IN
    \A x \in Places(sd) : \A p \in parents[At(sd, x)] :
      \E y \in Places(sd) : /\ Earlier(y, x)
                            /\ Author(At(sd, y)) = Author(p) /\ Round(At(sd, y)) >= Round(p)

\* expect("We should have the whole history by now"): when a leader is elected,
\* every round between the last commit and it is present in the dag.
WholeHistory ==
  \A v \in Validators : to_commit[v] # <<>> =>
    \A r \in (last_committed_round(last_committed[v]) + 1)..Round(to_commit[v][Len(to_commit[v])]) :
      Layer(StateOf(v), r) # {}

\* A leader with f+1 support is not left uncommitted: once the channel is
\* drained, no leader above the last commit has the support it needs.
NoSupportedLeaderWaits ==
  \A v \in Validators : (channel[v] = <<>> /\ to_commit[v] = <<>>) =>
    \A c \in dag[v] :
      (/\ Round(c) % 2 = 0 /\ c = leader(Round(c))
       /\ Round(c) > last_committed_round(last_committed[v]))
      => ~ IsValidity(Support(StateOf(v), c))

\* What was committed stays committed: a step extends the durable sequence and
\* never lowers a last committed round, restarts included.
CommitsAreFinal ==
  [][\A v \in Validators :
       /\ \A i \in DOMAIN committed_sub_dags[v] :
            i \in DOMAIN committed_sub_dags'[v] /\ committed_sub_dags'[v][i] = committed_sub_dags[v][i]
       /\ \A a \in Authorities : last_committed'[v][a] >= last_committed[v][a]]_vars
=============================================================================
