------------------------------ MODULE Proposer ------------------------------
(***************************************************************************)
(* How a primary makes headers: the proposer task (primary/src/proposer.rs *)
(* under NetworkModel::PartiallySynchronous), the certificate aggregators  *)
(* of the Synchronizer that hand it parents, the StateHandler that tells   *)
(* it which of its headers were committed, and their restart.              *)
(*                                                                         *)
(* A certificate is its origin, its round and whether it votes: whether    *)
(* its parents hold the leader of the previous round.  Timers elapse at    *)
(* any time, so the lengths max_delay and min_delay choose do not matter;  *)
(* the resend timer is in module Voting.                                   *)
(***************************************************************************)
EXTENDS Committee, Integers, Sequences

CONSTANTS
  Me,              \* name, the authority of this primary
  LeaderOf,        \* committee.leader, by round
  Digests,         \* the batches its workers report
  BatchThreshold,  \* header_num_of_batches_threshold
  MaxBatches,      \* max_header_num_of_batches
  ParentsCapacity, \* of the channel tx_parents
  QuietStart,      \* whether a restarted primary recovers its parents before a
                   \* timer runs out, a batch is reported or a certificate is
                   \* accepted; nothing in the code waits for that, it is a
                   \* matter of min_header_delay and of the load
  MaxRound,        \* bound on the rounds of certificates
  MaxHeader,       \* bound on the rounds of own headers
  MaxCertified,    \* bound on the own headers that get a certificate
  MaxRestarts,     \* bound on the crashes of the primary
  LastRestart      \* bound on the round of its certificates when it crashes

ASSUME ProposerAssumption ==
  /\ Me \in Authorities
  /\ BatchThreshold \in Nat \ {0} /\ MaxBatches \in Nat \ {0}
  /\ ParentsCapacity \in Nat \ {0}
  /\ QuietStart \in BOOLEAN
  /\ {MaxRound, MaxHeader, MaxCertified, MaxRestarts, LastRestart} \subseteq Nat
  /\ MaxHeader <= MaxRound
  /\ LeaderOf \in [0..(MaxRound + 1) -> Authorities]

Certificates == [origin : Authorities, round : 1..MaxRound, votes : BOOLEAN]
Genesis == [origin : Authorities, round : {0}, votes : {FALSE}]
NoHeader == [round |-> 0, payload |-> <<>>, parents |-> {}]

\* The two tasks that feed the aggregators: whoever accepts a certificate does
\* so under the lock of the Synchronizer; the recovery task takes no lock.
Feeders == {"accept", "recovery"}

VARIABLES
  store,            \* CertificateStore (durable)
  certified,        \* own headers that have a certificate
  aggregators,      \* by round: the origins used, the certificates held
  recovering,       \* what the recovery task still has to append
  outbox,           \* of each feeder: the parents it took out and must send
  tx_parents,       \* the channel to the proposer
  commit_round, sequenced, \* consensus: last commit, the own headers in commits
  committed_own_headers, \* the channel from the StateHandler
  \* The proposer
  pc,               \* in "select", about to propose ("top"), or to "send"
  round, last_parents, digests, proposed_headers, advance,
  last_leader,      \* the round of that certificate, 0 if there is none
  elapsed,          \* of the two timers: "none", "min" or "max" delay
  reported,         \* digests acknowledged to the workers since the start
  last_proposed,    \* ProposerStore (durable)
  sent,             \* headers the core was ever given
  restarts

feed == <<aggregators, recovering, outbox, tx_parents>>
consensus == <<commit_round, sequenced, committed_own_headers>>
proposer == <<round, last_parents, digests, proposed_headers, advance, last_leader>>
vars == <<store, certified, feed, consensus, pc, proposer, elapsed, reported, last_proposed,
          sent, restarts>>

Origins(certs) == {c.origin : c \in certs}
InRound(certs, r) == {c \in certs : c.round = r}
PayloadOf(h) == Range(h.payload)

NoAggregators == [r \in 1..MaxRound |-> [used |-> {}, certificates |-> {}]]
NoOutbox == [f \in Feeders |-> <<>>]

Init ==
  /\ store = {} /\ certified = {}
  /\ aggregators = NoAggregators /\ recovering = {} /\ outbox = NoOutbox /\ tx_parents = <<>>
  /\ commit_round = 0 /\ sequenced = {} /\ committed_own_headers = <<>>
  /\ pc = "select" /\ round = 0 /\ last_parents = Genesis
  /\ digests = <<>> /\ proposed_headers = {} /\ advance = TRUE /\ last_leader = 0
  /\ elapsed = "none" /\ reported = {}
  /\ last_proposed = NoHeader /\ sent = {} /\ restarts = 0

-----------------------------------------------------------------------------
(* Parents.                                                                 *)

\* Mutant: certificates below the quorum are handed over too.
appendMutant(f, c) ==
  LET aggregator == aggregators[c.round]
  IN IF c.origin \in aggregator.used THEN UNCHANGED <<aggregators, outbox>>
     ELSE /\ aggregators' = [aggregators EXCEPT ![c.round].used = @ \cup {c.origin}]
          /\ outbox' = [outbox EXCEPT ![f] = <<[parents |-> {c}, round |-> c.round, from |-> f]>>]

\* Mutant: the quorum itself is not enough.
appendStrictMutant(f, c) ==
  LET aggregator == aggregators[c.round]
      used == aggregator.used \cup {c.origin}
      held == aggregator.certificates \cup {c}
  IN IF c.origin \in aggregator.used THEN UNCHANGED <<aggregators, outbox>>
     ELSE IF StakeOf(used) > quorum_threshold
          THEN /\ aggregators' = [aggregators EXCEPT ![c.round] = [used |-> used, certificates |-> {}]]
               /\ outbox' = [outbox EXCEPT ![f] =
                                <<[parents |-> held, round |-> c.round, from |-> f]>>]
          ELSE /\ aggregators' = [aggregators EXCEPT ![c.round] = [used |-> used, certificates |-> held]]
               /\ UNCHANGED outbox

\* CertificatesAggregator::append: one certificate an origin; from the quorum
\* on, whatever is held is taken out for the proposer.
append(f, c) ==
  LET aggregator == aggregators[c.round]
      used == aggregator.used \cup {c.origin}
      held == aggregator.certificates \cup {c}
  IN IF c.origin \in aggregator.used THEN UNCHANGED <<aggregators, outbox>>
     ELSE IF IsQuorum(used)
          THEN /\ aggregators' = [aggregators EXCEPT ![c.round] = [used |-> used, certificates |-> {}]]
               /\ outbox' = [outbox EXCEPT ![f] =
                                <<[parents |-> held, round |-> c.round, from |-> f]>>]
          ELSE /\ aggregators' = [aggregators EXCEPT ![c.round] = [used |-> used, certificates |-> held]]
               /\ UNCHANGED outbox

\* What an author may have built its certificate on: a quorum of the previous
\* round, with its leader if it votes and without it if it does not.
WellFounded(c, parents) ==
  /\ c.round > 1 => IsQuorum(parents)
  /\ c.votes <=> (c.round > 1 /\ c.round % 2 = 1 /\ LeaderOf[c.round - 1] \in parents)

\* The recovery task is through and the proposer has read what it sent.
Recovered ==
  /\ recovering = {} /\ outbox["recovery"] = <<>>
  /\ \A m \in Range(tx_parents) : m.from # "recovery"

Disturb == QuietStart => Recovered

\* A certificate is accepted: written to the store, then appended.  An own one
\* was formed for a header the core was given and that peers could vote for.
accept_certificate(c) ==
  /\ Disturb /\ outbox["accept"] = <<>>
  /\ c.origin \notin Origins(InRound(store, c.round))
  /\ c.origin = Me => Cardinality(certified) < MaxCertified
  /\ LET known == IF c.round = 1 THEN Authorities ELSE Origins(InRound(store, c.round - 1))
     IN IF c.origin = Me
        THEN \E h \in sent : /\ h.round = c.round /\ IsQuorum(h.parents)
                             /\ WellFounded(c, h.parents)
                             /\ certified' = certified \cup {h}
        ELSE /\ \E parents \in SUBSET known : WellFounded(c, parents)
             /\ UNCHANGED certified
  /\ store' = store \cup {c}
  /\ append("accept", c)
  /\ UNCHANGED <<recovering, tx_parents, consensus, pc, proposer, elapsed, reported,
                 last_proposed, sent, restarts>>

\* The recovery task of Synchronizer::new goes on to its next certificate, one
\* of the newest round that is left; their order within a round is left open.
recover_parents ==
  /\ outbox["recovery"] = <<>>
  /\ \E c \in recovering : /\ \A d \in recovering : d.round <= c.round
                          /\ append("recovery", c)
                          /\ recovering' = recovering \ {c}
  /\ UNCHANGED <<store, certified, tx_parents, consensus, pc, proposer, elapsed, reported,
                 last_proposed, sent, restarts>>

\* tx_parents.send, after the lock of the aggregators is released.
send_parents(f) ==
  /\ outbox[f] # <<>> /\ Len(tx_parents) < ParentsCapacity
  /\ tx_parents' = Append(tx_parents, Head(outbox[f]))
  /\ outbox' = [outbox EXCEPT ![f] = <<>>]
  /\ UNCHANGED <<store, certified, aggregators, recovering, consensus, pc, proposer, elapsed,
                 reported, last_proposed, sent, restarts>>

-----------------------------------------------------------------------------
(* The proposer's loop.                                                     *)

CanPropose ==
  /\ last_parents # {}
  /\ elapsed = "max" \/ ((Len(digests) >= BatchThreshold \/ elapsed = "min") /\ advance)

\* Mutant: a header of the same round is not looked for.
create_new_headerMutant(r) ==
  LET n == IF Len(digests) < MaxBatches THEN Len(digests) ELSE MaxBatches
      header == [round |-> r, payload |-> SubSeq(digests, 1, n), parents |-> Origins(last_parents)]
  IN /\ last_proposed' = header
     /\ proposed_headers' = proposed_headers \cup {header}
     /\ digests' = SubSeq(digests, n + 1, Len(digests))

\* create_new_header and write_last_proposed, for the new round.
create_new_header(r) ==
  LET n == IF Len(digests) < MaxBatches THEN Len(digests) ELSE MaxBatches
      header == [round |-> r, payload |-> SubSeq(digests, 1, n), parents |-> Origins(last_parents)]
  IN IF last_proposed.round = r
     THEN UNCHANGED <<last_proposed, proposed_headers, digests>>
     ELSE /\ last_proposed' = header
          /\ proposed_headers' = proposed_headers \cup {header}
          /\ digests' = SubSeq(digests, n + 1, Len(digests))

\* What the top of the loop does after a branch of the select.
Top == pc' = IF (CanPropose /\ round < MaxHeader)' THEN "top" ELSE "select"

\* The top of the loop, reached from a branch or because a timer ran out: the
\* next round, its header written to the store.
propose ==
  /\ pc \in {"top", "select"} /\ CanPropose /\ round < MaxHeader
  /\ round' = round + 1
  /\ create_new_header(round + 1)
  /\ last_parents' = {}
  /\ pc' = "send"
  /\ UNCHANGED <<store, certified, feed, consensus, advance, last_leader, elapsed, reported, sent,
                 restarts>>

\* make_header hands the header to the core; the timers start again.
send_header ==
  /\ pc = "send"
  /\ sent' = sent \cup {last_proposed}
  /\ elapsed' = "none"
  /\ pc' = "select"
  /\ UNCHANGED <<store, certified, feed, consensus, proposer, reported, last_proposed, restarts>>

\* The two timers run out, at any point of the loop.  They are always reset
\* together, and after max_delay the other one does not matter.
min_delay_elapses ==
  /\ Disturb /\ elapsed = "none"
  /\ elapsed' = "min"
  /\ UNCHANGED <<store, certified, feed, consensus, pc, proposer, reported, last_proposed, sent,
                 restarts>>

max_delay_elapses ==
  /\ Disturb /\ elapsed # "max"
  /\ elapsed' = "max"
  /\ UNCHANGED <<store, certified, feed, consensus, pc, proposer, reported, last_proposed, sent,
                 restarts>>

\* A worker reports a batch; the digest is queued, then acknowledged.
our_digest(d) ==
  /\ pc = "select" /\ Disturb
  /\ d \notin reported /\ \A h \in sent : d \notin PayloadOf(h)
  /\ digests' = Append(digests, d)
  /\ reported' = reported \cup {d}
  /\ UNCHANGED <<store, certified, feed, consensus, round, last_parents, proposed_headers,
                 advance, last_leader, elapsed, last_proposed, sent, restarts>>
  /\ Top

\* The leader of even round r among its parents.
update_leader(parents, r) == LeaderOf[r] \in Origins(parents)

\* Odd round r: f + 1 votes for the last leader, or 2f + 1 against it.  A
\* leader of an older round has the vote of nobody.
enough_votes(parents, r) ==
  LET voters == {c \in parents : c.votes /\ last_leader + 1 = c.round}
  IN \/ LeaderOf[r + 1] = Me
     \/ last_leader = 0
     \/ IsValidity(Origins(voters))
     \/ IsQuorum(Origins(parents \ voters))

\* Mutant: the parities are swapped.
readyMutant(parents, r) ==
  IF r % 2 = 1
  THEN /\ advance' = update_leader(parents, r)
       /\ last_leader' = IF update_leader(parents, r) THEN r ELSE 0
  ELSE /\ advance' = enough_votes(parents, r)
       /\ UNCHANGED last_leader

\* ready(), which also notes the leader of an even round.
ready(parents, r) ==
  IF r % 2 = 0
  THEN /\ advance' = update_leader(parents, r)
       /\ last_leader' = IF update_leader(parents, r) THEN r ELSE 0
  ELSE /\ advance' = enough_votes(parents, r)
       /\ UNCHANGED last_leader

\* Parents of a later round make the proposer jump there, those of its own
\* round are added, older ones are ignored.
receive_parents ==
  LET m == Head(tx_parents)
  IN /\ pc = "select" /\ tx_parents # <<>>
     /\ tx_parents' = Tail(tx_parents)
     /\ IF m.round < round
        THEN UNCHANGED <<round, last_parents, advance, last_leader, elapsed>>
        ELSE /\ round' = m.round
             /\ last_parents' = IF m.round > round THEN m.parents ELSE last_parents \cup m.parents
             /\ IF m.round > round THEN elapsed' = "none"
                                   ELSE UNCHANGED elapsed
             /\ ready(last_parents', m.round)
     /\ UNCHANGED <<store, certified, aggregators, recovering, outbox, consensus, digests,
                    proposed_headers, reported, last_proposed, sent, restarts>>
     /\ Top

\* Mutant: the digests of the headers given up are forgotten with them.
RequeuedMutant(headers) == digests

\* Where the digests of the headers are, and their order: by the round of the
\* header, and in it as in the payload.
Slots(headers) == UNION {{h} \X (1..Len(h.payload)) : h \in headers}
Before(s, t) == s[1].round < t[1].round \/ (s[1].round = t[1].round /\ s[2] < t[2])
Rank(slots, t) == Cardinality({s \in slots : Before(s, t)}) + 1

\* The payloads of a set of headers, in the order of their rounds, before the
\* digests already queued.
Requeued(headers) ==
  LET slots == Slots(headers)
      Slot(k) == CHOOSE t \in slots : Rank(slots, t) = k
  IN [k \in 1..Cardinality(slots) |-> Slot(k)[1].payload[Slot(k)[2]]] \o digests

\* Own headers that were committed are forgotten; those more than two rounds
\* behind the commit are given up and their digests go back into the queue.
committed_headers ==
  LET m == Head(committed_own_headers)
      pending == {h \in proposed_headers : h.round \notin m.rounds}
      retransmit == {h \in pending : h.round + 2 < m.commit_round}
  IN /\ pc = "select" /\ committed_own_headers # <<>>
     /\ committed_own_headers' = Tail(committed_own_headers)
     /\ proposed_headers' = pending \ retransmit
     /\ digests' = Requeued(retransmit)
     /\ UNCHANGED <<store, certified, feed, commit_round, sequenced, round, last_parents, advance,
                    last_leader, elapsed, reported, last_proposed, sent, restarts>>
     /\ Top

-----------------------------------------------------------------------------
(* Consensus and crashes.                                                   *)

\* Mutant: every own header up to round r counts as sequenced.
commitMutant(r, own) ==
  /\ r > commit_round /\ r % 2 = 0 /\ InRound(store, r + 1) # {}
  /\ committed_own_headers = <<>>
  /\ commit_round' = r
  /\ sequenced' = sequenced \cup {h \in sent : h.round <= r}
  /\ committed_own_headers' = <<[commit_round |-> r, rounds |-> 1..r]>>
  /\ UNCHANGED <<store, certified, feed, pc, proposer, elapsed, reported, last_proposed, sent,
                 restarts>>

\* The certificate with the support of the leader of even round r is in: the
\* own headers in its history are sequenced, handle_sequenced tells which.
commit(r, own) ==
  /\ r > commit_round /\ r % 2 = 0 /\ InRound(store, r + 1) # {}
  /\ committed_own_headers = <<>>
  /\ own \subseteq {h \in certified \ sequenced : h.round <= r}
  /\ commit_round' = r
  /\ sequenced' = sequenced \cup own
  /\ committed_own_headers' =
       <<[commit_round |-> r, rounds |-> {h.round : h \in own}]>>
  /\ UNCHANGED <<store, certified, feed, pc, proposer, elapsed, reported, last_proposed, sent,
                 restarts>>

\* last_two_rounds_certs: those of the newest round, and of the one before.
LastTwoRounds == {c \in store : \A d \in store : d.round <= c.round + 1}

\* A crash at any point, and the next start.
Restart ==
  /\ restarts < MaxRestarts /\ \A c \in store : c.round <= LastRestart
  /\ restarts' = restarts + 1
  /\ aggregators' = NoAggregators /\ outbox' = NoOutbox /\ tx_parents' = <<>>
  /\ recovering' = LastTwoRounds
  /\ committed_own_headers' = <<>>
  /\ pc' = "select" /\ round' = 0 /\ last_parents' = Genesis
  /\ digests' = <<>> /\ proposed_headers' = {} /\ advance' = TRUE /\ last_leader' = 0
  /\ elapsed' = "none" /\ reported' = {}
  /\ UNCHANGED <<store, certified, commit_round, sequenced, last_proposed, sent>>

Loop ==
  \/ propose \/ send_header
  \/ max_delay_elapses \/ min_delay_elapses
  \/ receive_parents \/ committed_headers

Next ==
  \/ \E c \in Certificates : accept_certificate(c)
  \/ recover_parents
  \/ \E f \in Feeders : send_parents(f)
  \/ Loop
  \/ \E d \in Digests : our_digest(d)
  \/ \E r \in 1..(MaxRound - 1), own \in SUBSET (certified \ sequenced) : commit(r, own)
  \/ Restart

Spec == Init /\ [][Next]_vars

\* The runtime polls the two feeders and the proposer, select! picks among the
\* branches that are ready at random, and time passes.
Fairness ==
  /\ WF_vars(recover_parents) /\ \A f \in Feeders : WF_vars(send_parents(f))
  /\ WF_vars(propose) /\ WF_vars(send_header)
  /\ WF_vars(receive_parents) /\ WF_vars(committed_headers)
  /\ WF_vars(max_delay_elapses)

FairSpec == Spec /\ Fairness

-----------------------------------------------------------------------------
\* The shape of the proposer's fields, its channels and its stores.
TypeOK ==
  /\ store \subseteq Certificates
  /\ certified \subseteq sent /\ \A h \in sent \cup proposed_headers \cup {last_proposed} :
                              /\ h.round \in 0..MaxRound /\ PayloadOf(h) \subseteq Digests
                              /\ h.parents \subseteq Authorities
  /\ \A r \in 1..MaxRound : /\ aggregators[r].used \subseteq Authorities
                            /\ aggregators[r].certificates \subseteq InRound(store, r)
  /\ \A m \in Range(tx_parents) : m.round \in 1..MaxRound /\ m.parents \subseteq InRound(store, m.round)
  /\ pc \in {"top", "send", "select"}
  /\ round \in 0..MaxRound /\ last_leader \in 0..MaxRound /\ commit_round \in 0..MaxRound
  /\ advance \in BOOLEAN /\ elapsed \in {"none", "min", "max"}
  /\ Range(digests) \subseteq Digests /\ reported \subseteq Digests /\ sequenced \subseteq certified
  /\ restarts \in 0..MaxRestarts

\* "the method ensures we are protected against equivocation": the core is
\* never given two headers of one round, crashes included, if the primary is
\* left alone until it has recovered.
NoEquivocation ==
  \A g, h \in sent : g.round = h.round => g = h

\* "We propose a new header when we have a quorum of parents": the parents of
\* a header are a quorum of the previous round, although the aggregator hands
\* over the first quorum and then every certificate alone.  This needs the
\* recovery task to be through before certificates are accepted: the order of
\* the messages of the two tasks is not that of their appends.
ParentsAreQuorum ==
  \A h \in sent : IsQuorum(h.parents)

\* "if the primary does not fail it will attempt to send the digest (and
\* re-send if necessary) until it is sequenced": an acknowledged digest is
\* queued, in a header that is tracked, or sequenced.  A tracked header is
\* dropped by its round, which is sound while no round has two headers.
NoDigestLost ==
  reported \subseteq Range(digests) \cup UNION {PayloadOf(h) : h \in proposed_headers \cup sequenced}

\* The leader of an even round gets the vote of the next header, unless the
\* proposer timed out on it; the flag `advance` outlives rounds and jumps.
LeaderOrTimeout ==
  [][(/\ last_proposed' # last_proposed /\ elapsed # "max" /\ round % 2 = 0)
       => LeaderOf[round] \in last_proposed'.parents]_vars

\* Whenever a quorum of a round is in the store, the proposer gets beyond that
\* round, whatever it was doing and however it was restarted: no parents are
\* lost on their way to it.
CatchesUp ==
  []<>(\A r \in 1..(MaxHeader - 1) : IsQuorum(Origins(InRound(store, r))) => round > r)
=============================================================================
