------------------------------- MODULE Voting -------------------------------
(***************************************************************************)
(* How a header becomes a certificate: the vote handler of a primary       *)
(* (process_request_vote in primary/src/primary.rs), the proposal task of  *)
(* the author's core (propose_header in core.rs) and the VotesAggregator.  *)
(*                                                                         *)
(* Voters crash and restart at any await point; only vote_digest_store     *)
(* survives.  Requests are retried, so they are duplicated, and they are   *)
(* answered out of order; answers get lost.  Byzantine authorities propose *)
(* and sign what they like.  A correct author proposes one header a round, *)
(* in increasing rounds: its proposer does not restart in this module.     *)
(***************************************************************************)
EXTENDS Committee

CONSTANTS
  Byzantine,   \* the authorities that do not follow the protocol
  Headers,     \* the headers that may be proposed: author, round and body,
               \* the rest of what the digest covers (payload, parents, time)
  ActiveSets,  \* which authorities propose in a behaviour: authors are
               \* independent of each other, so it suffices to follow a few
  MaxRestarts  \* bound on the crashes of voters

Correct == Authorities \ Byzantine

ASSUME FaultAssumption ==
  /\ Byzantine \subseteq Authorities
  /\ 3 * StakeOf(Byzantine) < total_votes

ASSUME HeadersAssumption ==
  /\ \A h \in Headers : h.author \in Authorities /\ h.round \in Nat \ {0}
  /\ MaxRestarts \in Nat

\* No header proposed, or none voted for: every header has a later round.
NoHeader == [round |-> 0]

VARIABLES
  active,       \* the authors of this behaviour
  vote_digest_store, \* of each voter, by author: the header of its VoteInfo (durable)
  inflight,     \* request_vote handlers running, by voter and author
  votes,        \* votes that left their voter: <<voter, header>>
  proposal,     \* what each correct core gathers votes for, or NoHeader
  aggregator,   \* the authorities whose vote its VotesAggregator has used
  certificates, \* headers a certificate was formed for
  restarts

vars == <<active, vote_digest_store, inflight, votes, proposal, aggregator, certificates, restarts>>

Init ==
  /\ active \in ActiveSets
  /\ vote_digest_store = [v \in Correct |-> [a \in Authorities |-> NoHeader]]
  /\ inflight = [v \in Correct |-> [a \in Authorities |-> {}]]
  /\ votes = {}
  /\ proposal = [a \in Correct |-> NoHeader]
  /\ aggregator = [a \in Correct |-> {}]
  /\ certificates = {}
  /\ restarts = 0

-----------------------------------------------------------------------------
(* The author.                                                              *)

\* Core::run on a new header: the earlier proposal is cancelled and a fresh
\* aggregator starts with the author's own vote, which bypasses the store.
propose_header(a, h) ==
  /\ a \in active /\ h.author = a /\ h.round > proposal[a].round
  /\ proposal' = [proposal EXCEPT ![a] = h]
  /\ votes' = votes \cup {<<a, h>>}
  /\ aggregator' = [aggregator EXCEPT ![a] = {a}]
  /\ certificates' = IF IsQuorum({a}) THEN certificates \cup {h} ELSE certificates
  /\ UNCHANGED <<active, vote_digest_store, inflight, restarts>>

\* The resend timer hands the same header to the core again.
resend_header(a) ==
  /\ proposal[a] # NoHeader /\ aggregator[a] # {a}
  /\ aggregator' = [aggregator EXCEPT ![a] = {a}]
  /\ UNCHANGED <<active, vote_digest_store, inflight, votes, proposal, certificates, restarts>>

\* The authorities whose vote for h request_vote can return: it keeps asking
\* until there is an answer, and checks that the vote is for h and signed.
Signed(h) == Byzantine \cup {v \in Authorities : <<v, h>> \in votes}

\* VotesAggregator::append for an answer that arrived: at most one vote per
\* authority, and a certificate when the weight first reaches the quorum.
append_vote(a, v) ==
  LET used == aggregator[a] \cup {v}
  IN /\ proposal[a] # NoHeader
     /\ v \notin aggregator[a] /\ ~ IsQuorum(aggregator[a])
     /\ v \in Signed(proposal[a])
     /\ aggregator' = [aggregator EXCEPT ![a] = used]
     /\ certificates' = IF IsQuorum(used)
                        THEN certificates \cup {proposal[a]}
                        ELSE certificates
     /\ UNCHANGED <<active, vote_digest_store, inflight, votes, proposal, restarts>>

\* A Byzantine author assembles any certificate that Certificate::verify
\* accepts: a quorum of signatures on one header.
ByzantineCertify(h) ==
  /\ h.author \in Byzantine
  /\ IsQuorum(Signed(h))
  /\ certificates' = certificates \cup {h}
  /\ UNCHANGED <<active, vote_digest_store, inflight, votes, proposal, aggregator, restarts>>

-----------------------------------------------------------------------------
(* The voter.                                                               *)

\* Mutant: two requests of a peer at a time.
HasRoomMutant(v, a) == Cardinality(inflight[v][a]) < 2

\* InflightLimitLayer::new(1, ReturnError): one request per peer at a time.
HasRoom(v, a) == inflight[v][a] = {}

\* A request arrives, from the author itself (request.peer_id is checked).
\* A correct author asks for what it proposed; retries repeat the request,
\* and it may arrive after the author has moved on.
receive_request(v, h) ==
  /\ h.author \in active /\ v # h.author
  /\ h.author \in Correct => <<h.author, h>> \in votes
  /\ HasRoom(v, h.author)
  /\ inflight' = [inflight EXCEPT ![v][h.author] = @ \cup {[header |-> h, pc |-> "check"]}]
  /\ UNCHANGED <<active, vote_digest_store, votes, proposal, aggregator, certificates, restarts>>

Leave(v, q) == inflight' = [inflight EXCEPT ![v][q.header.author] = @ \ {q}]

\* Missing parents, a header too old for the voter's round, batches that do
\* not arrive, a time stamp in the future: the handler answers without a vote.
refuse(v, q) ==
  /\ q.pc = "check"
  /\ Leave(v, q)
  /\ UNCHANGED <<active, vote_digest_store, votes, proposal, aggregator, certificates, restarts>>

\* Mutant: the digests are not compared.
MayVoteMutant(last, h) == h.round >= last.round

\* The test on what vote_digest_store.read returned: TooOld, AlreadyVoted.
MayVote(last, h) == h.round > last.round \/ h = last

Advance(v, q, pc) ==
  inflight' = [inflight EXCEPT ![v][q.header.author] = (@ \ {q}) \cup {[q EXCEPT !.pc = pc]}]

\* The read of the store; the write comes after another await.
read_vote_digest(v, q) ==
  /\ q.pc = "check"
  /\ IF MayVote(vote_digest_store[v][q.header.author], q.header)
     THEN Advance(v, q, "write")
     ELSE Leave(v, q)
  /\ UNCHANGED <<active, vote_digest_store, votes, proposal, aggregator, certificates, restarts>>

\* Mutant: the VoteInfo lacks the digest.
write_vote_digestMutant(v, q) ==
  /\ q.pc = "write"
  /\ vote_digest_store' = [vote_digest_store EXCEPT ![v][q.header.author] = [round |-> q.header.round]]
  /\ Advance(v, q, "reply")
  /\ UNCHANGED <<active, votes, proposal, aggregator, certificates, restarts>>

\* sync_write of the VoteInfo.
write_vote_digest(v, q) ==
  /\ q.pc = "write"
  /\ vote_digest_store' = [vote_digest_store EXCEPT ![v][q.header.author] = q.header]
  /\ Advance(v, q, "reply")
  /\ UNCHANGED <<active, votes, proposal, aggregator, certificates, restarts>>

\* The vote is returned.
reply_vote(v, q) ==
  /\ q.pc = "reply"
  /\ votes' = votes \cup {<<v, q.header>>}
  /\ Leave(v, q)
  /\ UNCHANGED <<active, vote_digest_store, proposal, aggregator, certificates, restarts>>

\* Mutant: the VoteInfo was not synced to disk.
restartMutant(v) ==
  /\ v \notin active /\ restarts < MaxRestarts
  /\ restarts' = restarts + 1
  /\ inflight' = [inflight EXCEPT ![v] = [a \in Authorities |-> {}]]
  /\ vote_digest_store' = [vote_digest_store EXCEPT ![v] = [a \in Authorities |-> NoHeader]]
  /\ UNCHANGED <<active, votes, proposal, aggregator, certificates>>

\* A voter crashes: its handlers are gone, its store is not.
restart(v) ==
  /\ v \notin active /\ restarts < MaxRestarts
  /\ restarts' = restarts + 1
  /\ inflight' = [inflight EXCEPT ![v] = [a \in Authorities |-> {}]]
  /\ UNCHANGED <<active, vote_digest_store, votes, proposal, aggregator, certificates>>

VoterStep(v) ==
  \E a \in Authorities : \E q \in inflight[v][a] :
    refuse(v, q) \/ read_vote_digest(v, q) \/ write_vote_digest(v, q) \/ reply_vote(v, q)

Next ==
  \/ \E a \in Correct, h \in Headers : propose_header(a, h)
  \/ \E a \in Correct : resend_header(a)
  \/ \E a \in Correct, v \in Authorities : append_vote(a, v)
  \/ \E h \in Headers : ByzantineCertify(h)
  \/ \E v \in Correct, h \in Headers : receive_request(v, h)
  \/ \E v \in Correct : VoterStep(v)
  \/ \E v \in Correct : restart(v)

Spec == Init /\ [][Next]_vars

-----------------------------------------------------------------------------
Requests == [header : Headers, pc : {"check", "write", "reply"}]

\* The shape of the stores, of the running handlers and of the aggregators.
TypeOK ==
  /\ active \in ActiveSets
  /\ vote_digest_store \in [Correct -> [Authorities -> Headers \cup {NoHeader}]]
  /\ inflight \in [Correct -> [Authorities -> SUBSET Requests]]
  /\ votes \subseteq Authorities \X Headers
  /\ proposal \in [Correct -> Headers \cup {NoHeader}]
  /\ aggregator \in [Correct -> SUBSET Authorities]
  /\ certificates \subseteq Headers
  /\ restarts \in Nat

\* "Make sure we don't vote twice for the same authority in the same
\* epoch/round": concurrent, repeated and interrupted requests never get two
\* headers of one author and round voted for by a correct primary.
VoteOnce ==
  \A v \in Correct : \A x, y \in Headers :
    /\ <<v, x>> \in votes /\ <<v, y>> \in votes
    /\ x.author = y.author /\ x.round = y.round
    => x = y

\* No two certificates share author and round, even when the author is
\* Byzantine: what makes try_insert's CertificateEquivocation unreachable.
CertificateUnique ==
  \A c, d \in certificates :
    (c.author = d.author /\ c.round = d.round) => c = d

\* What left the voter is in its store, or has been superseded by a later
\* round: a crash after the vote cannot make it forget.
VotesRemembered ==
  \A v \in Correct : \A h \in Headers :
    (<<v, h>> \in votes /\ h.author # v) =>
       \/ vote_digest_store[v][h.author].round > h.round
       \/ vote_digest_store[v][h.author] = h
=============================================================================
