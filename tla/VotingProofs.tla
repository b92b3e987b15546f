---------------------------- MODULE VotingProofs ----------------------------
(* A correct primary votes once per author and round, and a round has at     *)
(* most one certificate per author, for every committee whose Byzantine      *)
(* stake is below one third.                                                 *)
EXTENDS Voting, TLAPS

-----------------------------------------------------------------------------
\* The thresholds of config/src/lib.rs: two quorums always overlap in more
\* than the Byzantine stake, so in a correct authority.
LEMMA QuorumsShareCorrect ==
  ASSUME NEW P \in SUBSET Authorities, NEW Q \in SUBSET Authorities,
         IsQuorum(P), IsQuorum(Q)
  PROVE  \E v \in Correct : v \in P /\ v \in Q
<1> DEFINE N == total_votes
           k == (2 * N) \div 3
<1>1. /\ StakeOf(P \cup Q) + StakeOf(P \cap Q) = StakeOf(P) + StakeOf(Q)
      /\ StakeOf(P) \in Nat /\ StakeOf(Q) \in Nat
  BY StakeOfAssumption, ZenonT(30)
<1>2. P \cup Q \in SUBSET Authorities /\ P \cap Q \in SUBSET Authorities
  OBVIOUS
<1>3. StakeOf(P \cup Q) \in Nat /\ StakeOf(P \cap Q) \in Nat /\ N \in Nat /\ StakeOf(P \cup Q) <= N
  BY <1>2, StakeOfAssumption, ZenonT(30) DEF total_votes
<1>4. k \in Nat /\ 2 * N < 3 * k + 3
  <2> HIDE DEF N
  <2> QED BY <1>3
<1>5. StakeOf(P) >= k + 1 /\ StakeOf(Q) >= k + 1
  BY DEF IsQuorum, quorum_threshold
<1>6. 3 * StakeOf(P \cap Q) > N
  <2> HIDE DEF N, k
  <2> QED BY <1>1, <1>3, <1>4, <1>5
<1>7. SUFFICES ASSUME \A v \in Correct : ~ (v \in P /\ v \in Q)
               PROVE  FALSE
  OBVIOUS
<1>8. P \cap Q \subseteq Byzantine
  BY <1>7 DEF Correct
<1>9. StakeOf(P \cap Q) <= StakeOf(Byzantine) /\ StakeOf(Byzantine) \in Nat
  BY <1>2, <1>8, StakeOfAssumption, FaultAssumption, ZenonT(30)
<1>10. 3 * StakeOf(Byzantine) < N
  BY FaultAssumption
<1> QED
  <2> HIDE DEF N
  <2> QED BY <1>3, <1>6, <1>9, <1>10

-----------------------------------------------------------------------------
\* NoHeader is older than every header.
LEMMA HeaderRounds ==
  /\ NoHeader \notin Headers /\ NoHeader.round = 0
  /\ \A h \in Headers : h.author \in Authorities /\ h.round \in Nat \ {0}
BY HeadersAssumption DEF NoHeader

\* TypeOK is inductive.
THEOREM TypeCorrect == Spec => []TypeOK
<1>1. Init => TypeOK
  BY DEF Init, TypeOK
<1>2. TypeOK /\ [Next]_vars => TypeOK'
  <2> SUFFICES ASSUME TypeOK, [Next]_vars PROVE TypeOK'
    OBVIOUS
  <2> USE HeaderRounds DEF TypeOK
  <2>1. ASSUME NEW a \in Correct, NEW h \in Headers, propose_header(a, h) PROVE TypeOK'
    BY <2>1 DEF propose_header, Correct
  <2>2. ASSUME NEW a \in Correct, resend_header(a) PROVE TypeOK'
    BY <2>2 DEF resend_header, Correct
  <2>3. ASSUME NEW a \in Correct, NEW v \in Authorities, append_vote(a, v) PROVE TypeOK'
    <3>1. proposal[a] \in Headers
      BY <2>3 DEF append_vote
    <3> QED BY <2>3, <3>1 DEF append_vote
  <2>4. ASSUME NEW h \in Headers, ByzantineCertify(h) PROVE TypeOK'
    BY <2>4 DEF ByzantineCertify
  <2>5. ASSUME NEW v \in Correct, NEW h \in Headers, receive_request(v, h) PROVE TypeOK'
    BY <2>5 DEF receive_request, Requests
  <2>6. ASSUME NEW v \in Correct, VoterStep(v) PROVE TypeOK'
    <3>0. PICK a \in Authorities : \E q \in inflight[v][a] :
            refuse(v, q) \/ read_vote_digest(v, q) \/ write_vote_digest(v, q) \/ reply_vote(v, q)
      BY <2>6 DEF VoterStep
    <3>1. PICK q \in inflight[v][a] :
            refuse(v, q) \/ read_vote_digest(v, q) \/ write_vote_digest(v, q) \/ reply_vote(v, q)
      BY <3>0
    <3>2. q \in Requests
      OBVIOUS
    <3>3. q.header \in Headers /\ \A pc \in {"write", "reply"} : [q EXCEPT !.pc = pc] \in Requests
      BY <3>2, SMTT(30) DEF Requests
    <3>4. CASE refuse(v, q)
      BY <3>3, <3>4 DEF refuse, Leave
    <3>5. CASE read_vote_digest(v, q)
      <4>1. Leave(v, q) \/ Advance(v, q, "write")
        BY <3>5 DEF read_vote_digest
      <4>2. inflight' \in [Correct -> [Authorities -> SUBSET Requests]]
        <5>1. CASE Leave(v, q)
          BY <3>3, <5>1 DEF Leave
        <5>2. CASE Advance(v, q, "write")
          BY <3>3, <5>2, ZenonT(30) DEF Advance
        <5> QED BY <4>1, <5>1, <5>2
      <4> QED BY <3>5, <4>2 DEF read_vote_digest
    <3>6. CASE write_vote_digest(v, q)
      <4>1. vote_digest_store' \in [Correct -> [Authorities -> Headers \cup {NoHeader}]]
        BY <3>3, <3>6 DEF write_vote_digest
      <4>2. inflight' \in [Correct -> [Authorities -> SUBSET Requests]]
        BY <3>3, <3>6, ZenonT(30) DEF write_vote_digest, Advance
      <4> QED BY <3>6, <4>1, <4>2 DEF write_vote_digest
    <3>7. CASE reply_vote(v, q)
      BY <3>3, <3>7 DEF reply_vote, Leave, Correct
    <3> QED BY <3>1, <3>4, <3>5, <3>6, <3>7
  <2>7. ASSUME NEW v \in Correct, restart(v) PROVE TypeOK'
    BY <2>7 DEF restart
  <2>8. CASE UNCHANGED vars
    BY <2>8 DEF vars
  <2> QED BY <2>1, <2>2, <2>3, <2>4, <2>5, <2>6, <2>7, <2>8 DEF Next
<1> QED BY <1>1, <1>2, PTL DEF Spec

-----------------------------------------------------------------------------
\* A correct author's own votes, which no store guards: they are for its
\* current proposal or for headers of earlier rounds.
OwnVotes ==
  \A a \in Correct : \A h \in Headers :
    (<<a, h>> \in votes /\ h.author = a) => proposal[a].round > h.round \/ proposal[a] = h

\* At most one handler runs per peer, so what it read from the store still
\* holds when it writes, and what it wrote when it replies.
HandlersCurrent ==
  \A v \in Correct, a \in Authorities :
    /\ \A p, q \in inflight[v][a] : p = q
    /\ \A q \in inflight[v][a] :
         /\ q.header.author = a /\ a # v
         /\ q.pc = "write" => MayVote(vote_digest_store[v][a], q.header)
         /\ q.pc = "reply" => vote_digest_store[v][a] = q.header

\* A certificate, and an aggregator on its way to one, holds signatures on
\* one header only.
Certifiable(h) == \E Q \in SUBSET Authorities : IsQuorum(Q) /\ Q \subseteq Signed(h)

SignaturesReal ==
  /\ \A a \in Correct : \A v \in aggregator[a] : v \in Byzantine \/ <<v, proposal[a]>> \in votes
  /\ \A a \in Correct : proposal[a] # NoHeader => <<a, proposal[a]>> \in votes
  /\ \A h \in certificates : Certifiable(h)

VotingInv == TypeOK /\ VoteOnce /\ VotesRemembered /\ OwnVotes /\ HandlersCurrent /\ SignaturesReal

\* The inductive invariant holds initially.
LEMMA VotingInvInit == Init => VotingInv
BY HeaderRounds DEF Init, VotingInv, TypeOK, VoteOnce, VotesRemembered, OwnVotes, HandlersCurrent, SignaturesReal

\* Two certificates of an author and round would need a correct signer of both.
LEMMA InvCertificateUnique == VotingInv => CertificateUnique
<1> SUFFICES ASSUME VotingInv, NEW c \in certificates, NEW d \in certificates,
                    c.author = d.author, c.round = d.round
             PROVE  c = d
  BY DEF CertificateUnique
<1>1. c \in Headers /\ d \in Headers
  BY DEF VotingInv, TypeOK
<1>2. PICK P \in SUBSET Authorities : IsQuorum(P) /\ P \subseteq Signed(c)
  BY DEF VotingInv, SignaturesReal, Certifiable
<1>3. PICK Q \in SUBSET Authorities : IsQuorum(Q) /\ Q \subseteq Signed(d)
  BY DEF VotingInv, SignaturesReal, Certifiable
<1>4. PICK v \in Correct : v \in P /\ v \in Q
  BY <1>2, <1>3, QuorumsShareCorrect
<1>5. <<v, c>> \in votes /\ <<v, d>> \in votes
  BY <1>2, <1>3, <1>4 DEF Signed, Correct
<1> QED BY <1>1, <1>5 DEF VotingInv, VoteOnce

-----------------------------------------------------------------------------
\* Votes are never withdrawn, so what was certifiable remains so.
LEMMA VotesGrow ==
  ASSUME votes \subseteq votes', NEW h, Certifiable(h)
  PROVE  Certifiable(h)'
<1>1. Signed(h) \subseteq Signed(h)'
  BY DEF Signed
<1> QED BY <1>1 DEF Certifiable

\* Core: a new proposal has a round no earlier own vote has.
LEMMA ProposeStep ==
  ASSUME VotingInv, TypeOK', NEW a \in Correct, NEW h \in Headers, propose_header(a, h)
  PROVE  VotingInv'
<1> USE HeaderRounds DEF VotingInv
<1>a. \A g \in Headers, v \in Correct : <<v, g>> \in votes' <=> <<v, g>> \in votes \/ (v = a /\ g = h)
  BY DEF propose_header
<1>b. proposal[a].round \in Nat /\ proposal[a].round < h.round
  BY DEF propose_header, TypeOK
<1>0. \A g \in Headers : (<<a, g>> \in votes /\ g.author = a) => g.round < h.round
  BY <1>b DEF OwnVotes
<1>1. VoteOnce'
  BY <1>a, <1>0 DEF propose_header, VoteOnce
<1>2. VotesRemembered'
  BY <1>a, <1>0 DEF propose_header, VotesRemembered
<1>3. OwnVotes'
  <2> SUFFICES ASSUME NEW b \in Correct, NEW g \in Headers, <<b, g>> \in votes', g.author = b
               PROVE  proposal'[b].round > g.round \/ proposal'[b] = g
    BY DEF OwnVotes
  <2>1. CASE b = a
    BY <1>a, <1>0, <2>1 DEF propose_header, TypeOK
  <2>2. CASE b # a
    BY <1>a, <1>0, <2>2 DEF propose_header, OwnVotes, TypeOK
  <2> QED BY <2>1, <2>2
<1>4. HandlersCurrent'
  BY DEF propose_header, HandlersCurrent
<1>5. SignaturesReal'
  <2>0. ASSUME IsQuorum({a}) PROVE Certifiable(h)'
    <3>1. {a} \in SUBSET Authorities /\ {a} \subseteq Signed(h)'
      BY DEF propose_header, Signed, Correct
    <3> QED BY <2>0, <3>1 DEF Certifiable
  <2>1. \A g \in certificates' : Certifiable(g)'
    BY <2>0, VotesGrow DEF propose_header, SignaturesReal
  <2>2. \A b \in Correct : \A v \in aggregator'[b] : v \in Byzantine \/ <<v, proposal'[b]>> \in votes'
    BY DEF propose_header, SignaturesReal, TypeOK
  <2>3. \A b \in Correct : proposal'[b] # NoHeader => <<b, proposal'[b]>> \in votes'
    BY DEF propose_header, SignaturesReal, TypeOK
  <2> QED BY <2>1, <2>2, <2>3, ZenonT(30) DEF propose_header, SignaturesReal
<1> QED BY <1>1, <1>2, <1>3, <1>4, <1>5

\* Core: the aggregator and the certificates only take signatures.
LEMMA AggregatorStep ==
  ASSUME VotingInv, TypeOK',
         \/ \E a \in Correct : resend_header(a)
         \/ \E a \in Correct, v \in Authorities : append_vote(a, v)
         \/ \E h \in Headers : ByzantineCertify(h)
  PROVE  VotingInv'
<1> USE DEF VotingInv
<1>1. UNCHANGED <<vote_digest_store, inflight, votes, proposal>>
  BY ZenonT(30) DEF resend_header, append_vote, ByzantineCertify
<1>2. VoteOnce' /\ VotesRemembered' /\ OwnVotes' /\ HandlersCurrent'
  BY <1>1 DEF VoteOnce, VotesRemembered, OwnVotes, HandlersCurrent
<1>3. SignaturesReal'
  <2>0. \A g \in certificates : Certifiable(g)'
    BY <1>1, VotesGrow DEF SignaturesReal
  <2>1. ASSUME NEW a \in Correct, resend_header(a) PROVE SignaturesReal'
    BY <1>1, <2>0, <2>1 DEF resend_header, SignaturesReal, TypeOK
  <2>2. ASSUME NEW a \in Correct, NEW v \in Authorities, append_vote(a, v) PROVE SignaturesReal'
    <3>1. \A b \in Correct : \A u \in aggregator'[b] : u \in Byzantine \/ <<u, proposal'[b]>> \in votes'
      BY <1>1, <2>2, ZenonT(30) DEF append_vote, SignaturesReal, TypeOK, Signed
    <3>2. ASSUME IsQuorum(aggregator[a] \cup {v}) PROVE Certifiable(proposal[a])'
      <4>1. aggregator[a] \cup {v} \in SUBSET Authorities
        BY DEF TypeOK
      <4>2. aggregator[a] \cup {v} \subseteq Signed(proposal[a])
        BY <2>2, <4>1 DEF append_vote, SignaturesReal, Signed
      <4>3. Certifiable(proposal[a])
        BY <3>2, <4>1, <4>2 DEF Certifiable
      <4> QED BY <1>1, <4>3 DEF Certifiable, Signed
    <3>3. \A g \in certificates' : Certifiable(g)'
      BY <1>1, <2>0, <2>2, <3>2 DEF append_vote
    <3> QED BY <1>1, <3>1, <3>3 DEF SignaturesReal
  <2>3. ASSUME NEW h \in Headers, ByzantineCertify(h) PROVE SignaturesReal'
    <3>1. Certifiable(h)
      BY <2>3, FaultAssumption, ZenonT(30) DEF ByzantineCertify, Certifiable, Signed
    <3>2. Certifiable(h)'
      BY <1>1, <3>1, VotesGrow
    <3> QED BY <1>1, <2>0, <2>3, <3>2 DEF ByzantineCertify, SignaturesReal
  <2> QED BY <2>1, <2>2, <2>3
<1> QED BY <1>2, <1>3

\* The handlers after one of them has moved on.
LEMMA AdvanceEffect ==
  ASSUME TypeOK, NEW v \in Correct, NEW a \in Authorities, NEW q \in Requests, NEW pc,
         q.header.author = a, inflight[v][a] = {q}, Advance(v, q, pc)
  PROVE  \E r : /\ r.header = q.header /\ r.pc = pc
                /\ inflight'[v][a] = {r}
                /\ \A u \in Correct, b \in Authorities :
                     (u # v \/ b # a) => inflight'[u][b] = inflight[u][b]
<1> DEFINE r == [q EXCEPT !.pc = pc]
<1>1. r.header = q.header /\ r.pc = pc
  BY DEF Requests
<1>2. inflight' = [inflight EXCEPT ![v][a] = (@ \ {q}) \cup {r}]
  BY ZenonT(30) DEF Advance
<1> HIDE DEF r
<1>3. inflight'[v][a] = {r}
  BY <1>2 DEF TypeOK
<1>4. \A u \in Correct, b \in Authorities : (u # v \/ b # a) => inflight'[u][b] = inflight[u][b]
  BY <1>2 DEF TypeOK
<1> QED BY <1>1, <1>3, <1>4

\* The handlers after one of them has returned.
LEMMA LeaveEffect ==
  ASSUME TypeOK, NEW v \in Correct, NEW a \in Authorities, NEW q,
         q.header.author = a, inflight[v][a] = {q}, Leave(v, q)
  PROVE  /\ inflight'[v][a] = {}
         /\ \A u \in Correct, b \in Authorities :
              (u # v \/ b # a) => inflight'[u][b] = inflight[u][b]
<1>1. inflight' = [inflight EXCEPT ![v][a] = @ \ {q}]
  BY ZenonT(30) DEF Leave
<1>2. inflight'[v][a] = {}
  BY <1>1 DEF TypeOK
<1>3. \A u \in Correct, b \in Authorities : (u # v \/ b # a) => inflight'[u][b] = inflight[u][b]
  BY <1>1 DEF TypeOK
<1> QED BY <1>2, <1>3

\* Primary: handlers run one at a time per author, so the store has not moved
\* between a handler's read and its write.
LEMMA HandlerStep ==
  ASSUME VotingInv, TypeOK', NEW v \in Correct,
         VoterStep(v) \/ restart(v) \/ \E h \in Headers : receive_request(v, h)
  PROVE  VotingInv'
<1> USE HeaderRounds DEF VotingInv
<1>0. UNCHANGED <<proposal, aggregator, certificates>> /\ votes \subseteq votes'
  BY ZenonT(30) DEF VoterStep, restart, receive_request, refuse, read_vote_digest, write_vote_digest, reply_vote
<1>1. SignaturesReal'
  <2>1. \A g \in certificates : Certifiable(g)'
    BY <1>0, VotesGrow DEF SignaturesReal
  <2> QED BY <1>0, <2>1 DEF SignaturesReal
<1>2. ASSUME NEW h \in Headers, receive_request(v, h) PROVE VotingInv'
  <2>1. VoteOnce' /\ VotesRemembered' /\ OwnVotes'
    BY <1>2 DEF receive_request, VoteOnce, VotesRemembered, OwnVotes
  <2>2. HandlersCurrent'
    BY <1>2 DEF receive_request, HasRoom, HandlersCurrent, TypeOK
  <2> QED BY <1>1, <2>1, <2>2
<1>3. CASE restart(v)
  <2>1. VoteOnce' /\ VotesRemembered' /\ OwnVotes'
    BY <1>3 DEF restart, VoteOnce, VotesRemembered, OwnVotes
  <2>2. HandlersCurrent'
    BY <1>3 DEF restart, HandlersCurrent, TypeOK
  <2> QED BY <1>1, <2>1, <2>2
<1>4. CASE VoterStep(v)
  <2>1. PICK a \in Authorities : \E q \in inflight[v][a] :
          refuse(v, q) \/ read_vote_digest(v, q) \/ write_vote_digest(v, q) \/ reply_vote(v, q)
    BY <1>4 DEF VoterStep
  <2>2. PICK q \in inflight[v][a] :
          refuse(v, q) \/ read_vote_digest(v, q) \/ write_vote_digest(v, q) \/ reply_vote(v, q)
    BY <2>1
  <2>3. q.header.author = a /\ a # v /\ inflight[v][a] = {q}
    BY DEF HandlersCurrent
  <2>4. q \in Requests /\ q.header \in Headers
    BY DEF TypeOK, Requests
  <2>5. ASSUME Leave(v, q), UNCHANGED vote_digest_store PROVE HandlersCurrent'
    <3>1. /\ inflight'[v][a] = {}
          /\ \A u \in Correct, b \in Authorities :
               (u # v \/ b # a) => inflight'[u][b] = inflight[u][b]
      BY <2>3, <2>5, LeaveEffect
    <3> QED BY <2>5, <3>1 DEF HandlersCurrent
  <2>6. CASE refuse(v, q)
    <3>1. VoteOnce' /\ VotesRemembered' /\ OwnVotes'
      BY <2>6 DEF refuse, VoteOnce, VotesRemembered, OwnVotes
    <3>2. HandlersCurrent'
      BY <2>5, <2>6 DEF refuse
    <3> QED BY <1>1, <3>1, <3>2, SMTT(30)
  <2>7. CASE read_vote_digest(v, q)
    <3>1. VoteOnce' /\ VotesRemembered' /\ OwnVotes'
      BY <2>7 DEF read_vote_digest, VoteOnce, VotesRemembered, OwnVotes
    <3>2. HandlersCurrent'
      <4>1. CASE Advance(v, q, "write") /\ MayVote(vote_digest_store[v][a], q.header)
        <5>1. PICK r : /\ r.header = q.header /\ r.pc = "write"
                       /\ inflight'[v][a] = {r}
                       /\ \A u \in Correct, b \in Authorities :
                            (u # v \/ b # a) => inflight'[u][b] = inflight[u][b]
          BY <2>3, <2>4, <4>1, AdvanceEffect, SMTT(30)
        <5> QED BY <2>3, <2>7, <4>1, <5>1, SMTT(30) DEF read_vote_digest, HandlersCurrent
      <4>2. CASE Leave(v, q)
        BY <2>5, <2>7, <4>2, Zenon DEF read_vote_digest
      <4> QED BY <2>3, <2>7, <4>1, <4>2, SMTT(30) DEF read_vote_digest
    <3> QED BY <1>1, <3>1, <3>2
  <2>8. CASE write_vote_digest(v, q)
    <3>0. /\ vote_digest_store'[v][a] = q.header
          /\ \A u \in Correct, b \in Authorities :
               (u # v \/ b # a) => vote_digest_store'[u][b] = vote_digest_store[u][b]
      BY <2>3, <2>8 DEF write_vote_digest, TypeOK
    <3>1. VoteOnce' /\ OwnVotes'
      BY <2>8 DEF write_vote_digest, VoteOnce, OwnVotes
    <3>2. HandlersCurrent'
      <4>1. PICK r : /\ r.header = q.header /\ r.pc = "reply"
                     /\ inflight'[v][a] = {r}
                     /\ \A u \in Correct, b \in Authorities :
                          (u # v \/ b # a) => inflight'[u][b] = inflight[u][b]
        BY <2>3, <2>4, <2>8, AdvanceEffect DEF write_vote_digest
      <4> QED BY <2>3, <2>8, <3>0, <4>1 DEF HandlersCurrent
    <3>3. VotesRemembered'
      <4>1. MayVote(vote_digest_store[v][a], q.header)
        BY <2>3, <2>8 DEF write_vote_digest, HandlersCurrent
      <4>2. vote_digest_store[v][a].round \in Nat /\ q.header.round \in Nat
        BY <2>4 DEF TypeOK
      <4> SUFFICES ASSUME NEW u \in Correct, NEW g \in Headers, <<u, g>> \in votes, g.author # u
                   PROVE  \/ vote_digest_store'[u][g.author].round > g.round
                          \/ vote_digest_store'[u][g.author] = g
        BY <2>8 DEF write_vote_digest, VotesRemembered
      <4>3. \/ vote_digest_store[u][g.author].round > g.round
            \/ vote_digest_store[u][g.author] = g
        BY DEF VotesRemembered
      <4>4. CASE u = v /\ g.author = a
        BY <3>0, <4>1, <4>2, <4>3, <4>4 DEF MayVote
      <4>5. CASE u # v \/ g.author # a
        BY <3>0, <4>3, <4>5
      <4> QED BY <4>4, <4>5
    <3> QED BY <1>1, <3>1, <3>2, <3>3
  <2>9. CASE reply_vote(v, q)
    <3>1. \A u \in Correct, g \in Headers :
            <<u, g>> \in votes' <=> <<u, g>> \in votes \/ (u = v /\ g = q.header)
      BY <2>4, <2>9, SMTT(30) DEF reply_vote
    <3>2. vote_digest_store[v][a] = q.header
      BY <2>3, <2>9, SMTT(30) DEF reply_vote, HandlersCurrent
    <3>3. OwnVotes'
      BY <2>3, <2>9, <3>1 DEF reply_vote, OwnVotes
    <3>4. VotesRemembered'
      BY <2>3, <2>9, <3>1, <3>2 DEF reply_vote, VotesRemembered
    <3>5. \A g \in Headers : (<<v, g>> \in votes /\ g.author = a /\ g.round = q.header.round) => g = q.header
      BY <2>3, <2>4, <3>2 DEF VotesRemembered
    <3>6. VoteOnce'
      BY <2>3, <2>4, <3>1, <3>5 DEF VoteOnce
    <3>7. HandlersCurrent'
      BY <2>5, <2>9 DEF reply_vote
    <3> QED BY <1>1, <3>3, <3>4, <3>6, <3>7
  <2> QED BY <2>2, <2>6, <2>7, <2>8, <2>9
<1> QED BY <1>2, <1>3, <1>4

-----------------------------------------------------------------------------
\* VotingInv is inductive.
THEOREM InvariantHolds == Spec => []VotingInv
<1>1. VotingInv /\ TypeOK' /\ [Next]_vars => VotingInv'
  <2>1. ASSUME VotingInv, UNCHANGED vars PROVE VotingInv'
    <3>1. VoteOnce' /\ VotesRemembered' /\ OwnVotes' /\ HandlersCurrent'
      BY <2>1 DEF vars, VotingInv, VoteOnce, VotesRemembered, OwnVotes, HandlersCurrent
    <3>2. TypeOK' /\ SignaturesReal'
      BY <2>1 DEF vars, VotingInv, TypeOK, SignaturesReal, Certifiable, Signed
    <3> QED BY <3>1, <3>2 DEF VotingInv
  <2> QED BY <2>1, ProposeStep, AggregatorStep, HandlerStep DEF Next
<1> QED BY <1>1, VotingInvInit, TypeCorrect, PTL DEF Spec

\* No crash, retry or interleaving of request_vote handlers makes a correct
\* primary vote for two headers of one author and round.
THEOREM VotesOnce == Spec => []VoteOnce
<1>1. VotingInv => VoteOnce
  BY DEF VotingInv
<1> QED BY <1>1, InvariantHolds, PTL

\* A vote that left a correct primary stays in its vote_digest_store, or is
\* superseded by one of a later round.
THEOREM VotesAreRemembered == Spec => []VotesRemembered
<1>1. VotingInv => VotesRemembered
  BY DEF VotingInv
<1> QED BY <1>1, InvariantHolds, PTL

\* With less than a third of the stake Byzantine, a round of the DAG has at
\* most one certified header per author.
THEOREM CertificatesUnique == Spec => []CertificateUnique
BY InvCertificateUnique, InvariantHolds, PTL
=============================================================================
