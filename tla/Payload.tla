------------------------------- MODULE Payload -------------------------------
(***************************************************************************)
(* The way of the payload: client transactions become a batch of the       *)
(* worker of Me (worker/src/batch_maker.rs), the batch is spread over the  *)
(* other workers (quorum_waiter.rs, handlers.rs), its digest reaches the   *)
(* primary (primary_connector.rs), the other primaries sign a header with  *)
(* it once their worker has it (synchronizer.rs), and the executor of one  *)
(* node turns committed digests back into batches, in the order of the     *)
(* commits (executor/src/subscriber.rs).                                   *)
(*                                                                         *)
(* A batch is the set of its transactions, and its own digest.  The        *)
(* network retries every request until it is answered; a worker may crash  *)
(* and start again at any point.  Each authority has one worker.           *)
(***************************************************************************)
EXTENDS Committee, Sequences

CONSTANTS
  Me,          \* the authority whose worker the clients use
  Executor,    \* the authority whose subscriber is modelled
  Txs,         \* transactions, each submitted once
  BatchSize,   \* batch_size, in transactions
  MaxParallel, \* MAX_PARALLEL_BATCH
  MaxPending,  \* MAX_PENDING_PAYLOADS
  MaxCommits,  \* bound on the headers with a payload that are committed
  MaxCrashes   \* bound on the crashes of workers

ASSUME PayloadAssumption ==
  /\ Me \in Authorities /\ Executor \in Authorities
  /\ {BatchSize, MaxParallel, MaxPending} \subseteq Nat \ {0}
  /\ {MaxCommits, MaxCrashes} \subseteq Nat

Peers == Authorities \ {Me}
Batches == (SUBSET Txs) \ {{}}

VARIABLES
  client,    \* by transaction: "new", "waiting", "answered" or "error"
  current,   \* current_batch of the batch maker
  pipeline,  \* its batch_pipeline: a batch and how far its future is
  sending,   \* the batches the quorum waiter still sends to peers
  acks,      \* by batch: the peers whose acknowledgement it has
  stored,    \* by worker: the batch store (durable)
  queued,    \* by worker: writes its store task has not applied yet
  others,    \* by worker: tx_others_batch, digests on their way to the primary
  tokens,    \* by primary: payload_store (durable)
  recorded,  \* digests the proposer of Me has
  committed, \* sub-dags: the batch and the signers of its certificate
  fetched,   \* the positions of sub-dags whose payload the subscriber has
  delivered, \* what handle_consensus_output was given
  crashes

batch_maker == <<client, current, pipeline>>
quorum_waiter == <<sending, acks>>
handlers == <<queued, others>>
primaries == <<tokens, recorded, committed>>
subscriber == <<fetched, delivered>>
vars == <<batch_maker, quorum_waiter, stored, handlers, primaries, subscriber, crashes>>

\* The store task serves reads after the writes queued before them.
Readable(p) == stored[p] \cup queued[p]

Init ==
  /\ client = [t \in Txs |-> "new"] /\ current = {} /\ pipeline = <<>>
  /\ sending = {} /\ acks = [b \in Batches |-> {}]
  /\ stored = [p \in Authorities |-> {}] /\ queued = [p \in Authorities |-> {}]
  /\ others = [p \in Authorities |-> {}] /\ tokens = [p \in Authorities |-> {}]
  /\ recorded = {} /\ committed = <<>>
  /\ fetched = {} /\ delivered = <<>> /\ crashes = 0

-----------------------------------------------------------------------------
(* The batch maker.                                                         *)

\* Mutant: the batch is not taken out of current_batch.
sealMutant(batch) ==
  /\ pipeline' = Append(pipeline, [batch |-> batch, at |-> "write"])
  /\ sending' = sending \cup {batch}
  /\ current' = batch

\* seal hands the batch to the quorum waiter, which broadcasts it, and pushes
\* the future that sees to the rest.
seal(batch) ==
  /\ pipeline' = Append(pipeline, [batch |-> batch, at |-> "write"])
  /\ sending' = sending \cup {batch}
  /\ current' = {}

submit_transaction(t) ==
  /\ client[t] = "new" /\ Len(pipeline) < MaxParallel
  /\ client' = [client EXCEPT ![t] = "waiting"]
  /\ IF Cardinality(current) + 1 >= BatchSize
     THEN seal(current \cup {t})
     ELSE current' = current \cup {t} /\ UNCHANGED <<pipeline, sending>>
  /\ UNCHANGED <<acks, stored, handlers, primaries, subscriber, crashes>>

\* Mutant: the timer seals only a full batch.
max_batch_delayMutant ==
  /\ Cardinality(current) >= BatchSize
  /\ seal(current)
  /\ UNCHANGED <<client, acks, stored, handlers, primaries, subscriber, crashes>>

max_batch_delay ==
  /\ current # {}
  /\ seal(current)
  /\ UNCHANGED <<client, acks, stored, handlers, primaries, subscriber, crashes>>

Batch(i) == pipeline[i].batch
Goto(i, label) == pipeline' = [pipeline EXCEPT ![i].at = label]

\* Mutant: the batch is only queued for the store.
sync_writeMutant(i) ==
  /\ pipeline[i].at = "write"
  /\ queued' = [queued EXCEPT ![Me] = @ \cup {Batch(i)}]
  /\ Goto(i, "wait")
  /\ UNCHANGED <<client, current, quorum_waiter, stored, others, primaries, subscriber, crashes>>

\* The first step of the future: the batch is on disk.
sync_write(i) ==
  /\ pipeline[i].at = "write"
  /\ stored' = [stored EXCEPT ![Me] = @ \cup {Batch(i)}]
  /\ Goto(i, "wait")
  /\ UNCHANGED <<client, current, quorum_waiter, handlers, primaries, subscriber, crashes>>

\* The quorum waiter counts its own stake, and looks at the total only when an
\* acknowledgement comes in.
QuorumReached(b) == acks[b] # {} /\ IsQuorum(acks[b] \cup {Me})

done_sending(i) ==
  /\ pipeline[i].at = "wait" /\ QuorumReached(Batch(i))
  /\ Goto(i, "report")
  /\ UNCHANGED <<client, current, quorum_waiter, stored, handlers, primaries, subscriber, crashes>>

\* The primary connector gets the digest across to the proposer of Me.
report_our_batch(i) ==
  /\ pipeline[i].at = "report"
  /\ recorded' = recorded \cup {Batch(i)}
  /\ Goto(i, "respond")
  /\ UNCHANGED <<client, current, quorum_waiter, stored, handlers, tokens, committed,
                 subscriber, crashes>>

\* Mutant: the response is sent although the digest was dropped.
drop_our_batchMutant(i) ==
  /\ pipeline[i].at = "report"
  /\ Goto(i, "respond")
  /\ UNCHANGED <<client, current, quorum_waiter, stored, handlers, primaries, subscriber, crashes>>

\* Or it drops it: MAX_PENDING_DIGESTS of them are out already.
drop_our_batch(i) ==
  /\ pipeline[i].at = "report"
  /\ client' = [t \in Txs |-> IF t \in Batch(i) THEN "error" ELSE client[t]]
  /\ Goto(i, "finished")
  /\ UNCHANGED <<current, quorum_waiter, stored, handlers, primaries, subscriber, crashes>>

batch_done(i) ==
  /\ pipeline[i].at = "respond"
  /\ client' = [t \in Txs |-> IF t \in Batch(i) THEN "answered" ELSE client[t]]
  /\ Goto(i, "finished")
  /\ UNCHANGED <<current, quorum_waiter, stored, handlers, primaries, subscriber, crashes>>

\* batch_pipeline.next(), in the order of the seals.
next_in_pipeline ==
  /\ pipeline # <<>> /\ Head(pipeline).at = "finished"
  /\ pipeline' = Tail(pipeline)
  /\ UNCHANGED <<client, current, quorum_waiter, stored, handlers, primaries, subscriber, crashes>>

-----------------------------------------------------------------------------
(* The other workers.                                                       *)

\* Worker p queues the batch for its store and its digest for its primary, and
\* acknowledges; if the answer is lost, the network sends the batch again.
report_batch(p, b, lost) ==
  /\ b \in sending /\ p \notin acks[b]
  /\ queued' = [queued EXCEPT ![p] = IF b \in stored[p] THEN @ ELSE @ \cup {b}]
  /\ others' = [others EXCEPT ![p] = IF b \in tokens[p] THEN @ ELSE @ \cup {b}]
  /\ acks' = IF lost THEN acks ELSE [acks EXCEPT ![b] = @ \cup {p}]
  /\ UNCHANGED <<batch_maker, sending, stored, primaries, subscriber, crashes>>

\* The best effort for the remaining workers times out.
give_up(b) ==
  /\ QuorumReached(b) /\ b \in sending
  /\ sending' = sending \ {b}
  /\ UNCHANGED <<batch_maker, acks, stored, handlers, primaries, subscriber, crashes>>

\* The store task applies its writes.
flush(p) ==
  /\ queued[p] # {}
  /\ stored' = [stored EXCEPT ![p] = @ \cup queued[p]]
  /\ queued' = [queued EXCEPT ![p] = {}]
  /\ UNCHANGED <<batch_maker, quorum_waiter, others, primaries, subscriber, crashes>>

\* The primary connector of p gets a digest across, or drops it.
report_others_batch(p, b, dropped) ==
  /\ b \in others[p]
  /\ others' = [others EXCEPT ![p] = @ \ {b}]
  /\ tokens' = IF dropped THEN tokens ELSE [tokens EXCEPT ![p] = @ \cup {b}]
  /\ UNCHANGED <<batch_maker, quorum_waiter, stored, queued, recorded, committed,
                 subscriber, crashes>>

\* A worker stops and starts again: what was not on disk is gone, and so are
\* the futures of its batch maker and the requests of its clients.
crash(p) ==
  /\ crashes < MaxCrashes
  /\ crashes' = crashes + 1
  /\ queued' = [queued EXCEPT ![p] = {}] /\ others' = [others EXCEPT ![p] = {}]
  /\ IF p # Me THEN UNCHANGED <<batch_maker, quorum_waiter>>
     ELSE /\ client' = [t \in Txs |-> IF client[t] = "waiting" THEN "error" ELSE client[t]]
          /\ current' = {} /\ pipeline' = <<>>
          /\ sending' = {} /\ acks' = [b \in Batches |-> {}]
  /\ UNCHANGED <<stored, primaries, subscriber>>

-----------------------------------------------------------------------------
(* The primaries.                                                           *)

\* sync_batches_internal: without the token, the worker is told to synchronize;
\* it asks the author first, then others, until it has the batch on disk.
synchronize(p, b) ==
  /\ b \in recorded /\ p # Me /\ b \notin tokens[p]
  /\ IF b \in Readable(p) THEN UNCHANGED stored
     ELSE /\ \E q \in Authorities \ {p} : b \in Readable(q)
          /\ stored' = [stored EXCEPT ![p] = @ \cup {b}]
  /\ tokens' = [tokens EXCEPT ![p] = @ \cup {b}]
  /\ UNCHANGED <<batch_maker, quorum_waiter, handlers, recorded, committed, subscriber,
                 crashes>>

\* A header with the digest is certified and committed; more than one may be.
\* Me votes without looking for its own payload, the others with the token;
\* no vote is added after the one that completes the quorum.
commit(b, signers) ==
  /\ Len(committed) < MaxCommits /\ b \in recorded
  /\ Me \in signers /\ IsQuorum(signers)
  /\ signers = {Me} \/ \E last \in signers \ {Me} : ~ IsQuorum(signers \ {last})
  /\ \A p \in signers \ {Me} : b \in tokens[p]
  /\ committed' = Append(committed, [batch |-> b, signers |-> signers])
  /\ UNCHANGED <<batch_maker, quorum_waiter, stored, handlers, tokens, recorded, subscriber,
                 crashes>>

-----------------------------------------------------------------------------
(* The subscriber.                                                          *)

\* The futures of the subscriber: it has received the sub-dags in the order of
\* the commits, MAX_PENDING_PAYLOADS of them are not delivered yet.
Waiting ==
  {i \in DOMAIN committed : i > Len(delivered) /\ i <= Len(delivered) + MaxPending}

\* Mutant: only the own worker is asked.
fetch_payloadMutant(i) ==
  /\ i \in Waiting \ fetched
  /\ committed[i].batch \in Readable(Executor)
  /\ fetched' = fetched \cup {i}
  /\ UNCHANGED <<batch_maker, quorum_waiter, stored, handlers, primaries, delivered, crashes>>

\* fetch_payload asks the own worker, then those of the signers, over and over.
fetch_payload(i) ==
  /\ i \in Waiting \ fetched
  /\ \E p \in {Executor} \cup committed[i].signers : committed[i].batch \in Readable(p)
  /\ fetched' = fetched \cup {i}
  /\ UNCHANGED <<batch_maker, quorum_waiter, stored, handlers, primaries, delivered, crashes>>

\* Mutant: whatever is fetched first is delivered first.
next_in_orderMutant(i) ==
  /\ i \in fetched
  /\ delivered' = Append(delivered, committed[i])
  /\ fetched' = fetched \ {i}
  /\ UNCHANGED <<batch_maker, quorum_waiter, stored, handlers, primaries, crashes>>

\* waiting.next() of FuturesOrdered, tx_notifier and run_notify.
next_in_order(i) ==
  /\ i \in fetched /\ i = Len(delivered) + 1
  /\ delivered' = Append(delivered, committed[i])
  /\ fetched' = fetched \ {i}
  /\ UNCHANGED <<batch_maker, quorum_waiter, stored, handlers, primaries, crashes>>

-----------------------------------------------------------------------------
Seal(i) == \/ sync_write(i) \/ done_sending(i)
           \/ report_our_batch(i) \/ drop_our_batch(i) \/ batch_done(i)

Next ==
  \/ \E t \in Txs : submit_transaction(t)
  \/ max_batch_delay
  \/ \E i \in DOMAIN pipeline : Seal(i)
  \/ next_in_pipeline
  \/ \E p \in Peers, b \in Batches, lost \in BOOLEAN : report_batch(p, b, lost)
  \/ \E b \in Batches : give_up(b)
  \/ \E p \in Authorities : flush(p) \/ crash(p)
  \/ \E p \in Peers, b \in Batches, dropped \in BOOLEAN : report_others_batch(p, b, dropped)
  \/ \E p \in Authorities, b \in Batches : synchronize(p, b)
  \/ \E b \in Batches, signers \in SUBSET Authorities : commit(b, signers)
  \/ \E i \in DOMAIN committed : fetch_payload(i) \/ next_in_order(i)

Spec == Init /\ [][Next]_vars

\* The runtimes poll every future that can go on, the batch timer runs out,
\* and a request that is repeated for ever is answered some day.
Fairness ==
  /\ WF_vars(max_batch_delay) /\ WF_vars(next_in_pipeline)
  /\ \A i \in 1..MaxParallel + 1 : WF_vars(i \in DOMAIN pipeline /\ Seal(i))
  /\ \A p \in Peers, b \in Batches : WF_vars(report_batch(p, b, FALSE))
  /\ \A i \in 1..MaxCommits : /\ WF_vars(i \in DOMAIN committed /\ fetch_payload(i))
                               /\ WF_vars(i \in DOMAIN committed /\ next_in_order(i))

FairSpec == Spec /\ Fairness

-----------------------------------------------------------------------------
\* The shape of the workers, the primaries and the subscriber.
TypeOK ==
  /\ client \in [Txs -> {"new", "waiting", "answered", "error"}]
  /\ current \subseteq Txs /\ Cardinality(current) < BatchSize
  /\ \A i \in DOMAIN pipeline :
       /\ Batch(i) \in Batches
       /\ pipeline[i].at \in {"write", "wait", "report", "respond", "finished"}
  /\ sending \subseteq Batches /\ acks \in [Batches -> SUBSET Peers]
  /\ \A f \in {stored, queued, others, tokens} : f \in [Authorities -> SUBSET Batches]
  /\ recorded \subseteq Batches
  /\ fetched \subseteq DOMAIN committed
  /\ crashes \in 0..MaxCrashes

\* "an other authority will request the batch from us, and we will deliver it
\* since it is now stored": some signer of every committed payload has it on
\* disk, whichever workers crashed since, so that fetch_payload can end.
CommittedIsAvailable ==
  \A e \in Range(committed) : \E p \in e.signers : e.batch \in stored[p]

\* "we want to guarantee that will deliver to the executor the certificates in
\* the same order we received from rx_sequence", although the payloads are
\* fetched concurrently.
DeliveredInOrder ==
  Len(delivered) <= Len(committed) /\ delivered = SubSeq(committed, 1, Len(delivered))

\* "signal back to the transaction sender that the transaction is in a batch":
\* a client that got its answer has its transaction with the primary, in a
\* batch on disk, whatever crashed or was dropped on the way.
AnsweredIsRecorded ==
  \A t \in Txs : client[t] = "answered" =>
     \E b \in recorded : t \in b /\ b \in stored[Me]

\* "this consumes items in the batch_pipeline list, and ensures the main loop
\* in run will always be able to make progress": no client waits for ever.
ClientsAnswered ==
  \A t \in Txs : client[t] = "waiting" ~> client[t] \in {"answered", "error"}

\* Every committed payload reaches the executor in the end.
CommittedIsDelivered ==
  \A n \in 1..MaxCommits : Len(committed) >= n ~> Len(delivered) >= n
=============================================================================
