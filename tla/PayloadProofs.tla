---------------------------- MODULE PayloadProofs ----------------------------
(* The way of the payload, for every committee, set of transactions, batch    *)
(* size and number of crashes: what is committed is on a signer's disk, the   *)
(* executor gets it in the order of the commits, and a client is answered     *)
(* only for a transaction that the primary has.                               *)
EXTENDS Payload, TLAPS, FiniteSetTheorems

Labels == {"write", "wait", "report", "respond", "finished"}
Futures == [batch : Batches, at : Labels]
Entries == [batch : Batches, signers : SUBSET Authorities]

\* The sequences, and the batch maker holds finitely many transactions.
ShapeInv ==
  /\ IsFiniteSet(current)
  /\ pipeline \in Seq(Futures)
  /\ committed \in Seq(Entries) /\ delivered \in Seq(Entries)

\* A future past its first step has its batch on disk; one that is about to
\* answer its clients has reported the digest.
PipelineInv ==
  \A i \in 1..Len(pipeline) :
    /\ pipeline[i].at # "write" => pipeline[i].batch \in stored[Me]
    /\ pipeline[i].at = "respond" => pipeline[i].batch \in recorded

\* What the proposer of Me has is on the disk of its worker.
RecordedInv == recorded \subseteq stored[Me]

\* Me signs its own headers, and they hold recorded digests.
CommittedInv ==
  \A i \in 1..Len(committed) : committed[i].batch \in recorded /\ Me \in committed[i].signers

\* The deliveries so far are the first commits.
OrderInv ==
  /\ Len(delivered) <= Len(committed)
  /\ \A i \in 1..Len(delivered) : delivered[i] = committed[i]

\* The inductive invariant.
PayloadInv ==
  /\ TypeOK /\ ShapeInv /\ PipelineInv /\ RecordedInv /\ CommittedInv /\ OrderInv
  /\ AnsweredIsRecorded

-----------------------------------------------------------------------------
\* Nothing is submitted yet.
LEMMA InitEstablishes == Init => PayloadInv
<1> SUFFICES ASSUME Init PROVE PayloadInv
  OBVIOUS
<1> USE PayloadAssumption DEF Init
<1>1. IsFiniteSet({}) /\ Cardinality({}) = 0
  BY FS_EmptySet
<1>2. TypeOK
  BY <1>1 DEF TypeOK
<1>3. ShapeInv /\ PipelineInv /\ RecordedInv /\ CommittedInv /\ OrderInv
  BY <1>1 DEF ShapeInv, PipelineInv, RecordedInv, CommittedInv, OrderInv
<1>4. AnsweredIsRecorded
  BY DEF AnsweredIsRecorded
<1> QED BY <1>2, <1>3, <1>4 DEF PayloadInv

\* What TypeOK says of everything but the pipeline.
LEMMA Types ==
  ASSUME TypeOK
  PROVE  /\ client \in [Txs -> {"new", "waiting", "answered", "error"}]
         /\ current \subseteq Txs /\ Cardinality(current) < BatchSize
         /\ sending \subseteq Batches /\ acks \in [Batches -> SUBSET Peers]
         /\ stored \in [Authorities -> SUBSET Batches]
         /\ queued \in [Authorities -> SUBSET Batches]
         /\ others \in [Authorities -> SUBSET Batches]
         /\ tokens \in [Authorities -> SUBSET Batches]
         /\ recorded \subseteq Batches /\ fetched \subseteq DOMAIN committed
         /\ crashes \in 0..MaxCrashes
BY DEF TypeOK

\* TypeOK of the next state, from its parts.
LEMMA TypesFrom ==
  ASSUME client' \in [Txs -> {"new", "waiting", "answered", "error"}],
         current' \subseteq Txs, Cardinality(current') < BatchSize,
         \A i \in DOMAIN pipeline' : pipeline'[i].batch \in Batches /\ pipeline'[i].at \in Labels,
         sending' \subseteq Batches, acks' \in [Batches -> SUBSET Peers],
         stored' \in [Authorities -> SUBSET Batches], queued' \in [Authorities -> SUBSET Batches],
         others' \in [Authorities -> SUBSET Batches], tokens' \in [Authorities -> SUBSET Batches],
         recorded' \subseteq Batches, fetched' \subseteq DOMAIN committed',
         crashes' \in 0..MaxCrashes
  PROVE  TypeOK'
BY DEF TypeOK, Batch, Labels

\* What TypeOK says of the pipeline.
LEMMA PipelineTypes ==
  ASSUME TypeOK
  PROVE  \A i \in DOMAIN pipeline : pipeline[i].batch \in Batches /\ pipeline[i].at \in Labels
BY DEF TypeOK, Batch, Labels

\* A batch is sealed: it enters the pipeline at its first step.
LEMMA SealKeeps ==
  ASSUME PayloadInv, NEW b \in Batches, seal(b),
         client' \in [Txs -> {"new", "waiting", "answered", "error"}],
         \A t \in Txs : client'[t] = "answered" => client[t] = "answered",
         UNCHANGED <<acks, stored, handlers, primaries, subscriber, crashes>>
  PROVE  PayloadInv'
<1> USE DEF PayloadInv
<1>1. /\ pipeline' = Append(pipeline, [batch |-> b, at |-> "write"])
      /\ sending' = sending \cup {b} /\ current' = {} /\ acks' = acks /\ stored' = stored
      /\ queued' = queued /\ others' = others /\ tokens' = tokens /\ recorded' = recorded
      /\ committed' = committed /\ fetched' = fetched /\ delivered' = delivered
      /\ crashes' = crashes
  BY Zenon DEF seal, handlers, primaries, subscriber
<1>2. [batch |-> b, at |-> "write"] \in Futures
  BY DEF Futures, Labels
<1>10. /\ pipeline' \in Seq(Futures)
       /\ Len(pipeline') = Len(pipeline) + 1 /\ Len(pipeline) \in Nat
       /\ \A i \in 1..Len(pipeline) : pipeline'[i] = pipeline[i]
       /\ pipeline'[Len(pipeline) + 1].at = "write"
  BY <1>1, <1>2 DEF ShapeInv
<1>3. IsFiniteSet(current') /\ Cardinality(current') < BatchSize
  BY <1>1, FS_EmptySet, PayloadAssumption
<1>4. ShapeInv'
  BY <1>1, <1>10, <1>3 DEF ShapeInv
<1>5. \A i \in DOMAIN pipeline' : pipeline'[i].batch \in Batches /\ pipeline'[i].at \in Labels
  <2>1. \A i \in DOMAIN pipeline' : pipeline'[i] \in Futures
    BY <1>10
  <2> QED BY <2>1 DEF Futures
<1>6. TypeOK'
  BY <1>1, <1>3, <1>5, Types, TypesFrom
<1>7. PipelineInv'
  <2> SUFFICES ASSUME NEW i \in 1..Len(pipeline')
               PROVE  /\ pipeline'[i].at # "write" => pipeline'[i].batch \in stored[Me]
                      /\ pipeline'[i].at = "respond" => pipeline'[i].batch \in recorded
    BY <1>1 DEF PipelineInv
  <2>1. CASE i \in 1..Len(pipeline)
    BY <1>10, <2>1 DEF PipelineInv
  <2>2. CASE i = Len(pipeline) + 1
    BY <1>10, <2>2
  <2> QED BY <1>10, <2>1, <2>2
<1>8. RecordedInv' /\ CommittedInv' /\ OrderInv'
  <2>1. RecordedInv'
    BY <1>1 DEF RecordedInv
  <2>2. CommittedInv'
    BY <1>1 DEF CommittedInv
  <2>3. OrderInv'
    BY <1>1 DEF OrderInv
  <2> QED BY <2>1, <2>2, <2>3
<1>9. AnsweredIsRecorded'
  BY <1>1 DEF AnsweredIsRecorded
<1> QED BY <1>4, <1>6, <1>7, <1>8, <1>9

\* The batch maker takes a transaction.
LEMMA SubmitKeeps ==
  ASSUME PayloadInv, NEW t \in Txs, submit_transaction(t)
  PROVE  PayloadInv'
<1> DEFINE b == current \cup {t}
<1>1. /\ client \in [Txs -> {"new", "waiting", "answered", "error"}]
      /\ current \subseteq Txs /\ IsFiniteSet(current)
  BY DEF PayloadInv, TypeOK, ShapeInv
<1>2. /\ client' = [client EXCEPT ![t] = "waiting"]
      /\ UNCHANGED <<acks, stored, handlers, primaries, subscriber, crashes>>
  BY DEF submit_transaction
<1>3. /\ client' \in [Txs -> {"new", "waiting", "answered", "error"}]
      /\ \A u \in Txs : client'[u] = "answered" => client[u] = "answered"
  BY <1>1, <1>2
<1>4. CASE Cardinality(current) + 1 >= BatchSize
  <2>1. b \in Batches /\ seal(b)
    BY <1>1, <1>4 DEF submit_transaction, Batches
  <2> HIDE DEF b
  <2> QED BY <1>2, <1>3, <2>1, SealKeeps
<1>5. CASE ~ (Cardinality(current) + 1 >= BatchSize)
  <2> USE DEF PayloadInv
  <2>1. /\ current' = b /\ pipeline' = pipeline /\ sending' = sending
        /\ acks' = acks /\ stored' = stored
        /\ queued' = queued /\ others' = others /\ tokens' = tokens /\ recorded' = recorded
        /\ committed' = committed /\ fetched' = fetched /\ delivered' = delivered
        /\ crashes' = crashes
    BY <1>5, Zenon DEF submit_transaction, handlers, primaries, subscriber
  <2>2. IsFiniteSet(b) /\ Cardinality(b) < BatchSize
    <3>1. /\ IsFiniteSet(b) /\ Cardinality(current) \in Nat
          /\ Cardinality(b) \in {Cardinality(current), Cardinality(current) + 1}
      BY <1>1, FS_AddElement, FS_CardinalityType
    <3>2. BatchSize \in Nat
      BY PayloadAssumption
    <3> QED BY <1>5, <3>1, <3>2
  <2>3. b \subseteq Txs
    BY <1>1
  <2> HIDE DEF b
  <2>4. TypeOK'
    <3>1. \A i \in DOMAIN pipeline' : pipeline'[i].batch \in Batches /\ pipeline'[i].at \in Labels
      BY <2>1, PipelineTypes
    <3> QED BY <1>3, <2>1, <2>2, <2>3, <3>1, Types, TypesFrom
  <2>5. ShapeInv'
    BY <2>1, <2>2 DEF ShapeInv
  <2>6. PipelineInv' /\ RecordedInv' /\ CommittedInv' /\ OrderInv'
    <3>1. PipelineInv'
      BY <2>1 DEF PipelineInv
    <3>2. RecordedInv'
      BY <2>1 DEF RecordedInv
    <3>3. CommittedInv'
      BY <2>1 DEF CommittedInv
    <3>4. OrderInv'
      BY <2>1 DEF OrderInv
    <3> QED BY <3>1, <3>2, <3>3, <3>4
  <2>7. AnsweredIsRecorded'
    BY <1>3, <2>1 DEF AnsweredIsRecorded
  <2> QED BY <2>4, <2>5, <2>6, <2>7
<1> QED BY <1>4, <1>5

\* The timer of the batch maker.
LEMMA DelayKeeps ==
  ASSUME PayloadInv, max_batch_delay
  PROVE  PayloadInv'
<1>1. current \in Batches /\ client \in [Txs -> {"new", "waiting", "answered", "error"}]
  BY DEF PayloadInv, TypeOK, max_batch_delay, Batches
<1>2. /\ seal(current) /\ client' = client
      /\ UNCHANGED <<acks, stored, handlers, primaries, subscriber, crashes>>
  BY DEF max_batch_delay
<1> QED BY <1>1, <1>2, SealKeeps

\* A future of the pipeline goes on to its next step.
LEMMA FutureMoves ==
  ASSUME PayloadInv, NEW i \in DOMAIN pipeline, NEW label \in Labels, Goto(i, label),
         stored[Me] \subseteq stored'[Me], recorded \subseteq recorded',
         label # "write" => pipeline[i].batch \in stored'[Me],
         label = "respond" => pipeline[i].batch \in recorded'
  PROVE  /\ pipeline' \in Seq(Futures)
         /\ \A j \in DOMAIN pipeline' : pipeline'[j].batch \in Batches /\ pipeline'[j].at \in Labels
         /\ PipelineInv'
<1>1. /\ pipeline \in Seq(Futures) /\ Len(pipeline) \in Nat /\ i \in 1..Len(pipeline)
      /\ \A j \in 1..Len(pipeline) : pipeline[j] \in Futures
  BY DEF PayloadInv, ShapeInv
<1>2. \A j \in 1..Len(pipeline) : DOMAIN pipeline[j] = {"batch", "at"}
  BY <1>1 DEF Futures
<1>3. /\ pipeline' = [pipeline EXCEPT ![i] = [pipeline[i] EXCEPT !.at = label]]
  BY DEF Goto
<1>4. /\ [pipeline[i] EXCEPT !.at = label] \in Futures
      /\ [pipeline[i] EXCEPT !.at = label].batch = pipeline[i].batch
      /\ [pipeline[i] EXCEPT !.at = label].at = label
  BY <1>1 DEF Futures
<1> DEFINE moved == [pipeline[i] EXCEPT !.at = label]
<1> HIDE DEF moved
<1>5. /\ pipeline' = [pipeline EXCEPT ![i] = moved]
      /\ moved \in Futures /\ moved.batch = pipeline[i].batch /\ moved.at = label
  BY <1>3, <1>4 DEF moved
<1>6. /\ pipeline' \in Seq(Futures) /\ Len(pipeline') = Len(pipeline)
      /\ \A j \in 1..Len(pipeline) : pipeline'[j] = IF j = i THEN moved ELSE pipeline[j]
  BY <1>1, <1>5
<1>7. \A j \in DOMAIN pipeline' : pipeline'[j].batch \in Batches /\ pipeline'[j].at \in Labels
  <2>1. \A j \in DOMAIN pipeline' : pipeline'[j] \in Futures
    BY <1>6
  <2> QED BY <2>1 DEF Futures
<1>8. PipelineInv'
  <2> SUFFICES ASSUME NEW j \in 1..Len(pipeline)
               PROVE  /\ pipeline'[j].at # "write" => pipeline'[j].batch \in stored'[Me]
                      /\ pipeline'[j].at = "respond" => pipeline'[j].batch \in recorded'
    BY <1>6 DEF PipelineInv
  <2>1. CASE j = i
    BY <1>5, <1>6, <2>1
  <2>2. CASE j # i
    BY <1>6, <2>2 DEF PayloadInv, PipelineInv
  <2> QED BY <2>1, <2>2
<1> QED BY <1>6, <1>7, <1>8

\* The steps of a future: write, wait for a quorum, report or drop, answer.
LEMMA FutureKeeps ==
  ASSUME PayloadInv, NEW i \in DOMAIN pipeline, Seal(i)
  PROVE  PayloadInv'
<1> DEFINE b == pipeline[i].batch
<1> USE DEF PayloadInv
<1>1. /\ b \in Batches /\ i \in 1..Len(pipeline) /\ Me \in Authorities
      /\ pipeline[i].at # "write" => b \in stored[Me]
      /\ pipeline[i].at = "respond" => b \in recorded
  BY PayloadAssumption DEF TypeOK, ShapeInv, PipelineInv, Batch
<1>2. /\ current' = current /\ sending' = sending /\ acks' = acks
      /\ queued' = queued /\ others' = others /\ tokens' = tokens
      /\ committed' = committed /\ fetched' = fetched /\ delivered' = delivered
      /\ crashes' = crashes
  BY Zenon DEF Seal, sync_write, done_sending, report_our_batch, drop_our_batch, batch_done,
         quorum_waiter, handlers, primaries, subscriber
<1>3. /\ stored' \in [Authorities -> SUBSET Batches]
      /\ stored[Me] \subseteq stored'[Me] /\ recorded \subseteq recorded'
      /\ recorded' \subseteq Batches /\ recorded' \subseteq stored'[Me]
      /\ client' \in [Txs -> {"new", "waiting", "answered", "error"}]
      /\ \A t \in Txs : client'[t] = "answered" =>
            client[t] = "answered" \/ (t \in b /\ b \in recorded)
  <2>1. /\ stored \in [Authorities -> SUBSET Batches] /\ recorded \subseteq Batches
        /\ client \in [Txs -> {"new", "waiting", "answered", "error"}]
        /\ recorded \subseteq stored[Me]
    BY DEF TypeOK, RecordedInv
  <2>2. CASE sync_write(i)
    <3>1. /\ stored' = [stored EXCEPT ![Me] = @ \cup {b}] /\ recorded' = recorded
          /\ client' = client
      BY <2>2 DEF sync_write, primaries, Batch
    <3> QED BY <1>1, <2>1, <3>1
  <2>3. CASE done_sending(i)
    BY <2>1, <2>3 DEF done_sending, primaries
  <2>4. CASE report_our_batch(i)
    <3>1. recorded' = recorded \cup {b} /\ stored' = stored /\ client' = client
      BY <2>4 DEF report_our_batch, Batch
    <3>2. b \in stored[Me]
      BY <1>1, <2>4 DEF report_our_batch
    <3> QED BY <1>1, <2>1, <3>1, <3>2
  <2>5. CASE drop_our_batch(i)
    BY <2>1, <2>5 DEF drop_our_batch, primaries, Batch
  <2>6. CASE batch_done(i)
    BY <1>1, <2>1, <2>6 DEF batch_done, primaries, Batch
  <2> QED BY <2>2, <2>3, <2>4, <2>5, <2>6 DEF Seal
<1>4. \E label \in Labels : /\ Goto(i, label)
                            /\ label # "write" => b \in stored'[Me]
                            /\ label = "respond" => b \in recorded'
  <2>1. CASE sync_write(i)
    <3>1. Goto(i, "wait") /\ b \in stored'[Me]
      BY <1>1, <2>1 DEF sync_write, Batch, TypeOK
    <3> QED BY <3>1 DEF Labels
  <2>2. CASE done_sending(i)
    <3>1. Goto(i, "report") /\ b \in stored'[Me]
      BY <1>1, <1>3, <2>2 DEF done_sending
    <3> QED BY <3>1 DEF Labels
  <2>3. CASE report_our_batch(i)
    <3>1. Goto(i, "respond") /\ b \in stored'[Me] /\ b \in recorded'
      BY <1>1, <1>3, <2>3 DEF report_our_batch, Batch
    <3> QED BY <3>1 DEF Labels
  <2>4. CASE drop_our_batch(i) \/ batch_done(i)
    <3>1. Goto(i, "finished") /\ b \in stored'[Me]
      BY <1>1, <1>3, <2>4 DEF drop_our_batch, batch_done
    <3> QED BY <3>1 DEF Labels
  <2> QED BY <2>1, <2>2, <2>3, <2>4 DEF Seal
<1>5. /\ pipeline' \in Seq(Futures)
      /\ \A j \in DOMAIN pipeline' : pipeline'[j].batch \in Batches /\ pipeline'[j].at \in Labels
      /\ PipelineInv'
  <2>1. stored[Me] \subseteq stored'[Me] /\ recorded \subseteq recorded'
    BY <1>3
  <2> HIDE DEF PayloadInv
  <2> QED BY <1>4, <2>1, FutureMoves
<1>6. TypeOK'
  BY <1>2, <1>3, <1>5, Types, TypesFrom
<1>7. ShapeInv'
  BY <1>2, <1>5 DEF ShapeInv
<1>8. RecordedInv' /\ CommittedInv' /\ OrderInv'
  <2>1. RecordedInv'
    BY <1>3 DEF RecordedInv
  <2>2. CommittedInv'
    BY <1>2, <1>3 DEF CommittedInv
  <2>3. OrderInv'
    BY <1>2 DEF OrderInv
  <2> QED BY <2>1, <2>2, <2>3
<1>9. AnsweredIsRecorded'
  <2> SUFFICES ASSUME NEW t \in Txs, client'[t] = "answered"
               PROVE  \E e \in recorded' : t \in e /\ e \in stored'[Me]
    BY DEF AnsweredIsRecorded
  <2>1. \E e \in recorded : t \in e
    BY <1>3 DEF AnsweredIsRecorded
  <2> QED BY <1>3, <2>1
<1> QED BY <1>5, <1>6, <1>7, <1>8, <1>9

\* The head of the pipeline has finished.
LEMMA NextInPipelineKeeps ==
  ASSUME PayloadInv, next_in_pipeline
  PROVE  PayloadInv'
<1> USE DEF PayloadInv
<1>1. /\ pipeline # <<>> /\ pipeline' = Tail(pipeline)
      /\ client' = client /\ current' = current /\ sending' = sending /\ acks' = acks
      /\ stored' = stored /\ queued' = queued /\ others' = others /\ tokens' = tokens
      /\ recorded' = recorded /\ committed' = committed /\ fetched' = fetched
      /\ delivered' = delivered /\ crashes' = crashes
  BY Zenon DEF next_in_pipeline, quorum_waiter, handlers, primaries, subscriber
<1>2. /\ pipeline' \in Seq(Futures) /\ Len(pipeline') \in Nat
      /\ \A i \in 1..Len(pipeline') : i + 1 \in 1..Len(pipeline) /\ pipeline'[i] = pipeline[i + 1]
  BY <1>1 DEF ShapeInv
<1>3. \A i \in DOMAIN pipeline' : pipeline'[i].batch \in Batches /\ pipeline'[i].at \in Labels
  <2>1. \A i \in DOMAIN pipeline' : pipeline'[i] \in Futures
    BY <1>2
  <2> QED BY <2>1 DEF Futures
<1>4. TypeOK'
  BY <1>1, <1>3, Types, TypesFrom
<1>5. ShapeInv'
  BY <1>1, <1>2 DEF ShapeInv
<1>6. PipelineInv'
  BY <1>1, <1>2 DEF PipelineInv
<1>7. RecordedInv' /\ CommittedInv' /\ OrderInv' /\ AnsweredIsRecorded'
  <2>1. RecordedInv' /\ AnsweredIsRecorded'
    BY <1>1 DEF RecordedInv, AnsweredIsRecorded
  <2>2. CommittedInv'
    BY <1>1 DEF CommittedInv
  <2>3. OrderInv'
    BY <1>1 DEF OrderInv
  <2> QED BY <2>1, <2>2, <2>3
<1> QED BY <1>4, <1>5, <1>6, <1>7

\* Steps that leave the batch maker and the subscriber alone and take nothing
\* from a disk: the other workers, and the primaries before a commit.
LEMMA SpreadKeeps ==
  ASSUME PayloadInv,
         client' = client, current' = current, pipeline' = pipeline,
         recorded' = recorded, committed' = committed, delivered' = delivered,
         stored[Me] \subseteq stored'[Me],
         sending' \subseteq Batches, acks' \in [Batches -> SUBSET Peers],
         stored' \in [Authorities -> SUBSET Batches], queued' \in [Authorities -> SUBSET Batches],
         others' \in [Authorities -> SUBSET Batches], tokens' \in [Authorities -> SUBSET Batches],
         fetched' \subseteq DOMAIN committed, crashes' \in 0..MaxCrashes
  PROVE  PayloadInv'
<1> USE DEF PayloadInv
<1>1. TypeOK'
  <2>1. \A i \in DOMAIN pipeline' : pipeline'[i].batch \in Batches /\ pipeline'[i].at \in Labels
    BY PipelineTypes
  <2> QED BY <2>1, Types, TypesFrom
<1>2. ShapeInv'
  BY DEF ShapeInv
<1>3. OrderInv'
  BY DEF OrderInv
<1>4. PipelineInv'
  BY DEF PipelineInv
<1>5. RecordedInv'
  BY DEF RecordedInv
<1>6. CommittedInv'
  BY DEF CommittedInv
<1>7. AnsweredIsRecorded'
  BY DEF AnsweredIsRecorded
<1> QED BY <1>1, <1>2, <1>3, <1>4, <1>5, <1>6, <1>7

\* Steps that only move the sequence of commits and the subscriber.
LEMMA SubscriberKeeps ==
  ASSUME PayloadInv,
         client' = client, current' = current, pipeline' = pipeline, sending' = sending,
         acks' = acks, stored' = stored, queued' = queued, others' = others,
         tokens' = tokens, recorded' = recorded, crashes' = crashes,
         committed' \in Seq(Entries), delivered' \in Seq(Entries),
         fetched' \subseteq DOMAIN committed', CommittedInv', OrderInv'
  PROVE  PayloadInv'
<1> USE DEF PayloadInv
<1>1. TypeOK'
  <2>1. \A i \in DOMAIN pipeline' : pipeline'[i].batch \in Batches /\ pipeline'[i].at \in Labels
    BY PipelineTypes
  <2> QED BY <2>1, Types, TypesFrom
<1>2. ShapeInv'
  BY DEF ShapeInv
<1>3. PipelineInv'
  BY DEF PipelineInv
<1>4. RecordedInv'
  BY DEF RecordedInv
<1>5. AnsweredIsRecorded'
  BY DEF AnsweredIsRecorded
<1> QED BY <1>1, <1>2, <1>3, <1>4, <1>5

\* A peer's worker takes a batch.
LEMMA ReportBatchKeeps ==
  ASSUME PayloadInv, NEW p \in Peers, NEW b \in Batches, NEW lost \in BOOLEAN,
         report_batch(p, b, lost)
  PROVE  PayloadInv'
<1>1. /\ client' = client /\ current' = current /\ pipeline' = pipeline /\ sending' = sending
      /\ recorded' = recorded /\ committed' = committed /\ delivered' = delivered
      /\ stored' = stored /\ tokens' = tokens /\ fetched' = fetched /\ crashes' = crashes
  BY Zenon DEF report_batch, batch_maker, primaries, subscriber
<1>2. TypeOK
  BY DEF PayloadInv
<1>3. queued' \in [Authorities -> SUBSET Batches]
  BY <1>2, Types, Zenon DEF report_batch
<1>4. others' \in [Authorities -> SUBSET Batches]
  BY <1>2, Types, Zenon DEF report_batch
<1>5. acks' \in [Batches -> SUBSET Peers]
  BY <1>2, Types DEF report_batch
<1> QED BY <1>1, <1>2, <1>3, <1>4, <1>5, Types, SpreadKeeps

\* The quorum waiter gives up on the slow peers.
LEMMA GiveUpKeeps ==
  ASSUME PayloadInv, NEW b \in Batches, give_up(b)
  PROVE  PayloadInv'
<1>1. /\ client' = client /\ current' = current /\ pipeline' = pipeline
      /\ recorded' = recorded /\ committed' = committed /\ delivered' = delivered
      /\ stored' = stored /\ tokens' = tokens /\ fetched' = fetched /\ crashes' = crashes
      /\ queued' = queued /\ others' = others /\ acks' = acks /\ sending' = sending \ {b}
  BY Zenon DEF give_up, batch_maker, handlers, primaries, subscriber
<1>2. TypeOK
  BY DEF PayloadInv
<1>3. sending' \subseteq Batches
  BY <1>1, <1>2, Types
<1> QED BY <1>1, <1>2, <1>3, Types, SpreadKeeps

\* A store task applies its writes.
LEMMA FlushKeeps ==
  ASSUME PayloadInv, NEW p \in Authorities, flush(p)
  PROVE  PayloadInv'
<1>1. /\ client' = client /\ current' = current /\ pipeline' = pipeline /\ sending' = sending
      /\ recorded' = recorded /\ committed' = committed /\ delivered' = delivered
      /\ tokens' = tokens /\ fetched' = fetched /\ crashes' = crashes
      /\ others' = others /\ acks' = acks
  BY Zenon DEF flush, batch_maker, quorum_waiter, primaries, subscriber
<1>2. TypeOK
  BY DEF PayloadInv
<1>3. queued' \in [Authorities -> SUBSET Batches]
  BY <1>2, Types DEF flush
<1>4. stored' \in [Authorities -> SUBSET Batches] /\ stored[Me] \subseteq stored'[Me]
  BY <1>2, Types, PayloadAssumption DEF flush
<1> QED BY <1>1, <1>2, <1>3, <1>4, Types, SpreadKeeps

\* A digest of another authority reaches a primary, or is dropped.
LEMMA ReportOthersKeeps ==
  ASSUME PayloadInv, NEW p \in Peers, NEW b \in Batches, NEW dropped \in BOOLEAN,
         report_others_batch(p, b, dropped)
  PROVE  PayloadInv'
<1>1. /\ client' = client /\ current' = current /\ pipeline' = pipeline /\ sending' = sending
      /\ recorded' = recorded /\ committed' = committed /\ delivered' = delivered
      /\ stored' = stored /\ fetched' = fetched /\ crashes' = crashes
      /\ queued' = queued /\ acks' = acks
  BY Zenon DEF report_others_batch, batch_maker, quorum_waiter, subscriber
<1>2. TypeOK
  BY DEF PayloadInv
<1>3. others' \in [Authorities -> SUBSET Batches]
  BY <1>2, Types, Zenon DEF report_others_batch
<1>4. tokens' \in [Authorities -> SUBSET Batches]
  BY <1>2, Types, Zenon DEF report_others_batch
<1> QED BY <1>1, <1>2, <1>3, <1>4, Types, SpreadKeeps

\* A primary has its worker fetch a batch before it signs.
LEMMA SynchronizeKeeps ==
  ASSUME PayloadInv, NEW p \in Authorities, NEW b \in Batches, synchronize(p, b)
  PROVE  PayloadInv'
<1>1. /\ client' = client /\ current' = current /\ pipeline' = pipeline /\ sending' = sending
      /\ recorded' = recorded /\ committed' = committed /\ delivered' = delivered
      /\ fetched' = fetched /\ crashes' = crashes
      /\ queued' = queued /\ others' = others /\ acks' = acks
  BY Zenon DEF synchronize, batch_maker, quorum_waiter, handlers, subscriber
<1>2. TypeOK
  BY DEF PayloadInv
<1>3. tokens' \in [Authorities -> SUBSET Batches]
  BY <1>2, Types DEF synchronize
<1>4. stored' \in [Authorities -> SUBSET Batches] /\ stored[Me] \subseteq stored'[Me]
  BY <1>2, Types, PayloadAssumption DEF synchronize
<1> QED BY <1>1, <1>2, <1>3, <1>4, Types, SpreadKeeps

\* A worker crashes: the disks stay as they are.
LEMMA CrashKeeps ==
  ASSUME PayloadInv, NEW p \in Authorities, crash(p)
  PROVE  PayloadInv'
<1> USE DEF PayloadInv
<1>1. /\ stored' = stored /\ recorded' = recorded /\ committed' = committed
      /\ delivered' = delivered /\ tokens' = tokens /\ fetched' = fetched
      /\ crashes' = crashes + 1 /\ crashes < MaxCrashes
  BY Zenon DEF crash, primaries, subscriber
<1>2. crashes' \in 0..MaxCrashes
  BY <1>1, Types, PayloadAssumption
<1>5. queued' \in [Authorities -> SUBSET Batches] /\ others' \in [Authorities -> SUBSET Batches]
  <2>1. queued' = [queued EXCEPT ![p] = {}] /\ others' = [others EXCEPT ![p] = {}]
    BY Zenon DEF crash
  <2> QED BY <2>1, Types
<1>3. CASE p # Me
  <2>1. /\ client' = client /\ current' = current /\ pipeline' = pipeline
        /\ sending' = sending /\ acks' = acks
    BY <1>3, Zenon DEF crash, batch_maker, quorum_waiter
  <2> QED BY <1>1, <1>2, <1>5, <2>1, Types, SpreadKeeps
<1>4. CASE p = Me
  <2>1. /\ client' = [t \in Txs |-> IF client[t] = "waiting" THEN "error" ELSE client[t]]
        /\ current' = {} /\ pipeline' = <<>> /\ sending' = {} /\ acks' = [b \in Batches |-> {}]
    BY <1>4, Zenon DEF crash
  <2>2. /\ client' \in [Txs -> {"new", "waiting", "answered", "error"}]
        /\ \A t \in Txs : client'[t] = "answered" => client[t] = "answered"
    BY <2>1, Types
  <2>3. IsFiniteSet(current') /\ Cardinality(current') < BatchSize
    BY <2>1, FS_EmptySet, PayloadAssumption
  <2>4. TypeOK'
    <3>1. /\ \A i \in DOMAIN pipeline' : pipeline'[i].batch \in Batches /\ pipeline'[i].at \in Labels
          /\ acks' \in [Batches -> SUBSET Peers]
          /\ current' \subseteq Txs /\ sending' \subseteq Batches
      BY <2>1
    <3> QED BY <1>1, <1>2, <1>5, <2>2, <2>3, <3>1, Types, TypesFrom
  <2>5. ShapeInv' /\ PipelineInv'
    <3>1. pipeline' \in Seq(Futures) /\ Len(pipeline') = 0
      BY <2>1
    <3>2. PipelineInv'
      BY <3>1 DEF PipelineInv
    <3> QED BY <1>1, <2>3, <3>1, <3>2 DEF ShapeInv
  <2>6. RecordedInv'
    BY <1>1 DEF RecordedInv
  <2>7. CommittedInv'
    BY <1>1 DEF CommittedInv
  <2>8. OrderInv'
    BY <1>1 DEF OrderInv
  <2>9. AnsweredIsRecorded'
    BY <1>1, <2>2 DEF AnsweredIsRecorded
  <2> QED BY <2>4, <2>5, <2>6, <2>7, <2>8, <2>9
<1> QED BY <1>3, <1>4

\* A header with the digest is committed.
LEMMA CommitKeeps ==
  ASSUME PayloadInv, NEW b \in Batches, NEW signers \in SUBSET Authorities, commit(b, signers)
  PROVE  PayloadInv'
<1> DEFINE e == [batch |-> b, signers |-> signers]
<1>0. TypeOK /\ ShapeInv /\ CommittedInv /\ OrderInv
  BY DEF PayloadInv
<1>1. /\ client' = client /\ current' = current /\ pipeline' = pipeline /\ sending' = sending
      /\ acks' = acks /\ stored' = stored /\ queued' = queued /\ others' = others
      /\ tokens' = tokens /\ recorded' = recorded /\ fetched' = fetched
      /\ delivered' = delivered /\ crashes' = crashes /\ b \in recorded /\ Me \in signers
  BY Zenon DEF commit, batch_maker, quorum_waiter, handlers, subscriber
<1>10. committed' = Append(committed, e)
  BY Zenon DEF commit
<1>2. e \in Entries /\ e.batch = b /\ e.signers = signers
  BY DEF Entries
<1> HIDE DEF e
<1>3. /\ committed' \in Seq(Entries) /\ Len(committed) \in Nat
      /\ Len(committed') = Len(committed) + 1
      /\ committed'[Len(committed) + 1] = e
      /\ \A i \in 1..Len(committed) : committed'[i] = committed[i]
  BY <1>0, <1>2, <1>10 DEF ShapeInv
<1>9. delivered' \in Seq(Entries)
  BY <1>0, <1>1 DEF ShapeInv
<1>4. fetched' \subseteq DOMAIN committed'
  <2>1. DOMAIN committed = 1..Len(committed) /\ DOMAIN committed' = 1..Len(committed')
    BY <1>0, <1>3 DEF ShapeInv
  <2>2. 1..Len(committed) \subseteq 1..Len(committed')
    BY <1>3
  <2>3. fetched \subseteq DOMAIN committed /\ fetched' = fetched
    BY <1>0, <1>1, Types
  <2> QED BY <2>1, <2>2, <2>3
<1>7. CommittedInv'
  <2>3. recorded' = recorded
    BY <1>1
  <2> SUFFICES ASSUME NEW i \in 1..Len(committed')
               PROVE  committed'[i].batch \in recorded /\ Me \in committed'[i].signers
    BY <2>3 DEF CommittedInv
  <2>1. CASE i \in 1..Len(committed)
    BY <1>0, <1>3, <2>1 DEF CommittedInv
  <2>2. CASE i = Len(committed) + 1
    BY <1>1, <1>2, <1>3, <2>2
  <2> QED BY <1>3, <2>1, <2>2
<1>8. OrderInv'
  <2>1. Len(delivered) \in Nat /\ delivered' = delivered
    BY <1>0, <1>1 DEF ShapeInv
  <2> QED BY <1>0, <1>3, <2>1 DEF OrderInv
<1>5. committed' \in Seq(Entries)
  BY <1>3
<1> QED BY <1>1, <1>4, <1>5, <1>7, <1>8, <1>9, Zenon, SubscriberKeeps

\* The subscriber has fetched a payload.
LEMMA FetchKeeps ==
  ASSUME PayloadInv, NEW i \in DOMAIN committed, fetch_payload(i)
  PROVE  PayloadInv'
<1>1. /\ client' = client /\ current' = current /\ pipeline' = pipeline /\ sending' = sending
      /\ recorded' = recorded /\ committed' = committed /\ delivered' = delivered
      /\ stored' = stored /\ tokens' = tokens /\ crashes' = crashes
      /\ queued' = queued /\ others' = others /\ acks' = acks
      /\ fetched' = fetched \cup {i}
  BY Zenon DEF fetch_payload, batch_maker, quorum_waiter, handlers, primaries
<1>2. TypeOK
  BY DEF PayloadInv
<1>3. fetched' \subseteq DOMAIN committed
  BY <1>1, <1>2, Types
<1> QED BY <1>1, <1>2, <1>3, Types, SpreadKeeps

\* The first of the futures is through, and its payload is delivered.
LEMMA DeliverKeeps ==
  ASSUME PayloadInv, NEW i \in DOMAIN committed, next_in_order(i)
  PROVE  PayloadInv'
<1>0. TypeOK /\ ShapeInv /\ CommittedInv /\ OrderInv
  BY DEF PayloadInv
<1>1. /\ client' = client /\ current' = current /\ pipeline' = pipeline /\ sending' = sending
      /\ recorded' = recorded /\ stored' = stored /\ tokens' = tokens /\ crashes' = crashes
      /\ queued' = queued /\ others' = others /\ acks' = acks
  BY Zenon DEF next_in_order, batch_maker, quorum_waiter, handlers, primaries
<1>2. /\ committed' = committed /\ fetched' = fetched \ {i} /\ i = Len(delivered) + 1
      /\ delivered' = Append(delivered, committed[i])
  BY Zenon DEF next_in_order, primaries
<1>3. fetched' \subseteq DOMAIN committed'
  BY <1>0, <1>2, Types, Zenon
<1>4. CommittedInv' /\ committed' \in Seq(Entries)
  <2>1. committed' = committed /\ recorded' = recorded
    BY <1>1, <1>2
  <2> QED BY <1>0, <2>1 DEF CommittedInv, ShapeInv
<1>5. OrderInv' /\ delivered' \in Seq(Entries)
  <2>1. /\ delivered \in Seq(Entries) /\ committed \in Seq(Entries) /\ Len(delivered) \in Nat
        /\ i \in 1..Len(committed) /\ committed[i] \in Entries
    BY <1>0 DEF ShapeInv
  <2>2. /\ delivered' \in Seq(Entries) /\ Len(delivered') = i /\ delivered'[i] = committed[i]
        /\ \A j \in 1..Len(delivered) : delivered'[j] = delivered[j]
    BY <1>2, <2>1
  <2>3. \A j \in 1..Len(delivered) : delivered[j] = committed[j]
    BY <1>0 DEF OrderInv
  <2>4. \A j \in 1..i : delivered'[j] = committed[j]
    <3>1. i = Len(delivered) + 1
      BY <1>2
    <3> QED BY <2>1, <2>2, <2>3, <3>1
  <2>5. committed' = committed
    BY <1>2
  <2> QED BY <2>1, <2>2, <2>4, <2>5 DEF OrderInv
<1> QED BY <1>1, <1>3, <1>4, <1>5, Zenon, SubscriberKeeps

-----------------------------------------------------------------------------
\* Every step keeps the invariant.
LEMMA NextKeeps == PayloadInv /\ [Next]_vars => PayloadInv'
<1> SUFFICES ASSUME PayloadInv, [Next]_vars PROVE PayloadInv'
  OBVIOUS
<1>1. CASE \E t \in Txs : submit_transaction(t)
  BY <1>1, SubmitKeeps
<1>2. CASE max_batch_delay \/ next_in_pipeline
  BY <1>2, DelayKeeps, NextInPipelineKeeps
<1>3. CASE \E i \in DOMAIN pipeline : Seal(i)
  BY <1>3, FutureKeeps
<1>4. CASE \E p \in Peers, b \in Batches, lost \in BOOLEAN : report_batch(p, b, lost)
  BY <1>4, ReportBatchKeeps
<1>5. CASE \E b \in Batches : give_up(b)
  BY <1>5, GiveUpKeeps
<1>6. CASE \E p \in Authorities : flush(p) \/ crash(p)
  BY <1>6, FlushKeeps, CrashKeeps
<1>7. CASE \E p \in Peers, b \in Batches, dropped \in BOOLEAN : report_others_batch(p, b, dropped)
  BY <1>7, ReportOthersKeeps
<1>8. CASE \E p \in Authorities, b \in Batches : synchronize(p, b)
  BY <1>8, SynchronizeKeeps
<1>9. CASE \E b \in Batches, signers \in SUBSET Authorities : commit(b, signers)
  BY <1>9, CommitKeeps
<1>10. CASE \E i \in DOMAIN committed : fetch_payload(i) \/ next_in_order(i)
  BY <1>10, FetchKeeps, DeliverKeeps
<1>11. CASE UNCHANGED vars
  <2>1. /\ client' = client /\ current' = current /\ pipeline' = pipeline /\ sending' = sending
        /\ recorded' = recorded /\ committed' = committed /\ delivered' = delivered
        /\ stored' = stored /\ tokens' = tokens /\ crashes' = crashes
        /\ queued' = queued /\ others' = others /\ acks' = acks /\ fetched' = fetched
    BY <1>11, Zenon DEF vars, batch_maker, quorum_waiter, handlers, primaries, subscriber
  <2>2. TypeOK
    BY DEF PayloadInv
  <2> QED BY <2>1, <2>2, Types, SpreadKeeps
<1> QED BY <1>1, <1>2, <1>3, <1>4, <1>5, <1>6, <1>7, <1>8, <1>9, <1>10, <1>11 DEF Next

\* The inductive invariant holds of every reachable state of the pipeline.
THEOREM PayloadInvariant == Spec => []PayloadInv
BY InitEstablishes, NextKeeps, PTL DEF Spec

\* Workers, primaries and the subscriber keep the shape of their Rust types,
\* and current_batch stays below batch_size.
THEOREM TypeCorrect == Spec => []TypeOK
<1>1. PayloadInv => TypeOK
  BY DEF PayloadInv
<1> QED BY <1>1, PayloadInvariant, PTL

\* fetch_payload can always end: a signer of each committed payload, its
\* author at the least, has the batch on disk whatever workers crashed.
THEOREM PayloadAvailable == Spec => []CommittedIsAvailable
<1>1. PayloadInv => CommittedIsAvailable
  <2> SUFFICES ASSUME PayloadInv, NEW i \in DOMAIN committed
               PROVE  Me \in committed[i].signers /\ committed[i].batch \in stored[Me]
    BY DEF CommittedIsAvailable, Range
  <2>1. i \in 1..Len(committed)
    BY DEF PayloadInv, ShapeInv
  <2> QED BY <2>1 DEF PayloadInv, CommittedInv, RecordedInv
<1> QED BY <1>1, PayloadInvariant, PTL

\* The subscriber hands the payloads to the executor in the order of rx_sequence,
\* however its concurrent fetches end.
THEOREM DeliveryInOrder == Spec => []DeliveredInOrder
<1>1. PayloadInv => DeliveredInOrder
  <2> SUFFICES ASSUME PayloadInv
               PROVE  /\ Len(delivered) <= Len(committed)
                      /\ delivered = SubSeq(committed, 1, Len(delivered))
    BY DEF DeliveredInOrder
  <2>1. /\ delivered \in Seq(Entries) /\ committed \in Seq(Entries)
        /\ Len(delivered) \in Nat /\ Len(committed) \in Nat
        /\ Len(delivered) <= Len(committed)
        /\ \A i \in 1..Len(delivered) : delivered[i] = committed[i]
    BY DEF PayloadInv, ShapeInv, OrderInv
  <2>2. SubSeq(delivered, 1, Len(delivered)) = SubSeq(committed, 1, Len(delivered))
    BY <2>1
  <2> QED BY <2>1, <2>2
<1> QED BY <1>1, PayloadInvariant, PTL

\* A client whose transaction was answered has it in a batch that is on disk
\* and with the primary, whatever was dropped or crashed.
THEOREM AnswersAreTrue == Spec => []AnsweredIsRecorded
<1>1. PayloadInv => AnsweredIsRecorded
  BY DEF PayloadInv
<1> QED BY <1>1, PayloadInvariant, PTL
=============================================================================
