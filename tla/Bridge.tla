------------------------------- MODULE Bridge -------------------------------
(***************************************************************************)
(* The path of an Ethereum block through Narwhal and back: a signer's geth *)
(* (miner resultLoop and NarwhalAdapter), its gateway and the relay of its *)
(* Narwhal node.  The other signers and the Narwhal network between them   *)
(* are the environment: it orders submitted blocks into one log of         *)
(* consensus outputs, numbered by sub_dag_index.                           *)
(***************************************************************************)
EXTENDS Naturals, Sequences, FiniteSets, Functions

CONSTANTS
  Me, Others,      \* this signer and the other ones
  MaxNumber,       \* bound on block numbers
  MaxForeign,      \* bound on blocks of the other signers
  MaxEmpty,        \* bound on consensus outputs without batches
  ChannelCapacity, \* mpsc channel of the gateway (500)
  OutcCapacity,    \* outc of the adapter (100)
  ResultQueueSize, \* resultCh of the worker (10)
  MaxFaults, MaxNodeRestarts \* bounds on failures and on node restarts

ASSUME BridgeAssumption ==
  /\ Me \notin Others /\ IsFiniteSet(Others)
  /\ MaxNumber \in Nat /\ MaxForeign \in Nat /\ MaxEmpty \in Nat
  /\ MaxFaults \in Nat /\ MaxNodeRestarts \in Nat
  /\ ChannelCapacity \in Nat \ {0} /\ OutcCapacity \in Nat \ {0} /\ ResultQueueSize \in Nat \ {0}

VARIABLES
  geth,       \* "up" or "down"
  life,       \* which incarnation of geth: a block sealed again is another block
  chain, height, \* blocks in its database, number of its head
  sealed, resultCh,
  result_pc, block, \* resultLoop: "select", "broadcast", "wait", and its block
  executed,   \* <<block, index>>: blocks written on the strength of an output
  committedSeqs, outc, taken, \* adapter: map, channel, outputs received from it
  orphans,    \* Notify calls still blocked on outc whose caller is gone
  channel, forwarder, event, \* gateway: mpsc channel, the task that drains it
  relayed,    \* node: outputs handed to the gateway so far
  pool, log,  \* Narwhal: blocks submitted and not ordered, the outputs
  foreign,    \* blocks of other signers
  faults, node_restarts

gethVars == <<geth, life, chain, height, sealed, resultCh, result_pc, block, executed>>
adapterVars == <<committedSeqs, outc, taken, orphans>>
gatewayVars == <<channel, forwarder, event>>
narwhalVars == <<relayed, pool, log>>
vars == <<gethVars, adapterVars, gatewayVars, narwhalVars, foreign, faults, node_restarts>>

Block(signer, number, l) == [signer |-> signer, number |-> number, life |-> l]

NoBlock == Block(Me, 0, 0)

Init ==
  /\ geth = "up" /\ life = 0 /\ chain = {} /\ height = 0
  /\ sealed = {} /\ resultCh = <<>> /\ result_pc = "select" /\ block = NoBlock
  /\ executed = {}
  /\ committedSeqs = {} /\ outc = <<>> /\ taken = <<>> /\ orphans = {}
  /\ channel = <<>> /\ forwarder = "recv" /\ event = 0
  /\ relayed = 0 /\ pool = {} /\ log = <<>>
  /\ foreign = {} /\ faults = 0 /\ node_restarts = 0

-----------------------------------------------------------------------------
(* geth: the miner.                                                         *)

\* taskLoop: clique seals a block on the current head, one per head.
Seal ==
  LET b == Block(Me, height + 1, life)
  IN /\ geth = "up" /\ height < MaxNumber
     /\ b \notin sealed /\ Len(resultCh) < ResultQueueSize
     /\ sealed' = sealed \cup {b}
     /\ resultCh' = Append(resultCh, b)
     /\ UNCHANGED <<geth, life, chain, height, result_pc, block, executed>>
     /\ UNCHANGED <<adapterVars, gatewayVars, narwhalVars, foreign, faults, node_restarts>>

\* resultLoop takes a sealed block, unless it is in the chain already.
TakeResult ==
  /\ geth = "up" /\ result_pc = "select" /\ resultCh # <<>>
  /\ resultCh' = Tail(resultCh)
  /\ IF Head(resultCh) \in chain
     THEN UNCHANGED <<result_pc, block>>
     ELSE result_pc' = "broadcast" /\ block' = Head(resultCh)
  /\ UNCHANGED <<geth, life, chain, height, sealed, executed>>
  /\ UNCHANGED <<adapterVars, gatewayVars, narwhalVars, foreign, faults, node_restarts>>

\* WriteBlockAndSetHead.
WriteBlock(b) ==
  /\ chain' = chain \cup {b}
  /\ height' = IF b.number > height THEN b.number ELSE height

\* Broadcast returns nil: the gateway got the block to a Narwhal worker.
BroadcastOk ==
  /\ geth = "up" /\ result_pc = "broadcast"
  /\ pool' = pool \cup {block}
  /\ result_pc' = "wait"
  /\ UNCHANGED <<geth, life, chain, height, sealed, resultCh, block, executed>>
  /\ UNCHANGED <<adapterVars, gatewayVars, relayed, log, foreign, faults, node_restarts>>

\* Broadcast returns an error and the block is written without ordering.  The
\* gateway was unreachable or answered "fail", or the one second ran out while
\* the submission went on.
BroadcastError ==
  /\ geth = "up" /\ result_pc = "broadcast"
  /\ faults < MaxFaults /\ faults' = faults + 1
  /\ pool' \in {pool, pool \cup {block}}
  /\ WriteBlock(block)
  /\ result_pc' = "select"
  /\ UNCHANGED <<geth, life, sealed, resultCh, block, executed>>
  /\ UNCHANGED <<adapterVars, gatewayVars, relayed, log, foreign, node_restarts>>

\* The comparison of RebuildHeaderWithNarwhalSig: block numbers only.
Matches(b, output) == \E h \in output : h.number = b.number

\* What a crash of the geth process loses; a Notify in progress fails and the
\* gateway ignores it.
LoseGeth ==
  /\ geth' = "down"
  /\ sealed' = {} /\ resultCh' = <<>> /\ result_pc' = "select"
  /\ committedSeqs' = {} /\ outc' = <<>> /\ taken' = <<>> /\ orphans' = {}
  /\ forwarder' = IF forwarder \in {"notify", "enqueue"} THEN "recv" ELSE forwarder

\* WaitForCommit takes the oldest output, whichever it is; the block is
\* rebuilt and written, or resultLoop panics.
WaitForCommit ==
  /\ geth = "up" /\ result_pc = "wait" /\ outc # <<>>
  /\ IF Matches(block, log[Head(outc)])
     THEN /\ WriteBlock(block)
          /\ executed' = executed \cup {<<block, Head(outc)>>}
          /\ result_pc' = "select"
          /\ outc' = Tail(outc) /\ taken' = Append(taken, Head(outc))
          /\ UNCHANGED <<geth, sealed, resultCh, committedSeqs, orphans, forwarder>>
     ELSE LoseGeth /\ UNCHANGED <<chain, height, executed>>
  /\ UNCHANGED <<life, block, channel, event, narwhalVars, foreign, faults, node_restarts>>

\* A block of another signer arrives over devp2p.
ImportBlock(b) ==
  /\ geth = "up" /\ b.number = height + 1
  /\ WriteBlock(b)
  /\ UNCHANGED <<geth, life, sealed, resultCh, result_pc, block, executed>>
  /\ UNCHANGED <<adapterVars, gatewayVars, narwhalVars, foreign, faults, node_restarts>>

GethCrash ==
  /\ geth = "up" /\ faults < MaxFaults /\ faults' = faults + 1
  /\ LoseGeth
  /\ UNCHANGED <<life, chain, height, block, executed, channel, event, narwhalVars, foreign, node_restarts>>

GethRestart ==
  /\ geth = "down" /\ life < MaxFaults
  /\ geth' = "up" /\ life' = life + 1
  /\ UNCHANGED <<chain, height, sealed, resultCh, result_pc, block, executed>>
  /\ UNCHANGED <<adapterVars, gatewayVars, narwhalVars, foreign, faults, node_restarts>>

-----------------------------------------------------------------------------
(* Narwhal: the ordering (environment) and the relay.                       *)

\* Another signer submits a block; there is one per signer and number.
ForeignSubmit(o) ==
  \E n \in 1..MaxNumber :
    /\ n <= height + 1 /\ Block(o, n, 0) \notin foreign
    /\ Cardinality(foreign) < MaxForeign
    /\ foreign' = foreign \cup {Block(o, n, 0)}
    /\ pool' = pool \cup {Block(o, n, 0)}
    /\ UNCHANGED <<gethVars, adapterVars, gatewayVars, relayed, log, faults, node_restarts>>

CommitSubDag(blocks) ==
  /\ blocks \subseteq pool
  /\ blocks = {} => Len(SelectSeq(log, LAMBDA o : o = {})) < MaxEmpty
  /\ pool' = pool \ blocks
  /\ log' = Append(log, blocks)
  /\ UNCHANGED <<gethVars, adapterVars, gatewayVars, relayed, foreign, faults, node_restarts>>

\* Mutant: a full channel drops the output.
RelayMutant ==
  /\ relayed < Len(log)
  /\ relayed' = relayed + 1
  /\ channel' = IF log[relayed + 1] = {} \/ forwarder = "dead" \/ Len(channel) = ChannelCapacity
                THEN channel ELSE Append(channel, relayed + 1)
  /\ UNCHANGED <<gethVars, adapterVars, forwarder, event, pool, log, foreign, faults, node_restarts>>

\* Mutant: an output with a single batch counts as empty.
RelaySkipMutant ==
  /\ relayed < Len(log)
  /\ relayed' = relayed + 1
  /\ IF Cardinality(log[relayed + 1]) <= 1 \/ forwarder = "dead"
     THEN UNCHANGED channel
     ELSE /\ Len(channel) < ChannelCapacity
          /\ channel' = Append(channel, relayed + 1)
  /\ UNCHANGED <<gethVars, adapterVars, forwarder, event, pool, log, foreign, faults, node_restarts>>

\* relay_eth and handle_ethereum_block: outputs without batches are skipped;
\* the send blocks while the channel is full, and fails unnoticed when the
\* forwarder is gone.
Relay ==
  /\ relayed < Len(log)
  /\ relayed' = relayed + 1
  /\ IF log[relayed + 1] = {} \/ forwarder = "dead"
     THEN UNCHANGED channel
     ELSE /\ Len(channel) < ChannelCapacity
          /\ channel' = Append(channel, relayed + 1)
  /\ UNCHANGED <<gethVars, adapterVars, forwarder, event, pool, log, foreign, faults, node_restarts>>

\* A restarted node delivers every committed sub-dag again:
\* last_executed_sub_dag_index is always 0.
NodeRestart ==
  /\ node_restarts < MaxNodeRestarts
  /\ node_restarts' = node_restarts + 1
  /\ relayed' = 0
  /\ UNCHANGED <<gethVars, adapterVars, gatewayVars, pool, log, foreign, faults>>

-----------------------------------------------------------------------------
(* The gateway's forwarder and the adapter's Notify.                        *)

\* recv and connect; client.unwrap() kills the task when geth is down.
Forward ==
  /\ forwarder = "recv" /\ channel # <<>>
  /\ IF geth = "up"
     THEN forwarder' = "notify" /\ event' = Head(channel) /\ channel' = Tail(channel)
     ELSE forwarder' = "dead" /\ channel' = <<>> /\ UNCHANGED event
  /\ UNCHANGED <<gethVars, adapterVars, narwhalVars, foreign, faults, node_restarts>>

\* Mutant: the sequence number is not marked.
NotifyMutant ==
  /\ forwarder = "notify"
  /\ forwarder' = IF event \in committedSeqs THEN "recv" ELSE "enqueue"
  /\ UNCHANGED <<gethVars, adapterVars, channel, event, narwhalVars, foreign, faults, node_restarts>>

\* Notify up to the send: a sequence number seen before is dropped, a new one
\* is marked.
Notify ==
  /\ forwarder = "notify"
  /\ IF event \in committedSeqs
     THEN forwarder' = "recv" /\ UNCHANGED committedSeqs
     ELSE forwarder' = "enqueue" /\ committedSeqs' = committedSeqs \cup {event}
  /\ UNCHANGED <<gethVars, outc, taken, orphans, channel, event, narwhalVars, foreign, faults, node_restarts>>

\* Mutant: the send does not wait for room.
EnqueueMutant ==
  /\ forwarder = "enqueue"
  /\ outc' = Append(outc, event)
  /\ forwarder' = "recv"
  /\ UNCHANGED <<gethVars, committedSeqs, taken, orphans, channel, event, narwhalVars, foreign, faults, node_restarts>>

\* The blocking send on outc; then the forwarder gets its answer.
Enqueue ==
  /\ forwarder = "enqueue" /\ Len(outc) < OutcCapacity
  /\ outc' = Append(outc, event)
  /\ forwarder' = "recv"
  /\ UNCHANGED <<gethVars, committedSeqs, taken, orphans, channel, event, narwhalVars, foreign, faults, node_restarts>>

OrphanEnqueue(e) ==
  /\ Len(outc) < OutcCapacity
  /\ outc' = Append(outc, e)
  /\ orphans' = orphans \ {e}
  /\ UNCHANGED <<gethVars, committedSeqs, taken, gatewayVars, narwhalVars, foreign, faults, node_restarts>>

\* The gateway restarts: its channel is lost, and a Notify that is blocked in
\* geth goes on without it.
GatewayRestart ==
  /\ faults < MaxFaults /\ faults' = faults + 1
  /\ channel' = <<>> /\ forwarder' = "recv"
  /\ orphans' = IF forwarder = "enqueue" THEN orphans \cup {event} ELSE orphans
  /\ UNCHANGED <<gethVars, committedSeqs, outc, taken, event, narwhalVars, foreign, node_restarts>>

Next ==
  \/ Seal \/ TakeResult \/ BroadcastOk \/ BroadcastError \/ WaitForCommit
  \/ \E b \in foreign : ImportBlock(b)
  \/ GethCrash \/ GethRestart
  \/ \E o \in Others : ForeignSubmit(o)
  \/ \E blocks \in SUBSET pool : CommitSubDag(blocks)
  \/ Relay \/ NodeRestart
  \/ Forward \/ Notify \/ Enqueue
  \/ \E e \in orphans : OrphanEnqueue(e)
  \/ GatewayRestart

Spec == Init /\ [][Next]_vars

\* The tasks run, and Narwhal orders what its workers accepted.
Fairness ==
  /\ WF_vars(TakeResult) /\ WF_vars(BroadcastOk \/ BroadcastError) /\ WF_vars(WaitForCommit)
  /\ WF_vars(Relay) /\ WF_vars(Forward) /\ WF_vars(Notify) /\ WF_vars(Enqueue)
  /\ WF_vars(pool # {} /\ CommitSubDag(pool))

FairSpec == Spec /\ Fairness

-----------------------------------------------------------------------------
\* The shape of the state, and no queue beyond its capacity.
TypeOK ==
  /\ geth \in {"up", "down"} /\ life \in Nat /\ height \in Nat
  /\ result_pc \in {"select", "broadcast", "wait"}
  /\ forwarder \in {"recv", "notify", "enqueue", "dead"}
  /\ Len(resultCh) <= ResultQueueSize /\ Len(outc) <= OutcCapacity /\ Len(channel) <= ChannelCapacity
  /\ relayed \in 0..Len(log)
  /\ \A i \in 1..Len(outc) : outc[i] \in 1..Len(log)
  /\ \A i \in 1..Len(channel) : channel[i] \in 1..Len(log)

\* What the adapter of this incarnation of geth has let through.
Admitted == taken \o outc

\* Notify's duplicate detection: however often nodes replay and gateways
\* restart, one incarnation of geth gets an output at most once.
NoDuplicateOutput ==
  /\ IsInjective(Admitted)
  /\ Range(Admitted) \cap orphans = {}
  /\ forwarder = "enqueue" => event \notin Range(Admitted) \cup orphans

\* The outputs given to geth so far, the one in Notify's hands included.
Given == IF forwarder = "enqueue" THEN Append(Admitted, event) ELSE Admitted

\* Nothing has failed yet.
Quiet == faults = 0 /\ geth = "up" /\ life = 0

\* Until something fails, geth receives the outputs that carry blocks in
\* consensus order with none missing, although queues fill up and the node
\* replays from the start.
OutputsInOrder ==
  Quiet => \A i \in 1..Len(Given) :
             /\ log[Given[i]] # {}
             /\ \A j \in 1..Len(Given) : i < j => Given[i] < Given[j]
             /\ \A k \in 1..Given[i] : log[k] # {} => k \in Range(Given)

\* While nothing fails, the first geth process does not wait for ever: the
\* block that resultLoop submitted is written, or the process panics.  A later
\* process may wait for ever, for a forwarder that died on client.unwrap()
\* while geth was down.
WaitsEnd == []<>(result_pc # "wait" \/ faults > 0 \/ life > 0)

\* "Found matching block number, safe to execute": a block written on the
\* strength of a consensus output is in that output.
ExecutedWasOrdered == \A x \in executed : x[1] \in log[x[2]]
=============================================================================
