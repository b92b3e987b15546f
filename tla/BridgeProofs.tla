---------------------------- MODULE BridgeProofs ----------------------------
(***************************************************************************)
(* Proofs about the way back from Narwhal to geth: the queues keep their   *)
(* bounds, no output is given twice, and until something fails the outputs *)
(* come in consensus order with none missing.                              *)
(***************************************************************************)
EXTENDS Bridge, TLAPS

Signers == Others \cup {Me}
Blocks == [signer : Signers, number : Nat, life : Nat]

\* The sequences and the blocks of geth, its miner and Narwhal.
ShapeInv ==
  /\ resultCh \in Seq(Blocks) /\ block \in Blocks /\ foreign \subseteq Blocks
  /\ pool \subseteq Blocks /\ log \in Seq(SUBSET Blocks)
  /\ outc \in Seq(Nat) /\ taken \in Seq(Nat) /\ channel \in Seq(Nat)
  /\ event \in Nat /\ faults \in Nat

\* The output between the gateway and the adapter is one of the log's.
EventInv ==
  /\ forwarder \in {"notify", "enqueue"} => event \in 1..Len(log)
  /\ \A e \in orphans : e \in 1..Len(log)

\* committedSeqs has every output let through, the blocked ones included; each
\* was let through once.
SeqsInv ==
  /\ \A i \in 1..Len(Admitted) : Admitted[i] \in committedSeqs /\ Admitted[i] \notin orphans
  /\ \A i, j \in 1..Len(Admitted) : Admitted[i] = Admitted[j] => i = j
  /\ orphans \subseteq committedSeqs
  /\ forwarder = "enqueue" =>
        /\ event \in committedSeqs /\ event \notin orphans
        /\ \A i \in 1..Len(Admitted) : Admitted[i] # event

\* The output that the forwarder is about to notify.
Held == IF forwarder = "notify" THEN {event} ELSE {}

\* The outputs that carry blocks: the relay passes them on.
Carrying == {n \in 1..Len(log) : log[n] # {}}

\* The outputs queued before position i of the gateway's channel.
Before(q, i) == {q[j] : j \in 1..(i - 1)}

\* Every member of C below k is in S.
Covers(C, S, k) == \A n \in C : n < k => n \in S

\* Until something fails: committedSeqs holds exactly the outputs given to
\* geth, a first part of those that carry blocks, and whatever waits behind
\* them is preceded by all it has to follow.
InOrder ==
  /\ forwarder # "dead" /\ orphans = {}
  /\ \A s \in committedSeqs : s \in Carrying /\ Covers(Carrying, committedSeqs, s)
  /\ \A s \in committedSeqs : \E i \in 1..Len(Given) : Given[i] = s
  /\ \A i \in 1..Len(Given) : Given[i] \in committedSeqs
  /\ \A i, j \in 1..Len(Given) : i < j => Given[i] < Given[j]
  /\ \A s \in Held : s \in Carrying /\ Covers(Carrying, committedSeqs, s)
  /\ \A i \in 1..Len(channel) :
       /\ channel[i] \in Carrying
       /\ Covers(Carrying, committedSeqs \cup Held \cup Before(channel, i), channel[i])
  /\ Covers(Carrying, committedSeqs \cup Held \cup Before(channel, Len(channel) + 1), relayed + 1)

OrderInv == Quiet => InOrder

\* The inductive invariant.
BridgeInv == TypeOK /\ ShapeInv /\ EventInv /\ SeqsInv /\ OrderInv

-----------------------------------------------------------------------------
\* An output that geth takes from outc moves from the end of one sequence to
\* the beginning of the other.
LEMMA MoveHead ==
  ASSUME NEW s \in Seq(Nat), NEW t \in Seq(Nat), t # <<>>
  PROVE  Append(s, Head(t)) \o Tail(t) = s \o t
<1>1. /\ Len(s) \in Nat /\ Len(t) \in Nat /\ Len(t) > 0
      /\ Append(s, Head(t)) \in Seq(Nat) /\ Len(Append(s, Head(t))) = Len(s) + 1
      /\ Tail(t) \in Seq(Nat) /\ Len(Tail(t)) = Len(t) - 1
  OBVIOUS
<1> DEFINE a == Append(s, Head(t)) \o Tail(t)
           b == s \o t
<1>2. a \in Seq(Nat) /\ b \in Seq(Nat) /\ Len(a) = Len(b)
  BY <1>1
<1>3. \A i \in 1..Len(a) : a[i] = b[i]
  BY <1>1
<1> HIDE DEF a, b
<1>4. a = [i \in 1..Len(a) |-> a[i]] /\ b = [i \in 1..Len(a) |-> b[i]]
  BY <1>2
<1>5. a = b
  BY <1>3, <1>4
<1> QED BY <1>5, Zenon DEF a, b

\* The send on outc appends to what was let through.
LEMMA AppendLast ==
  ASSUME NEW s \in Seq(Nat), NEW t \in Seq(Nat), NEW e \in Nat
  PROVE  s \o Append(t, e) = Append(s \o t, e)
OBVIOUS

\* What was let through is a sequence of numbers.
LEMMA AdmittedType ==
  ASSUME ShapeInv
  PROVE  Admitted \in Seq(Nat) /\ Len(Admitted) \in Nat
BY DEF ShapeInv, Admitted

\* One more output in the channel.
LEMMA BeforeAppend ==
  ASSUME NEW q \in Seq(Nat), NEW e \in Nat
  PROVE  /\ \A i \in 1..(Len(q) + 1) : Before(Append(q, e), i) = Before(q, i)
         /\ Before(Append(q, e), Len(q) + 2) = Before(q, Len(q) + 1) \cup {e}
<1> DEFINE r == Append(q, e)
<1>1. /\ Len(q) \in Nat /\ r[Len(q) + 1] = e
      /\ \A j \in 1..Len(q) : r[j] = q[j]
  OBVIOUS
<1> HIDE DEF r
<1>2. ASSUME NEW i \in 1..(Len(q) + 1) PROVE Before(r, i) = Before(q, i)
  <2>1. \A j \in 1..(i - 1) : r[j] = q[j]
    BY <1>1
  <2> QED BY <2>1 DEF Before
<1>3. Before(r, Len(q) + 2) = Before(q, Len(q) + 1) \cup {e}
  <2>1. /\ 1..((Len(q) + 1) - 1) = 1..Len(q)
        /\ 1..((Len(q) + 2) - 1) = 1..Len(q) \cup {Len(q) + 1}
    BY <1>1
  <2>2. /\ Before(r, Len(q) + 2) = {r[j] : j \in 1..Len(q) \cup {Len(q) + 1}}
        /\ Before(q, Len(q) + 1) = {q[j] : j \in 1..Len(q)}
    BY <2>1, Zenon DEF Before
  <2> QED BY <1>1, <2>2
<1> QED BY <1>2, <1>3 DEF r

\* The first output leaves the channel.
LEMMA BeforeTail ==
  ASSUME NEW q \in Seq(Nat), q # <<>>
  PROVE  /\ Before(q, 1) = {}
         /\ \A i \in 1..Len(q) : {Head(q)} \cup Before(Tail(q), i) = Before(q, i + 1)
<1> DEFINE r == Tail(q)
           h == Head(q)
<1>1. Len(q) \in Nat /\ h = q[1] /\ \A j \in 1..(Len(q) - 1) : r[j] = q[j + 1]
  OBVIOUS
<1>2. Before(q, 1) = {}
  BY DEF Before
<1> HIDE DEF r, h
<1>3. ASSUME NEW i \in 1..Len(q) PROVE {h} \cup Before(r, i) = Before(q, i + 1)
  <2>1. /\ \A j \in 1..(i - 1) : r[j] = q[j + 1] /\ j + 1 \in 1..((i + 1) - 1)
        /\ \A k \in 1..((i + 1) - 1) : k = 1 \/ (k - 1 \in 1..(i - 1) /\ r[k - 1] = q[k])
        /\ 1 \in 1..((i + 1) - 1)
    BY <1>1
  <2>2. ASSUME NEW x \in {h} \cup Before(r, i) PROVE x \in Before(q, i + 1)
    <3>1. CASE x = h
      BY <1>1, <2>1, <3>1, Zenon DEF Before
    <3>2. CASE x \in Before(r, i)
      <4>1. PICK j \in 1..(i - 1) : x = r[j]
        BY <3>2, Zenon DEF Before
      <4> QED BY <2>1, <4>1, Zenon DEF Before
    <3> QED BY <3>1, <3>2
  <2>3. ASSUME NEW x \in Before(q, i + 1) PROVE x \in {h} \cup Before(r, i)
    <3>1. PICK k \in 1..((i + 1) - 1) : x = q[k]
      BY Zenon DEF Before
    <3>2. CASE k = 1
      BY <1>1, <3>1, <3>2
    <3>3. CASE k - 1 \in 1..(i - 1) /\ r[k - 1] = q[k]
      BY <3>1, <3>3, Zenon DEF Before
    <3> QED BY <2>1, <3>2, <3>3
  <2> QED BY <2>2, <2>3, Zenon
<1> QED BY <1>2, <1>3, Zenon DEF r, h

\* Nothing has happened yet.
LEMMA InitEstablishes == Init => BridgeInv
<1> SUFFICES ASSUME Init PROVE BridgeInv
  OBVIOUS
<1>1. Admitted = <<>> /\ Len(Admitted) = 0 /\ Len(log) = 0 /\ Len(channel) = 0
  BY DEF Init, Admitted
<1>2. TypeOK
  BY BridgeAssumption DEF Init, TypeOK
<1>3. ShapeInv
  BY BridgeAssumption DEF Init, ShapeInv, NoBlock, Block, Blocks, Signers
<1>4. EventInv
  BY DEF Init, EventInv
<1>5. SeqsInv
  BY <1>1 DEF Init, SeqsInv
<1>6. OrderInv
  BY <1>1 DEF Init, OrderInv, InOrder, Given, Held, Covers, Carrying
<1> QED BY <1>2, <1>3, <1>4, <1>5, <1>6 DEF BridgeInv

\* The order of the outputs depends only on the adapter, the gateway and the relay.
LEMMA OrderFrame ==
  ASSUME OrderInv, Quiet' => Quiet,
         committedSeqs' = committedSeqs, outc' = outc, taken' = taken, orphans' = orphans,
         channel' = channel, forwarder' = forwarder, event' = event,
         relayed' = relayed, log' = log
  PROVE  OrderInv'
<1>1. Given' = Given /\ Held' = Held /\ Carrying' = Carrying
  BY DEF Given, Admitted, Held, Carrying
<1>2. InOrder => InOrder'
  BY <1>1, Zenon DEF InOrder
<1> QED BY <1>2 DEF OrderInv

\* Steps of the miner and of the other signers: nothing on the way back moves.
LEMMA MinerKeeps ==
  ASSUME BridgeInv, Quiet' => Quiet,
         committedSeqs' = committedSeqs, outc' = outc, taken' = taken, orphans' = orphans,
         channel' = channel, forwarder' = forwarder, event' = event,
         relayed' = relayed, log' = log,
         geth' \in {"up", "down"}, life' \in Nat, height' \in Nat, faults' \in Nat,
         result_pc' \in {"select", "broadcast", "wait"},
         resultCh' \in Seq(Blocks), Len(resultCh') <= ResultQueueSize,
         block' \in Blocks, foreign' \subseteq Blocks, pool' \subseteq Blocks
  PROVE  BridgeInv'
<1>0. TypeOK /\ ShapeInv /\ EventInv /\ SeqsInv /\ OrderInv
  BY DEF BridgeInv
<1>1. TypeOK'
  BY <1>0 DEF TypeOK
<1>2. ShapeInv'
  BY <1>0 DEF ShapeInv
<1>3. EventInv'
  BY <1>0 DEF EventInv
<1>4. SeqsInv'
  <2>1. Admitted' = Admitted
    BY DEF Admitted
  <2> QED BY <1>0, <2>1, Zenon DEF SeqsInv
<1>5. OrderInv'
  BY <1>0, OrderFrame
<1> QED BY <1>1, <1>2, <1>3, <1>4, <1>5 DEF BridgeInv

\* What MinerKeeps asks of the present state.
LEMMA Types ==
  ASSUME BridgeInv
  PROVE  /\ geth \in {"up", "down"} /\ life \in Nat /\ height \in Nat /\ faults \in Nat
         /\ result_pc \in {"select", "broadcast", "wait"}
         /\ resultCh \in Seq(Blocks) /\ Len(resultCh) <= ResultQueueSize
         /\ block \in Blocks /\ foreign \subseteq Blocks /\ pool \subseteq Blocks
BY DEF BridgeInv, TypeOK, ShapeInv

\* A block is sealed.
LEMMA SealKeeps == ASSUME BridgeInv, Seal PROVE BridgeInv'
<1> DEFINE b == Block(Me, height + 1, life)
<1>1. /\ committedSeqs' = committedSeqs /\ outc' = outc /\ taken' = taken /\ orphans' = orphans
      /\ channel' = channel /\ forwarder' = forwarder /\ event' = event
      /\ relayed' = relayed /\ log' = log /\ pool' = pool /\ foreign' = foreign
      /\ geth' = geth /\ life' = life /\ height' = height /\ faults' = faults
      /\ result_pc' = result_pc /\ block' = block
  BY Zenon DEF Seal, adapterVars, gatewayVars, narwhalVars
<1>2. resultCh' = Append(resultCh, b) /\ Len(resultCh) < ResultQueueSize
  BY Zenon DEF Seal
<1>3. b \in Blocks
  BY Types DEF Block, Blocks, Signers
<1> HIDE DEF b
<1>4. resultCh' \in Seq(Blocks) /\ Len(resultCh') <= ResultQueueSize
  BY <1>2, <1>3, Types, BridgeAssumption
<1>5. Quiet' => Quiet
  BY <1>1, Zenon DEF Quiet
<1> QED BY <1>1, <1>4, <1>5, Types, MinerKeeps, Zenon

\* The result loop takes a block.
LEMMA TakeResultKeeps == ASSUME BridgeInv, TakeResult PROVE BridgeInv'
<1>1. /\ committedSeqs' = committedSeqs /\ outc' = outc /\ taken' = taken /\ orphans' = orphans
      /\ channel' = channel /\ forwarder' = forwarder /\ event' = event
      /\ relayed' = relayed /\ log' = log /\ pool' = pool /\ foreign' = foreign
      /\ geth' = geth /\ life' = life /\ height' = height /\ faults' = faults
  BY Zenon DEF TakeResult, adapterVars, gatewayVars, narwhalVars
<1>2. /\ resultCh # <<>> /\ resultCh' = Tail(resultCh)
      /\ \/ result_pc' = result_pc /\ block' = block
         \/ result_pc' = "broadcast" /\ block' = Head(resultCh)
  BY Zenon DEF TakeResult
<1>3. /\ resultCh' \in Seq(Blocks) /\ Len(resultCh') <= ResultQueueSize
      /\ Head(resultCh) \in Blocks
  BY <1>2, Types, BridgeAssumption
<1>4. result_pc' \in {"select", "broadcast", "wait"} /\ block' \in Blocks
  BY <1>2, <1>3, Types
<1>5. Quiet' => Quiet
  BY <1>1, Zenon DEF Quiet
<1> QED BY <1>1, <1>3, <1>4, <1>5, Types, MinerKeeps, Zenon

\* The block is with a worker.
LEMMA BroadcastOkKeeps == ASSUME BridgeInv, BroadcastOk PROVE BridgeInv'
<1>1. /\ committedSeqs' = committedSeqs /\ outc' = outc /\ taken' = taken /\ orphans' = orphans
      /\ channel' = channel /\ forwarder' = forwarder /\ event' = event
      /\ relayed' = relayed /\ log' = log /\ foreign' = foreign
      /\ geth' = geth /\ life' = life /\ height' = height /\ faults' = faults
      /\ block' = block /\ resultCh' = resultCh
      /\ result_pc' = "wait" /\ pool' = pool \cup {block}
  BY Zenon DEF BroadcastOk, adapterVars, gatewayVars
<1>2. pool' \subseteq Blocks /\ result_pc' \in {"select", "broadcast", "wait"}
  BY <1>1, Types
<1>3. Quiet' => Quiet
  BY <1>1, Zenon DEF Quiet
<1> QED BY <1>1, <1>2, <1>3, Types, MinerKeeps, Zenon

\* The block is written without an order.
LEMMA BroadcastErrorKeeps == ASSUME BridgeInv, BroadcastError PROVE BridgeInv'
<1>1. /\ committedSeqs' = committedSeqs /\ outc' = outc /\ taken' = taken /\ orphans' = orphans
      /\ channel' = channel /\ forwarder' = forwarder /\ event' = event
      /\ relayed' = relayed /\ log' = log /\ foreign' = foreign
      /\ geth' = geth /\ life' = life /\ block' = block /\ resultCh' = resultCh
  BY Zenon DEF BroadcastError, adapterVars, gatewayVars
<1>2. /\ result_pc' = "select" /\ pool' \in {pool, pool \cup {block}} /\ faults' = faults + 1
      /\ height' = IF block.number > height THEN block.number ELSE height
  BY Zenon DEF BroadcastError, WriteBlock
<1>3. pool' \subseteq Blocks /\ result_pc' \in {"select", "broadcast", "wait"}
  BY <1>2, Types
<1>4. height' \in Nat
  BY <1>2, Types DEF Blocks
<1>5. faults' \in Nat /\ ~ Quiet'
  BY <1>2, Types DEF Quiet
<1> QED BY <1>1, <1>3, <1>4, <1>5, Types, MinerKeeps, Zenon

\* A block of another signer is imported.
LEMMA ImportKeeps == ASSUME BridgeInv, NEW b \in foreign, ImportBlock(b) PROVE BridgeInv'
<1>1. /\ committedSeqs' = committedSeqs /\ outc' = outc /\ taken' = taken /\ orphans' = orphans
      /\ channel' = channel /\ forwarder' = forwarder /\ event' = event
      /\ relayed' = relayed /\ log' = log /\ foreign' = foreign /\ pool' = pool
      /\ geth' = geth /\ life' = life /\ block' = block /\ resultCh' = resultCh
      /\ result_pc' = result_pc /\ faults' = faults
  BY Zenon DEF ImportBlock, adapterVars, gatewayVars, narwhalVars
<1>2. height' = IF b.number > height THEN b.number ELSE height
  BY Zenon DEF ImportBlock, WriteBlock
<1>3. height' \in Nat
  BY <1>2, Types DEF Blocks
<1>4. Quiet' => Quiet
  BY <1>1, Zenon DEF Quiet
<1> QED BY <1>1, <1>3, <1>4, Types, MinerKeeps, Zenon

\* geth starts again.
LEMMA RestartKeeps == ASSUME BridgeInv, GethRestart PROVE BridgeInv'
<1>1. /\ committedSeqs' = committedSeqs /\ outc' = outc /\ taken' = taken /\ orphans' = orphans
      /\ channel' = channel /\ forwarder' = forwarder /\ event' = event
      /\ relayed' = relayed /\ log' = log /\ foreign' = foreign /\ pool' = pool
      /\ height' = height /\ block' = block /\ resultCh' = resultCh
      /\ result_pc' = result_pc /\ faults' = faults
      /\ geth' = "up" /\ life' = life + 1
  BY Zenon DEF GethRestart, adapterVars, gatewayVars, narwhalVars
<1>2. life' \in Nat /\ geth' \in {"up", "down"} /\ ~ Quiet'
  BY <1>1, Types DEF Quiet
<1> QED BY <1>1, <1>2, Types, MinerKeeps, Zenon

\* Another signer submits a block.
LEMMA ForeignKeeps == ASSUME BridgeInv, NEW o \in Others, ForeignSubmit(o) PROVE BridgeInv'
<1>1. PICK n \in 1..MaxNumber : /\ foreign' = foreign \cup {Block(o, n, 0)}
                                /\ pool' = pool \cup {Block(o, n, 0)}
  BY Zenon DEF ForeignSubmit
<1>2. /\ committedSeqs' = committedSeqs /\ outc' = outc /\ taken' = taken /\ orphans' = orphans
      /\ channel' = channel /\ forwarder' = forwarder /\ event' = event
      /\ relayed' = relayed /\ log' = log /\ geth' = geth /\ life' = life
      /\ height' = height /\ block' = block /\ resultCh' = resultCh
      /\ result_pc' = result_pc /\ faults' = faults
  BY Zenon DEF ForeignSubmit, gethVars, adapterVars, gatewayVars
<1>3. Block(o, n, 0) \in Blocks
  BY BridgeAssumption DEF Block, Blocks, Signers
<1>4. foreign' \subseteq Blocks /\ pool' \subseteq Blocks
  BY <1>1, <1>3, Types
<1>5. Quiet' => Quiet
  BY <1>2, Zenon DEF Quiet
<1> QED BY <1>2, <1>4, <1>5, Types, MinerKeeps, Zenon

-----------------------------------------------------------------------------
\* The geth process ends, and its adapter with it.
LEMMA LoseGethKeeps ==
  ASSUME BridgeInv, LoseGeth, life' = life, height' = height, block' = block,
         channel' = channel, event' = event, relayed' = relayed, pool' = pool, log' = log,
         foreign' = foreign, faults' \in Nat
  PROVE  BridgeInv'
<1>0. TypeOK /\ ShapeInv /\ EventInv
  BY DEF BridgeInv
<1>1. /\ geth' = "down" /\ resultCh' = <<>> /\ result_pc' = "select"
      /\ outc' = <<>> /\ taken' = <<>> /\ orphans' = {}
      /\ forwarder' = IF forwarder \in {"notify", "enqueue"} THEN "recv" ELSE forwarder
  BY Zenon DEF LoseGeth
<1>2. forwarder' \in {"recv", "dead"}
  BY <1>0, <1>1 DEF TypeOK
<1>3. TypeOK'
  BY <1>0, <1>1, <1>2, BridgeAssumption DEF TypeOK
<1>4. ShapeInv'
  BY <1>0, <1>1 DEF ShapeInv
<1>5. EventInv'
  BY <1>1, <1>2 DEF EventInv
<1>6. SeqsInv'
  <2>1. Len(Admitted') = 0
    BY <1>1 DEF Admitted
  <2> QED BY <1>1, <1>2, <2>1 DEF SeqsInv
<1>7. OrderInv'
  BY <1>1 DEF OrderInv, Quiet
<1> QED BY <1>3, <1>4, <1>5, <1>6, <1>7 DEF BridgeInv

\* geth crashes.
LEMMA CrashKeeps == ASSUME BridgeInv, GethCrash PROVE BridgeInv'
<1>1. /\ LoseGeth /\ life' = life /\ height' = height /\ block' = block
      /\ channel' = channel /\ event' = event /\ relayed' = relayed /\ pool' = pool /\ log' = log
      /\ foreign' = foreign /\ faults' = faults + 1
  BY Zenon DEF GethCrash, narwhalVars
<1>2. faults' \in Nat
  BY <1>1, Types
<1> QED BY <1>1, <1>2, LoseGethKeeps, Zenon

\* The result loop takes an output: it writes the block or panics.
LEMMA WaitForCommitKeeps == ASSUME BridgeInv, WaitForCommit PROVE BridgeInv'
<1>0. TypeOK /\ ShapeInv /\ EventInv /\ SeqsInv /\ OrderInv
  BY DEF BridgeInv
<1>1. /\ life' = life /\ block' = block /\ channel' = channel /\ event' = event
      /\ relayed' = relayed /\ pool' = pool /\ log' = log
      /\ foreign' = foreign /\ faults' = faults /\ outc # <<>>
  BY Zenon DEF WaitForCommit, narwhalVars
<1>2. CASE Matches(block, log[Head(outc)])
  <2>1. /\ outc' = Tail(outc) /\ taken' = Append(taken, Head(outc)) /\ result_pc' = "select"
        /\ geth' = geth /\ resultCh' = resultCh /\ committedSeqs' = committedSeqs
        /\ orphans' = orphans /\ forwarder' = forwarder
        /\ height' = IF block.number > height THEN block.number ELSE height
    BY <1>2, Zenon DEF WaitForCommit, WriteBlock
  <2>2. height' \in Nat
    BY <2>1, Types DEF Blocks
  <2>3. /\ outc' \in Seq(Nat) /\ taken' \in Seq(Nat) /\ Len(outc') <= OutcCapacity
        /\ \A i \in 1..Len(outc') : outc'[i] \in 1..Len(log)
    <3>1. /\ outc \in Seq(Nat) /\ taken \in Seq(Nat) /\ Len(outc) <= OutcCapacity
          /\ \A i \in 1..Len(outc) : outc[i] \in 1..Len(log)
      BY <1>0 DEF TypeOK, ShapeInv
    <3> QED BY <1>1, <2>1, <3>1, BridgeAssumption
  <2>4. TypeOK'
    BY <1>0, <1>1, <2>1, <2>2, <2>3 DEF TypeOK
  <2>5. ShapeInv'
    BY <1>0, <1>1, <2>1, <2>3 DEF ShapeInv
  <2>6. EventInv'
    BY <1>0, <1>1, <2>1, Zenon DEF EventInv
  <2>7. Admitted' = Admitted
    BY <1>0, <1>1, <2>1, MoveHead, Zenon DEF Admitted, ShapeInv
  <2>8. SeqsInv'
    BY <1>0, <1>1, <2>1, <2>7, Zenon DEF SeqsInv
  <2>9. OrderInv'
    <3>1. Given' = Given /\ Held' = Held /\ Carrying' = Carrying
      BY <1>1, <2>1, <2>7, Zenon DEF Given, Held, Carrying
    <3>2. InOrder => InOrder'
      BY <1>1, <2>1, <3>1, Zenon DEF InOrder
    <3>3. Quiet' => Quiet
      BY <1>1, <2>1, Zenon DEF Quiet
    <3> QED BY <1>0, <3>2, <3>3 DEF OrderInv
  <2> QED BY <2>4, <2>5, <2>6, <2>8, <2>9 DEF BridgeInv
<1>3. CASE ~ Matches(block, log[Head(outc)])
  <2>1. LoseGeth /\ height' = height
    BY <1>3, Zenon DEF WaitForCommit
  <2>2. faults' \in Nat
    BY <1>1, Types
  <2> QED BY <1>1, <2>1, <2>2, LoseGethKeeps, Zenon
<1> QED BY <1>2, <1>3

-----------------------------------------------------------------------------
\* Steps of Narwhal, the gateway and Notify: geth's own state does not move.
LEMMA GethFrame ==
  ASSUME BridgeInv,
         geth' = geth, life' = life, height' = height, result_pc' = result_pc,
         resultCh' = resultCh, block' = block, foreign' = foreign,
         faults' \in Nat, pool' \subseteq Blocks, log' \in Seq(SUBSET Blocks),
         outc' \in Seq(Nat), taken' \in Seq(Nat), channel' \in Seq(Nat), event' \in Nat,
         forwarder' \in {"recv", "notify", "enqueue", "dead"}, relayed' \in 0..Len(log'),
         Len(outc') <= OutcCapacity, Len(channel') <= ChannelCapacity,
         \A i \in 1..Len(outc') : outc'[i] \in 1..Len(log'),
         \A i \in 1..Len(channel') : channel'[i] \in 1..Len(log'),
         EventInv', SeqsInv', OrderInv'
  PROVE  BridgeInv'
<1>0. TypeOK /\ ShapeInv
  BY DEF BridgeInv
<1>1. TypeOK'
  BY <1>0 DEF TypeOK
<1>2. ShapeInv'
  BY <1>0 DEF ShapeInv
<1> QED BY <1>1, <1>2 DEF BridgeInv

\* What GethFrame asks of the present state.
LEMMA QueueTypes ==
  ASSUME BridgeInv
  PROVE  /\ faults \in Nat /\ pool \subseteq Blocks /\ log \in Seq(SUBSET Blocks)
         /\ outc \in Seq(Nat) /\ taken \in Seq(Nat) /\ channel \in Seq(Nat) /\ event \in Nat
         /\ forwarder \in {"recv", "notify", "enqueue", "dead"} /\ relayed \in 0..Len(log)
         /\ Len(outc) <= OutcCapacity /\ Len(channel) <= ChannelCapacity
         /\ \A i \in 1..Len(outc) : outc[i] \in 1..Len(log)
         /\ \A i \in 1..Len(channel) : channel[i] \in 1..Len(log)
BY DEF BridgeInv, TypeOK, ShapeInv

\* Narwhal orders some blocks: what is below the end of the log stays.
LEMMA CommitKeeps ==
  ASSUME BridgeInv, NEW blocks \in SUBSET pool, CommitSubDag(blocks)
  PROVE  BridgeInv'
<1>0. EventInv /\ SeqsInv /\ OrderInv
  BY DEF BridgeInv
<1>1. /\ geth' = geth /\ life' = life /\ height' = height /\ result_pc' = result_pc
      /\ resultCh' = resultCh /\ block' = block /\ foreign' = foreign /\ faults' = faults
      /\ committedSeqs' = committedSeqs /\ outc' = outc /\ taken' = taken /\ orphans' = orphans
      /\ channel' = channel /\ forwarder' = forwarder /\ event' = event /\ relayed' = relayed
  BY Zenon DEF CommitSubDag, gethVars, adapterVars, gatewayVars
<1>2. pool' = pool \ blocks /\ log' = Append(log, blocks)
  BY Zenon DEF CommitSubDag
<1>3. /\ pool' \subseteq Blocks /\ log' \in Seq(SUBSET Blocks)
      /\ Len(log) \in Nat /\ Len(log') = Len(log) + 1
      /\ \A n \in 1..Len(log) : log'[n] = log[n]
  BY <1>2, QueueTypes
<1>4. 1..Len(log) \subseteq 1..Len(log') /\ 0..Len(log) \subseteq 0..Len(log')
  BY <1>3
<1>5. /\ relayed' \in 0..Len(log')
      /\ \A i \in 1..Len(outc') : outc'[i] \in 1..Len(log')
      /\ \A i \in 1..Len(channel') : channel'[i] \in 1..Len(log')
  BY <1>1, <1>4, QueueTypes, Zenon
<1>6. EventInv'
  BY <1>0, <1>1, <1>4 DEF EventInv
<1>7. SeqsInv'
  <2>1. Admitted' = Admitted
    BY <1>1, Zenon DEF Admitted
  <2> QED BY <1>0, <1>1, <2>1, Zenon DEF SeqsInv
<1>8. OrderInv'
  <2>1. Given' = Given /\ Held' = Held
    BY <1>1, Zenon DEF Given, Held, Admitted
  <2>2. Carrying \subseteq Carrying' /\ \A n \in Carrying' : n <= Len(log) => n \in Carrying
    BY <1>3 DEF Carrying
  <2>3. \A s \in Carrying : s \in 1..Len(log)
    BY DEF Carrying
  <2>4. ASSUME NEW S, NEW k \in Nat, k <= Len(log) + 1, Covers(Carrying, S, k)
        PROVE  Covers(Carrying', S, k)
    <3>1. \A n \in Carrying' : n \in Nat
      BY <1>3 DEF Carrying
    <3> QED BY <1>3, <2>2, <2>4, <3>1 DEF Covers
  <2>5. ASSUME NEW S, NEW s \in Carrying, Covers(Carrying, S, s)
        PROVE  s \in Carrying' /\ Covers(Carrying', S, s)
    <3>1. s \in Nat /\ s <= Len(log) + 1
      BY <1>3, <2>3
    <3> QED BY <2>2, <2>4, <2>5, <3>1
  <2>6. relayed + 1 \in Nat /\ relayed + 1 <= Len(log) + 1
    BY <1>3, QueueTypes
  <2>7. Quiet' => Quiet
    BY <1>1, Zenon DEF Quiet
  <2> SUFFICES ASSUME InOrder PROVE InOrder'
    BY <1>0, <2>7 DEF OrderInv
  <2>8. \A s \in committedSeqs : s \in Carrying' /\ Covers(Carrying', committedSeqs, s)
    BY <2>5 DEF InOrder
  <2>9. \A s \in Held : s \in Carrying' /\ Covers(Carrying', committedSeqs, s)
    BY <2>5 DEF InOrder
  <2>10. \A i \in 1..Len(channel) :
           /\ channel[i] \in Carrying'
           /\ Covers(Carrying', committedSeqs \cup Held \cup Before(channel, i), channel[i])
    BY <2>5, Zenon DEF InOrder
  <2>11. Covers(Carrying', committedSeqs \cup Held \cup Before(channel, Len(channel) + 1), relayed + 1)
    BY <2>4, <2>6 DEF InOrder
  <2> QED BY <1>1, <2>1, <2>8, <2>9, <2>10, <2>11, Zenon DEF InOrder
<1> QED BY <1>1, <1>3, <1>5, <1>6, <1>7, <1>8, QueueTypes, GethFrame, Zenon

\* The relay passes an output on, or skips one without batches.
LEMMA RelayKeeps == ASSUME BridgeInv, Relay PROVE BridgeInv'
<1>0. EventInv /\ SeqsInv /\ OrderInv
  BY DEF BridgeInv
<1>1. /\ geth' = geth /\ life' = life /\ height' = height /\ result_pc' = result_pc
      /\ resultCh' = resultCh /\ block' = block /\ foreign' = foreign /\ faults' = faults
      /\ committedSeqs' = committedSeqs /\ outc' = outc /\ taken' = taken /\ orphans' = orphans
      /\ forwarder' = forwarder /\ event' = event /\ pool' = pool /\ log' = log
  BY Zenon DEF Relay, gethVars, adapterVars
<1>2. relayed' = relayed + 1 /\ relayed < Len(log)
  BY Zenon DEF Relay
<1>3. /\ relayed \in Nat /\ Len(log) \in Nat /\ Len(channel) \in Nat
      /\ relayed + 1 \in 1..Len(log) /\ relayed' \in 0..Len(log')
  BY <1>1, <1>2, QueueTypes
<1>4. EventInv'
  BY <1>0, <1>1, Zenon DEF EventInv
<1>5. SeqsInv'
  <2>1. Admitted' = Admitted
    BY <1>1, Zenon DEF Admitted
  <2> QED BY <1>0, <1>1, <2>1, Zenon DEF SeqsInv
<1>6. Given' = Given /\ Held' = Held /\ Carrying' = Carrying
  BY <1>1, Zenon DEF Given, Held, Admitted, Carrying
<1>7. Quiet' => Quiet
  BY <1>1, Zenon DEF Quiet
<1>8. \A n \in Carrying : n \in Nat
  BY <1>3 DEF Carrying
<1>9. CASE log[relayed + 1] = {} \/ forwarder = "dead"
  <2>1. channel' = channel
    BY <1>9, Zenon DEF Relay
  <2>2. OrderInv'
    <3> SUFFICES ASSUME InOrder PROVE InOrder'
      BY <1>0, <1>7 DEF OrderInv
    <3>1. relayed + 1 \notin Carrying
      BY <1>9 DEF InOrder, Carrying
    <3>2. Covers(Carrying, committedSeqs \cup Held \cup Before(channel, Len(channel) + 1), relayed + 1)
      BY Zenon DEF InOrder
    <3>3. Covers(Carrying, committedSeqs \cup Held \cup Before(channel, Len(channel) + 1), relayed' + 1)
      BY <1>2, <1>3, <1>8, <3>1, <3>2 DEF Covers
    <3> QED BY <1>1, <1>6, <2>1, <3>3, Zenon DEF InOrder
  <2> QED BY <1>1, <1>3, <1>4, <1>5, <2>1, <2>2, QueueTypes, GethFrame, Zenon
<1>10. CASE ~ (log[relayed + 1] = {} \/ forwarder = "dead")
  <2> DEFINE L == Len(channel)
  <2>1. channel' = Append(channel, relayed + 1) /\ L < ChannelCapacity
    BY <1>10, Zenon DEF Relay
  <2>2. /\ channel' \in Seq(Nat) /\ Len(channel') = L + 1 /\ L + 1 <= ChannelCapacity
        /\ channel'[L + 1] = relayed + 1
        /\ \A i \in 1..L : channel'[i] = channel[i]
    BY <1>3, <2>1, QueueTypes, BridgeAssumption
  <2>3. /\ \A i \in 1..Len(channel') : channel'[i] \in 1..Len(log')
        /\ Len(channel') <= ChannelCapacity
    <3>1. \A i \in 1..L : channel[i] \in 1..Len(log)
      BY QueueTypes
    <3> HIDE DEF L
    <3>2. L \in Nat
      BY <1>3 DEF L
    <3> QED BY <1>1, <1>3, <2>2, <3>1, <3>2
  <2>4. /\ \A i \in 1..(L + 1) : Before(channel', i) = Before(channel, i)
        /\ Before(channel', L + 2) = Before(channel, L + 1) \cup {relayed + 1}
    BY <1>3, <2>1, QueueTypes, BeforeAppend
  <2>5. OrderInv'
    <3> SUFFICES ASSUME InOrder PROVE InOrder'
      BY <1>0, <1>7 DEF OrderInv
    <3>1. relayed + 1 \in Carrying
      BY <1>3, <1>10 DEF Carrying
    <3>2. Covers(Carrying, committedSeqs \cup Held \cup Before(channel, L + 1), relayed + 1)
      BY Zenon DEF InOrder
    <3>3. \A i \in 1..Len(channel') :
            /\ channel'[i] \in Carrying
            /\ Covers(Carrying, committedSeqs \cup Held \cup Before(channel', i), channel'[i])
      <4> SUFFICES ASSUME NEW i \in 1..Len(channel')
                   PROVE  /\ channel'[i] \in Carrying
                          /\ Covers(Carrying, committedSeqs \cup Held \cup Before(channel', i), channel'[i])
        BY Zenon
      <4>1. CASE i \in 1..L
        <5>1. channel'[i] = channel[i] /\ Before(channel', i) = Before(channel, i)
          BY <1>3, <2>2, <2>4, <4>1
        <5> QED BY <4>1, <5>1, Zenon DEF InOrder
      <4>2. CASE i = L + 1
        <5>1. channel'[i] = relayed + 1 /\ Before(channel', i) = Before(channel, L + 1)
          BY <1>3, <2>2, <2>4, <4>2
        <5> QED BY <3>1, <3>2, <5>1
      <4> QED BY <1>3, <2>2, <4>1, <4>2
    <3>4. Covers(Carrying, committedSeqs \cup Held \cup Before(channel', Len(channel') + 1), relayed' + 1)
      <4>1. Before(channel', Len(channel') + 1) = Before(channel, L + 1) \cup {relayed + 1}
        BY <1>3, <2>2, <2>4
      <4> HIDE DEF L
      <4> QED BY <1>2, <1>3, <1>8, <3>2, <4>1 DEF Covers
    <3> QED BY <1>1, <1>6, <3>3, <3>4, Zenon DEF InOrder
  <2> QED BY <1>1, <1>3, <1>4, <1>5, <2>2, <2>3, <2>5, QueueTypes, GethFrame, Zenon
<1> QED BY <1>9, <1>10

\* A restarted node starts from the first output again.
LEMMA NodeRestartKeeps == ASSUME BridgeInv, NodeRestart PROVE BridgeInv'
<1>0. EventInv /\ SeqsInv /\ OrderInv
  BY DEF BridgeInv
<1>1. /\ geth' = geth /\ life' = life /\ height' = height /\ result_pc' = result_pc
      /\ resultCh' = resultCh /\ block' = block /\ foreign' = foreign /\ faults' = faults
      /\ committedSeqs' = committedSeqs /\ outc' = outc /\ taken' = taken /\ orphans' = orphans
      /\ channel' = channel /\ forwarder' = forwarder /\ event' = event /\ pool' = pool /\ log' = log
      /\ relayed' = 0
  BY Zenon DEF NodeRestart, gethVars, adapterVars, gatewayVars
<1>2. relayed' \in 0..Len(log')
  BY <1>1, QueueTypes
<1>3. EventInv'
  BY <1>0, <1>1, Zenon DEF EventInv
<1>4. SeqsInv'
  <2>1. Admitted' = Admitted
    BY <1>1, Zenon DEF Admitted
  <2> QED BY <1>0, <1>1, <2>1, Zenon DEF SeqsInv
<1>5. OrderInv'
  <2>1. Given' = Given /\ Held' = Held /\ Carrying' = Carrying
    BY <1>1, Zenon DEF Given, Held, Admitted, Carrying
  <2>2. Quiet' => Quiet
    BY <1>1, Zenon DEF Quiet
  <2>3. \A n \in Carrying : n \in Nat /\ n >= 1
    BY QueueTypes DEF Carrying
  <2>4. \A S : Covers(Carrying, S, relayed' + 1)
    BY <1>1, <2>3 DEF Covers
  <2>5. InOrder => InOrder'
    BY <1>1, <2>1, <2>4, Zenon DEF InOrder
  <2> QED BY <1>0, <2>2, <2>5 DEF OrderInv
<1> QED BY <1>1, <1>2, <1>3, <1>4, <1>5, QueueTypes, GethFrame, Zenon

-----------------------------------------------------------------------------
\* The forwarder takes an output from its channel, or dies because geth is down.
LEMMA ForwardKeeps == ASSUME BridgeInv, Forward PROVE BridgeInv'
<1>0. EventInv /\ SeqsInv /\ OrderInv
  BY DEF BridgeInv
<1>1. /\ geth' = geth /\ life' = life /\ height' = height /\ result_pc' = result_pc
      /\ resultCh' = resultCh /\ block' = block /\ foreign' = foreign /\ faults' = faults
      /\ committedSeqs' = committedSeqs /\ outc' = outc /\ taken' = taken /\ orphans' = orphans
      /\ relayed' = relayed /\ pool' = pool /\ log' = log
      /\ forwarder = "recv" /\ channel # <<>>
  BY Zenon DEF Forward, gethVars, adapterVars, narwhalVars
<1>2. forwarder' \in {"notify", "dead"}
  BY Zenon DEF Forward
<1>3. SeqsInv'
  <2>1. Admitted' = Admitted
    BY <1>1, Zenon DEF Admitted
  <2>2. forwarder' # "enqueue"
    BY <1>2
  <2> QED BY <1>0, <1>1, <2>1, <2>2, Zenon DEF SeqsInv
<1>4. CASE geth = "up"
  <2>1. forwarder' = "notify" /\ event' = Head(channel) /\ channel' = Tail(channel)
    BY <1>4, Zenon DEF Forward
  <2>2. /\ channel \in Seq(Nat) /\ Len(channel) \in Nat /\ Len(channel) <= ChannelCapacity
        /\ \A i \in 1..Len(channel) : channel[i] \in 1..Len(log)
    BY QueueTypes
  <2>3. /\ channel' \in Seq(Nat) /\ Len(channel') = Len(channel) - 1 /\ Len(channel) >= 1
        /\ event' = channel[1] /\ \A i \in 1..Len(channel') : channel'[i] = channel[i + 1]
    BY <1>1, <2>1, <2>2
  <2>4. /\ event' \in Nat /\ event' \in 1..Len(log') /\ Len(channel') <= ChannelCapacity
        /\ \A i \in 1..Len(channel') : channel'[i] \in 1..Len(log')
    <3>1. /\ log' = log /\ Len(log) \in Nat /\ ChannelCapacity \in Nat
          /\ 1 \in 1..Len(channel) /\ \A i \in 1..Len(channel') : i + 1 \in 1..Len(channel)
      BY <1>1, <2>2, <2>3, QueueTypes, BridgeAssumption
    <3>2. event' \in 1..Len(log') /\ \A i \in 1..Len(channel') : channel'[i] \in 1..Len(log')
      BY <2>2, <2>3, <3>1, Zenon
    <3>3. event' \in Nat /\ Len(channel') <= ChannelCapacity
      BY <2>2, <2>3, <3>1, <3>2
    <3> QED BY <3>2, <3>3
  <2>5. EventInv'
    BY <1>0, <1>1, <2>4 DEF EventInv
  <2>6. OrderInv'
    <3>1. Quiet' => Quiet
      BY <1>1, Zenon DEF Quiet
    <3> SUFFICES ASSUME InOrder PROVE InOrder'
      BY <1>0, <3>1 DEF OrderInv
    <3>2. Given' = Given /\ Carrying' = Carrying
      BY <1>1, <2>1, Zenon DEF Given, Admitted, Carrying
    <3>3. Held = {} /\ Held' = {Head(channel)} /\ Held' = {channel[1]}
      BY <1>1, <2>1, <2>3 DEF Held
    <3>4. /\ Before(channel, 1) = {}
          /\ \A i \in 1..Len(channel) : Held' \cup Before(channel', i) = Before(channel, i + 1)
      BY <1>1, <2>1, <2>2, <3>3, BeforeTail, Zenon
    <3>5. \A i \in 1..Len(channel) :
            /\ channel[i] \in Carrying
            /\ Covers(Carrying, committedSeqs \cup Held \cup Before(channel, i), channel[i])
      BY Zenon DEF InOrder
    <3>6. \A s \in Held' : s \in Carrying /\ Covers(Carrying, committedSeqs, s)
      <4>1. 1 \in 1..Len(channel)
        BY <2>2, <2>3
      <4>2. committedSeqs \cup Held \cup Before(channel, 1) = committedSeqs
        BY <3>3, <3>4
      <4> QED BY <3>3, <3>5, <4>1, <4>2, Zenon
    <3>7. \A i \in 1..Len(channel') :
            /\ channel'[i] \in Carrying
            /\ Covers(Carrying, committedSeqs \cup Held' \cup Before(channel', i), channel'[i])
      <4> SUFFICES ASSUME NEW i \in 1..Len(channel')
                   PROVE  /\ channel'[i] \in Carrying
                          /\ Covers(Carrying, committedSeqs \cup Held' \cup Before(channel', i), channel'[i])
        BY Zenon
      <4>1. i \in 1..Len(channel) /\ i + 1 \in 1..Len(channel) /\ channel'[i] = channel[i + 1]
        BY <2>2, <2>3
      <4>2. committedSeqs \cup Held' \cup Before(channel', i)
              = committedSeqs \cup Held \cup Before(channel, i + 1)
        BY <3>3, <3>4, <4>1
      <4> QED BY <3>5, <4>1, <4>2, Zenon
    <3>8. Covers(Carrying, committedSeqs \cup Held' \cup Before(channel', Len(channel') + 1), relayed' + 1)
      <4>1. Len(channel') + 1 = Len(channel) /\ Len(channel) \in 1..Len(channel)
        BY <2>2, <2>3
      <4>2. committedSeqs \cup Held' \cup Before(channel', Len(channel') + 1)
              = committedSeqs \cup Held \cup Before(channel, Len(channel) + 1)
        BY <3>3, <3>4, <4>1
      <4>3. Covers(Carrying, committedSeqs \cup Held \cup Before(channel, Len(channel) + 1), relayed + 1)
        BY Zenon DEF InOrder
      <4> QED BY <1>1, <4>2, <4>3, Zenon
    <3>9. forwarder' # "dead"
      BY <2>1
    <3> QED BY <1>1, <3>2, <3>6, <3>7, <3>8, <3>9, Zenon DEF InOrder
  <2>7. forwarder' \in {"recv", "notify", "enqueue", "dead"}
    BY <2>1
  <2> QED BY <1>1, <1>3, <2>3, <2>4, <2>5, <2>6, <2>7, QueueTypes, GethFrame, Zenon
<1>5. CASE geth # "up"
  <2>1. forwarder' = "dead" /\ channel' = <<>> /\ event' = event
    BY <1>5, Zenon DEF Forward
  <2>2. /\ channel' \in Seq(Nat) /\ Len(channel') = 0 /\ Len(channel') <= ChannelCapacity
        /\ \A i \in 1..Len(channel') : channel'[i] \in 1..Len(log')
        /\ forwarder' \in {"recv", "notify", "enqueue", "dead"}
    BY <2>1, BridgeAssumption
  <2>3. EventInv'
    BY <1>0, <1>1, <2>1 DEF EventInv
  <2>4. OrderInv'
    BY <1>1, <1>5 DEF OrderInv, Quiet
  <2> QED BY <1>1, <1>3, <2>1, <2>2, <2>3, <2>4, QueueTypes, GethFrame, Zenon
<1> QED BY <1>4, <1>5

\* Notify drops an output that was seen before and marks a new one.
LEMMA NotifyKeeps == ASSUME BridgeInv, Notify PROVE BridgeInv'
<1>0. EventInv /\ SeqsInv /\ OrderInv
  BY DEF BridgeInv
<1>1. /\ geth' = geth /\ life' = life /\ height' = height /\ result_pc' = result_pc
      /\ resultCh' = resultCh /\ block' = block /\ foreign' = foreign /\ faults' = faults
      /\ outc' = outc /\ taken' = taken /\ orphans' = orphans /\ channel' = channel
      /\ event' = event /\ relayed' = relayed /\ pool' = pool /\ log' = log
      /\ forwarder = "notify"
  BY Zenon DEF Notify, gethVars, narwhalVars
<1>2. Admitted' = Admitted /\ Carrying' = Carrying /\ (Quiet' => Quiet)
  BY <1>1, Zenon DEF Admitted, Carrying, Quiet
<1>3. Held = {event} /\ Given = Admitted
  BY <1>1 DEF Held, Given
<1>4. event \in 1..Len(log)
  BY <1>0, <1>1 DEF EventInv
<1>5. CASE event \in committedSeqs
  <2>1. forwarder' = "recv" /\ committedSeqs' = committedSeqs
    BY <1>5, Zenon DEF Notify
  <2>2. EventInv'
    BY <1>0, <1>1, <2>1 DEF EventInv
  <2>3. SeqsInv'
    <3>1. forwarder' # "enqueue"
      BY <2>1
    <3> QED BY <1>0, <1>1, <1>2, <2>1, <3>1, Zenon DEF SeqsInv
  <2>4. OrderInv'
    <3> SUFFICES ASSUME InOrder PROVE InOrder'
      BY <1>0, <1>2 DEF OrderInv
    <3>1. Held' = {} /\ Given' = Given /\ forwarder' # "dead"
      BY <1>2, <1>3, <2>1 DEF Held, Given
    <3>2. committedSeqs' \cup Held' = committedSeqs \cup Held
      BY <1>3, <1>5, <2>1, <3>1
    <3> QED BY <1>1, <1>2, <2>1, <3>1, <3>2, Zenon DEF InOrder
  <2>5. forwarder' \in {"recv", "notify", "enqueue", "dead"}
    BY <2>1
  <2> QED BY <1>1, <2>1, <2>2, <2>3, <2>4, <2>5, QueueTypes, GethFrame, Zenon
<1>6. CASE event \notin committedSeqs
  <2>1. forwarder' = "enqueue" /\ committedSeqs' = committedSeqs \cup {event}
    BY <1>6, Zenon DEF Notify
  <2>2. EventInv'
    BY <1>0, <1>1, <1>4 DEF EventInv
  <2>3. SeqsInv'
    <3>1. event' \notin orphans' /\ event' \in committedSeqs'
      BY <1>0, <1>1, <1>6, <2>1 DEF SeqsInv
    <3>2. \A i \in 1..Len(Admitted') : Admitted'[i] # event' /\ Admitted'[i] \in committedSeqs'
      BY <1>0, <1>1, <1>2, <1>6, <2>1 DEF SeqsInv
    <3>3. orphans' \subseteq committedSeqs'
      BY <1>0, <1>1, <2>1 DEF SeqsInv
    <3> QED BY <1>0, <1>1, <1>2, <3>1, <3>2, <3>3, Zenon DEF SeqsInv
  <2>4. OrderInv'
    <3> SUFFICES ASSUME InOrder PROVE InOrder'
      BY <1>0, <1>2 DEF OrderInv
    <3>1. Held' = {} /\ Given' = Append(Admitted, event) /\ forwarder' # "dead"
      BY <1>1, <1>2, <2>1 DEF Held, Given
    <3>2. committedSeqs' \cup Held' = committedSeqs \cup Held
      BY <1>3, <2>1, <3>1
    <3>3. /\ event \in Carrying /\ Covers(Carrying, committedSeqs, event)
          /\ \A s \in committedSeqs : s \in Carrying /\ Covers(Carrying, committedSeqs, s)
      BY <1>3, Zenon DEF InOrder
    <3>4. \A s \in committedSeqs' : s \in Carrying /\ Covers(Carrying, committedSeqs', s)
      BY <2>1, <3>3, Zenon DEF Covers
    <3>5. \A n \in Carrying : n \in Nat
      BY QueueTypes DEF Carrying
    <3>6. \A s \in committedSeqs : s < event
      <4> SUFFICES ASSUME NEW s \in committedSeqs PROVE s < event
        BY Zenon
      <4>1. s \in Nat /\ event \in Nat /\ s # event
        BY <1>6, <3>3, <3>5
      <4>2. ~ (event < s)
        BY <1>6, <3>3, Zenon DEF Covers
      <4> QED BY <4>1, <4>2
    <3>7. /\ Len(Admitted) \in Nat /\ Len(Given') = Len(Admitted) + 1
          /\ Given'[Len(Admitted) + 1] = event
          /\ \A i \in 1..Len(Admitted) : Given'[i] = Admitted[i]
      <4>1. Admitted \in Seq(Nat) /\ Len(Admitted) \in Nat /\ event \in Nat
        BY QueueTypes, AdmittedType DEF BridgeInv
      <4> QED BY <3>1, <4>1
    <3>8. /\ \A s \in committedSeqs : \E i \in 1..Len(Admitted) : Admitted[i] = s
          /\ \A i \in 1..Len(Admitted) : Admitted[i] \in committedSeqs
          /\ \A i, j \in 1..Len(Admitted) : i < j => Admitted[i] < Admitted[j]
      BY <1>3, Zenon DEF InOrder
    <3>9. \A s \in committedSeqs' : \E i \in 1..Len(Given') : Given'[i] = s
      <4>1. Len(Admitted) + 1 \in 1..Len(Given') /\ 1..Len(Admitted) \subseteq 1..Len(Given')
        BY <3>7
      <4> QED BY <2>1, <3>7, <3>8, <4>1
    <3>10. \A i \in 1..Len(Given') : Given'[i] \in committedSeqs'
      BY <2>1, <3>7, <3>8
    <3>11. \A i, j \in 1..Len(Given') : i < j => Given'[i] < Given'[j]
      BY <3>6, <3>7, <3>8
    <3> QED BY <1>1, <1>2, <3>1, <3>2, <3>4, <3>9, <3>10, <3>11, Zenon DEF InOrder
  <2>5. forwarder' \in {"recv", "notify", "enqueue", "dead"}
    BY <2>1
  <2> QED BY <1>1, <2>2, <2>3, <2>4, <2>5, QueueTypes, GethFrame, Zenon
<1> QED BY <1>5, <1>6

\* The send on outc, by Notify or by a Notify whose caller is gone.
LEMMA SendKeeps ==
  ASSUME BridgeInv, NEW e \in 1..Len(log), Len(outc) < OutcCapacity, outc' = Append(outc, e),
         taken' = taken, log' = log, \A i \in 1..Len(Admitted) : Admitted[i] # e
  PROVE  /\ outc' \in Seq(Nat) /\ Len(outc') <= OutcCapacity
         /\ \A i \in 1..Len(outc') : outc'[i] \in 1..Len(log')
         /\ Admitted' = Append(Admitted, e)
         /\ \A i \in 1..Len(Admitted') :
              (i \in 1..Len(Admitted) /\ Admitted'[i] = Admitted[i]) \/ Admitted'[i] = e
         /\ (\A i, j \in 1..Len(Admitted) : Admitted[i] = Admitted[j] => i = j)
               => \A i, j \in 1..Len(Admitted') : Admitted'[i] = Admitted'[j] => i = j
<1>1. /\ outc \in Seq(Nat) /\ Len(outc) \in Nat /\ e \in Nat
      /\ \A i \in 1..Len(outc) : outc[i] \in 1..Len(log)
      /\ taken \in Seq(Nat) /\ Admitted \in Seq(Nat) /\ Len(Admitted) \in Nat
  BY QueueTypes, AdmittedType DEF BridgeInv
<1>2. /\ outc' \in Seq(Nat) /\ Len(outc') = Len(outc) + 1 /\ outc'[Len(outc) + 1] = e
      /\ \A i \in 1..Len(outc) : outc'[i] = outc[i]
  BY <1>1
<1>3. Len(outc') <= OutcCapacity /\ \A i \in 1..Len(outc') : outc'[i] \in 1..Len(log')
  BY <1>1, <1>2, BridgeAssumption
<1>4. Admitted' = Append(Admitted, e)
  BY <1>1, AppendLast, Zenon DEF Admitted
<1>5. /\ Len(Admitted') = Len(Admitted) + 1 /\ Admitted'[Len(Admitted) + 1] = e
      /\ \A i \in 1..Len(Admitted) : Admitted'[i] = Admitted[i]
  BY <1>1, <1>4
<1>8. \A i \in 1..Len(Admitted') : i \in 1..Len(Admitted) \/ i = Len(Admitted) + 1
  BY <1>1, <1>5
<1>6. \A i \in 1..Len(Admitted') :
        (i \in 1..Len(Admitted) /\ Admitted'[i] = Admitted[i]) \/ Admitted'[i] = e
  BY <1>5, <1>8, Zenon
<1>7. ASSUME \A i, j \in 1..Len(Admitted) : Admitted[i] = Admitted[j] => i = j
      PROVE  \A i, j \in 1..Len(Admitted') : Admitted'[i] = Admitted'[j] => i = j
  <2> SUFFICES ASSUME NEW i \in 1..Len(Admitted'), NEW j \in 1..Len(Admitted'),
                      Admitted'[i] = Admitted'[j]
               PROVE  i = j
    BY Zenon
  <2>1. CASE i \in 1..Len(Admitted) /\ j \in 1..Len(Admitted)
    BY <1>5, <1>7, <2>1, Zenon
  <2>2. CASE i \in 1..Len(Admitted) /\ j = Len(Admitted) + 1
    BY <1>5, <2>2, Zenon
  <2>3. CASE i = Len(Admitted) + 1 /\ j \in 1..Len(Admitted)
    BY <1>5, <2>3, Zenon
  <2> QED BY <1>8, <2>1, <2>2, <2>3
<1> QED BY <1>2, <1>3, <1>4, <1>6, <1>7, Zenon

\* Notify's send goes through.
LEMMA EnqueueKeeps == ASSUME BridgeInv, Enqueue PROVE BridgeInv'
<1>0. EventInv /\ SeqsInv /\ OrderInv
  BY DEF BridgeInv
<1>1. /\ geth' = geth /\ life' = life /\ height' = height /\ result_pc' = result_pc
      /\ resultCh' = resultCh /\ block' = block /\ foreign' = foreign /\ faults' = faults
      /\ committedSeqs' = committedSeqs /\ taken' = taken /\ orphans' = orphans
      /\ channel' = channel /\ event' = event /\ relayed' = relayed /\ pool' = pool /\ log' = log
      /\ forwarder = "enqueue" /\ forwarder' = "recv"
      /\ outc' = Append(outc, event) /\ Len(outc) < OutcCapacity
  BY Zenon DEF Enqueue, gethVars, narwhalVars
<1>2. /\ event \in 1..Len(log) /\ event \in committedSeqs /\ event \notin orphans
      /\ \A i \in 1..Len(Admitted) : Admitted[i] # event
  BY <1>0, <1>1 DEF EventInv, SeqsInv
<1>3. /\ outc' \in Seq(Nat) /\ Len(outc') <= OutcCapacity
      /\ \A i \in 1..Len(outc') : outc'[i] \in 1..Len(log')
      /\ Admitted' = Append(Admitted, event)
      /\ \A i \in 1..Len(Admitted') :
           (i \in 1..Len(Admitted) /\ Admitted'[i] = Admitted[i]) \/ Admitted'[i] = event
      /\ (\A i, j \in 1..Len(Admitted) : Admitted[i] = Admitted[j] => i = j)
            => \A i, j \in 1..Len(Admitted') : Admitted'[i] = Admitted'[j] => i = j
  BY <1>1, <1>2, SendKeeps, Zenon
<1>4. EventInv'
  BY <1>0, <1>1 DEF EventInv
<1>5. SeqsInv'
  <2>1. forwarder' # "enqueue"
    BY <1>1
  <2>2. \A i \in 1..Len(Admitted') : Admitted'[i] \in committedSeqs' /\ Admitted'[i] \notin orphans'
    BY <1>0, <1>1, <1>2, <1>3, Zenon DEF SeqsInv
  <2> QED BY <1>0, <1>1, <1>3, <2>1, <2>2, Zenon DEF SeqsInv
<1>6. OrderInv'
  <2>1. Given' = Given /\ Held' = Held /\ Carrying' = Carrying
    BY <1>1, <1>3 DEF Given, Held, Carrying
  <2>2. Quiet' => Quiet
    BY <1>1, Zenon DEF Quiet
  <2>3. forwarder' # "dead"
    BY <1>1
  <2>4. InOrder => InOrder'
    BY <1>1, <2>1, <2>3, Zenon DEF InOrder
  <2> QED BY <1>0, <2>2, <2>4 DEF OrderInv
<1>7. forwarder' \in {"recv", "notify", "enqueue", "dead"}
  BY <1>1
<1> QED BY <1>1, <1>3, <1>4, <1>5, <1>6, <1>7, QueueTypes, GethFrame, Zenon

\* So does the send of a Notify whose caller is gone.
LEMMA OrphanKeeps == ASSUME BridgeInv, NEW e \in orphans, OrphanEnqueue(e) PROVE BridgeInv'
<1>0. EventInv /\ SeqsInv /\ OrderInv
  BY DEF BridgeInv
<1>1. /\ geth' = geth /\ life' = life /\ height' = height /\ result_pc' = result_pc
      /\ resultCh' = resultCh /\ block' = block /\ foreign' = foreign /\ faults' = faults
      /\ committedSeqs' = committedSeqs /\ taken' = taken /\ forwarder' = forwarder
      /\ channel' = channel /\ event' = event /\ relayed' = relayed /\ pool' = pool /\ log' = log
      /\ orphans' = orphans \ {e}
      /\ outc' = Append(outc, e) /\ Len(outc) < OutcCapacity
  BY Zenon DEF OrphanEnqueue, gethVars, gatewayVars, narwhalVars
<1>2. /\ e \in 1..Len(log) /\ e \in committedSeqs /\ e \notin orphans'
      /\ \A i \in 1..Len(Admitted) : Admitted[i] # e
  BY <1>0, <1>1 DEF EventInv, SeqsInv
<1>3. /\ outc' \in Seq(Nat) /\ Len(outc') <= OutcCapacity
      /\ \A i \in 1..Len(outc') : outc'[i] \in 1..Len(log')
      /\ Admitted' = Append(Admitted, e)
      /\ \A i \in 1..Len(Admitted') :
           (i \in 1..Len(Admitted) /\ Admitted'[i] = Admitted[i]) \/ Admitted'[i] = e
      /\ (\A i, j \in 1..Len(Admitted) : Admitted[i] = Admitted[j] => i = j)
            => \A i, j \in 1..Len(Admitted') : Admitted'[i] = Admitted'[j] => i = j
  BY <1>1, <1>2, SendKeeps, Zenon
<1>4. EventInv'
  BY <1>0, <1>1 DEF EventInv
<1>5. SeqsInv'
  <2>1. \A i \in 1..Len(Admitted') : Admitted'[i] \in committedSeqs' /\ Admitted'[i] \notin orphans'
    BY <1>0, <1>1, <1>2, <1>3, Zenon DEF SeqsInv
  <2>2. orphans' \subseteq committedSeqs'
    BY <1>0, <1>1 DEF SeqsInv
  <2>3. ASSUME forwarder' = "enqueue"
        PROVE  /\ event' \in committedSeqs' /\ event' \notin orphans'
               /\ \A i \in 1..Len(Admitted') : Admitted'[i] # event'
    BY <1>0, <1>1, <1>3, <2>3, Zenon DEF SeqsInv
  <2> QED BY <1>0, <1>3, <2>1, <2>2, <2>3, Zenon DEF SeqsInv
<1>6. OrderInv'
  <2>1. Quiet' => Quiet
    BY <1>1, Zenon DEF Quiet
  <2> QED BY <1>0, <2>1, Zenon DEF OrderInv, InOrder
<1> QED BY <1>1, <1>3, <1>4, <1>5, <1>6, QueueTypes, GethFrame, Zenon

\* The gateway restarts: its channel is gone, a blocked Notify stays.
LEMMA GatewayRestartKeeps == ASSUME BridgeInv, GatewayRestart PROVE BridgeInv'
<1>0. EventInv /\ SeqsInv /\ OrderInv
  BY DEF BridgeInv
<1>1. /\ geth' = geth /\ life' = life /\ height' = height /\ result_pc' = result_pc
      /\ resultCh' = resultCh /\ block' = block /\ foreign' = foreign
      /\ committedSeqs' = committedSeqs /\ taken' = taken /\ outc' = outc
      /\ event' = event /\ relayed' = relayed /\ pool' = pool /\ log' = log
  BY Zenon DEF GatewayRestart, gethVars, narwhalVars
<1>2. /\ faults' = faults + 1 /\ channel' = <<>> /\ forwarder' = "recv"
      /\ orphans' = IF forwarder = "enqueue" THEN orphans \cup {event} ELSE orphans
  BY Zenon DEF GatewayRestart
<1>3. /\ channel' \in Seq(Nat) /\ Len(channel') = 0 /\ Len(channel') <= ChannelCapacity
      /\ \A i \in 1..Len(channel') : channel'[i] \in 1..Len(log')
      /\ forwarder' \in {"recv", "notify", "enqueue", "dead"} /\ faults' \in Nat
  BY <1>2, QueueTypes, BridgeAssumption
<1>4. EventInv'
  BY <1>0, <1>1, <1>2 DEF EventInv
<1>5. SeqsInv'
  <2>1. Admitted' = Admitted
    BY <1>1, Zenon DEF Admitted
  <2>2. \A i \in 1..Len(Admitted) : Admitted[i] \notin orphans'
    BY <1>0, <1>2, Zenon DEF SeqsInv
  <2>3. orphans' \subseteq committedSeqs
    BY <1>0, <1>2, Zenon DEF SeqsInv
  <2>4. forwarder' # "enqueue"
    BY <1>2
  <2> QED BY <1>0, <1>1, <2>1, <2>2, <2>3, <2>4, Zenon DEF SeqsInv
<1>6. OrderInv'
  BY <1>2, QueueTypes DEF OrderInv, Quiet
<1> QED BY <1>1, <1>3, <1>4, <1>5, <1>6, QueueTypes, GethFrame, Zenon

-----------------------------------------------------------------------------
\* Every step keeps the invariant.
LEMMA NextKeeps == BridgeInv /\ [Next]_vars => BridgeInv'
<1> SUFFICES ASSUME BridgeInv, [Next]_vars PROVE BridgeInv'
  OBVIOUS
<1>1. CASE Next
  <2>1. CASE Seal \/ TakeResult \/ BroadcastOk \/ BroadcastError \/ WaitForCommit
    BY <2>1, SealKeeps, TakeResultKeeps, BroadcastOkKeeps, BroadcastErrorKeeps, WaitForCommitKeeps
  <2>2. CASE \E b \in foreign : ImportBlock(b)
    BY <2>2, ImportKeeps
  <2>3. CASE GethCrash \/ GethRestart
    BY <2>3, CrashKeeps, RestartKeeps
  <2>4. CASE \E o \in Others : ForeignSubmit(o)
    BY <2>4, ForeignKeeps
  <2>5. CASE \E blocks \in SUBSET pool : CommitSubDag(blocks)
    BY <2>5, CommitKeeps
  <2>6. CASE Relay \/ NodeRestart
    BY <2>6, RelayKeeps, NodeRestartKeeps
  <2>7. CASE Forward \/ Notify \/ Enqueue
    BY <2>7, ForwardKeeps, NotifyKeeps, EnqueueKeeps
  <2>8. CASE \E e \in orphans : OrphanEnqueue(e)
    BY <2>8, OrphanKeeps
  <2>9. CASE GatewayRestart
    BY <2>9, GatewayRestartKeeps
  <2> QED BY <1>1, <2>1, <2>2, <2>3, <2>4, <2>5, <2>6, <2>7, <2>8, <2>9 DEF Next
<1>2. CASE UNCHANGED vars
  <2>1. /\ committedSeqs' = committedSeqs /\ outc' = outc /\ taken' = taken /\ orphans' = orphans
        /\ channel' = channel /\ forwarder' = forwarder /\ event' = event
        /\ relayed' = relayed /\ log' = log /\ pool' = pool /\ foreign' = foreign
        /\ geth' = geth /\ life' = life /\ height' = height /\ faults' = faults
        /\ result_pc' = result_pc /\ block' = block /\ resultCh' = resultCh
    BY <1>2, Zenon DEF vars, gethVars, adapterVars, gatewayVars, narwhalVars
  <2>2. Quiet' => Quiet
    BY <2>1, Zenon DEF Quiet
  <2> QED BY <2>1, <2>2, Types, MinerKeeps, Zenon
<1> QED BY <1>1, <1>2

\* The inductive invariant holds of every reachable state.
THEOREM BridgeInvariant == Spec => []BridgeInv
BY InitEstablishes, NextKeeps, PTL DEF Spec

\* No queue between the node and resultLoop grows beyond its capacity, and what
\* is queued are outputs of the log.
THEOREM QueuesAreBounded == Spec => []TypeOK
<1>1. BridgeInv => TypeOK
  BY DEF BridgeInv
<1> QED BY <1>1, BridgeInvariant, PTL

\* Notify's committedSeqs: however often nodes replay and gateways restart,
\* one incarnation of geth gets an output at most once.
THEOREM AtMostOnce == Spec => []NoDuplicateOutput
<1>1. BridgeInv => NoDuplicateOutput
  <2> SUFFICES ASSUME BridgeInv PROVE NoDuplicateOutput
    OBVIOUS
  <2>1. DOMAIN Admitted = 1..Len(Admitted)
    BY AdmittedType DEF BridgeInv
  <2>2. SeqsInv
    BY DEF BridgeInv
  <2>3. IsInjective(Admitted)
    BY <2>1, <2>2, Zenon DEF SeqsInv, IsInjective
  <2>4. Range(Admitted) \cap orphans = {}
    BY <2>1, <2>2, Zenon DEF SeqsInv, Range
  <2>5. forwarder = "enqueue" => event \notin Range(Admitted) \cup orphans
    BY <2>1, <2>2, Zenon DEF SeqsInv, Range
  <2> QED BY <2>3, <2>4, <2>5 DEF NoDuplicateOutput
<1> QED BY <1>1, BridgeInvariant, PTL

\* Until something fails, resultLoop gets the outputs that carry blocks in
\* consensus order with none missing, although the node replays its log.
THEOREM ConsensusOrder == Spec => []OutputsInOrder
<1>1. BridgeInv => OutputsInOrder
  <2> SUFFICES ASSUME BridgeInv, Quiet, NEW i \in 1..Len(Given)
               PROVE  /\ log[Given[i]] # {}
                      /\ \A j \in 1..Len(Given) : i < j => Given[i] < Given[j]
                      /\ \A k \in 1..Given[i] : log[k] # {} => k \in Range(Given)
    BY DEF OutputsInOrder
  <2>1. InOrder
    BY DEF BridgeInv, OrderInv
  <2>2. Given[i] \in Carrying /\ Given[i] \in committedSeqs
    BY <2>1, Zenon DEF InOrder
  <2>3. Given[i] \in 1..Len(log) /\ log[Given[i]] # {} /\ Len(log) \in Nat
    BY <2>2, QueueTypes DEF Carrying
  <2>4. \A j \in 1..Len(Given) : i < j => Given[i] < Given[j]
    BY <2>1, Zenon DEF InOrder
  <2>5. ASSUME NEW k \in 1..Given[i], log[k] # {} PROVE k \in Range(Given)
    <3>1. k \in Carrying /\ (k < Given[i] \/ k = Given[i])
      BY <2>3, <2>5 DEF Carrying
    <3>2. Covers(Carrying, committedSeqs, Given[i])
      BY <2>1, <2>2, Zenon DEF InOrder
    <3>3. k \in committedSeqs
      BY <2>2, <3>1, <3>2, Zenon DEF Covers
    <3>4. \E n \in 1..Len(Given) : Given[n] = k
      BY <2>1, <3>3, Zenon DEF InOrder
    <3>5. DOMAIN Given = 1..Len(Given)
      <4>1. Admitted \in Seq(Nat) /\ event \in Nat
        BY QueueTypes, AdmittedType DEF BridgeInv
      <4> QED BY <4>1 DEF Given
    <3> QED BY <3>4, <3>5, Zenon DEF Range
  <2> QED BY <2>3, <2>4, <2>5
<1> QED BY <1>1, BridgeInvariant, PTL
=============================================================================
