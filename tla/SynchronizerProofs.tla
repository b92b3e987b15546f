------------------------- MODULE SynchronizerProofs -------------------------
(* The certificate pipeline of a primary, for every set of certificates,     *)
(* tasks, garbage collection depth and number of crashes: it implements      *)
(* CausalDelivery, its suspension maps stay consistent, nothing stays        *)
(* suspended without a reason and no waiter is forgotten.                    *)
EXTENDS Synchronizer, TLAPS, FiniteSetTheorems

\* Who holds the lock, and how far the batch is: children are collected before
\* anything is written, and each certificate is sent right after its write.
BatchInv ==
  /\ lock = "free" => order = <<>>
  /\ lock = "gc" <=> gc_pc = "run"
  /\ roots # {} => gc_pc = "run"
  /\ cursor <= Len(order) => written = 0
  /\ written <= delivered + 1

\* Consensus has what is stored, but for the certificate just written.
StoreInv ==
  /\ sent \subseteq store
  /\ \A i \in 1..written : order[i] \in store
  /\ \A i \in 1..delivered : order[i] \in sent
  /\ \A c \in store \ sent : written = delivered + 1 /\ c = order[written]

\* gc_round follows consensus; what run_gc left to accept is the round above.
GcInv ==
  /\ gc_round <= Horizon
  /\ \A c \in roots : RoundOf[c] = gc_round + 1

\* Whoever waits in `missing` is suspended and lacks that parent.
MapsInv ==
  /\ \A d \in Certs : \A c \in missing[d] : c \in suspended /\ d \in missing_parents[c]
  /\ \A c \in Certs : \A d \in missing_parents[c] : c \in suspended /\ d \in ParentsOf[c]

\* The part of the batch whose children were collected.
Traversed == {order[j] : j \in 1..(cursor - 1)}

\* Above the garbage collection line a suspended certificate lacks a parent,
\* waits for each one it lacks, and lacks none that is accepted.
LackingInv ==
  \A c \in suspended : RoundOf[c] > gc_round + 1 =>
    /\ missing_parents[c] # {}
    /\ \A d \in missing_parents[c] : c \in missing[d] /\ d \notin store /\ d \notin Traversed

\* Every parent of a suspended certificate is lacking, stored or in the batch.
KnownInv ==
  \A c \in suspended : \A p \in ParentsOf[c] :
    p \in missing_parents[c] \/ p \in store \/ p \in Traversed

\* The batch is in causal order.
OrderInv ==
  \A i \in 1..Len(order) : \A p \in ParentsOf[order[i]] :
    p \in store \/ RoundOf[p] <= Horizon \/ \E j \in 1..(i - 1) : order[j] = p

\* An own certificate is built on what is stored.
OwnInv ==
  \A t \in Tasks : Mode[t] = "own" =>
    /\ pc[t] \in {"idle", "lock", "accept"}
    /\ pc[t] = "lock" => ParentsOf[cert[t]] \subseteq store

\* The part of the batch that consensus does not have yet.
Ahead == {order[i] : i \in (delivered + 1)..Len(order)}

\* What a task waits for is suspended, left to the GC task, or in the batch.
WaitInv ==
  \A t \in Tasks : pc[t] = "wait" => cert[t] \in suspended \cup roots \cup Ahead

\* The inductive invariant.
SyncInv ==
  /\ TypeOK /\ BatchInv /\ StoreInv /\ GcInv /\ MapsInv /\ LackingInv
  /\ KnownInv /\ OrderInv /\ OwnInv /\ WaitInv /\ MapsAgree

-----------------------------------------------------------------------------
\* A parent is one round below; rounds are positive.
LEMMA ParentRounds ==
  /\ \A c \in Certs : RoundOf[c] \in Nat \ {0} /\ ParentsOf[c] \subseteq Certs
  /\ \A c \in Certs : \A p \in ParentsOf[c] : RoundOf[p] + 1 = RoundOf[c] /\ p # c
<1>1. \A c \in Certs : RoundOf[c] \in Nat \ {0} /\ ParentsOf[c] \subseteq Certs
  BY CertsAssumption, Zenon
<1>2. \A c \in Certs : \A p \in ParentsOf[c] : RoundOf[p] + 1 = RoundOf[c]
  BY CertsAssumption, Zenon
<1> QED BY <1>1, <1>2

\* An ordering lists the elements of its set and nothing else.
LEMMA OrderingsList ==
  ASSUME NEW S \in SUBSET Certs, NEW s \in Orderings(S)
  PROVE  /\ s \in Seq(Certs)
         /\ \A i \in 1..Len(s) : s[i] \in S
         /\ \A x \in S : \E i \in 1..Len(s) : s[i] = x
<1>1. Cardinality(S) \in Nat
  BY CertsAssumption, FS_Subset, FS_CardinalityType, Zenon
<1>2. s \in [1..Cardinality(S) -> S] /\ \A x \in S : \E i \in 1..Cardinality(S) : s[i] = x
  BY Zenon DEF Orderings
<1>3. s \in Seq(S) /\ Len(s) = Cardinality(S)
  BY <1>1, <1>2
<1> QED BY <1>2, <1>3

\* Saturating subtraction stays in the naturals and is monotone.
LEMMA SaturatingSub ==
  ASSUME NEW m \in Nat, NEW n \in Nat, m <= n
  PROVE  /\ saturating_sub(m, GcDepth) \in Nat /\ saturating_sub(n, GcDepth) \in Nat
         /\ saturating_sub(m, GcDepth) <= m
         /\ saturating_sub(m, GcDepth) <= saturating_sub(n, GcDepth)
BY BoundsAssumption DEF saturating_sub

\* The horizon is a round.
LEMMA HorizonRound ==
  ASSUME TypeOK
  PROVE  Horizon \in Nat /\ Horizon <= consensus_round
<1>1. consensus_round \in Nat /\ consensus_round <= consensus_round
  BY DEF TypeOK
<1> QED BY <1>1, SaturatingSub, Zenon DEF Horizon

\* What TypeOK says of the batch.
LEMMA BatchTypes ==
  ASSUME TypeOK
  PROVE  /\ order \in Seq(Certs) /\ Len(order) \in Nat /\ cursor \in 1..(Len(order) + 1)
         /\ delivered \in 0..Len(order) /\ written \in delivered..Len(order)
         /\ delivered \in Nat /\ written \in Nat
         /\ \A i \in 1..Len(order) : order[i] \in Certs
<1>1. /\ order \in Seq(Certs) /\ cursor \in 1..(Len(order) + 1)
      /\ delivered \in 0..Len(order) /\ written \in delivered..Len(order)
  BY Zenon DEF TypeOK
<1> QED BY <1>1

-----------------------------------------------------------------------------
\* The pipeline starts empty.
LEMMA InitEstablishes == Init => SyncInv
<1> SUFFICES ASSUME Init PROVE SyncInv
  OBVIOUS
<1> USE DEF Init
<1>1. TypeOK
  BY DEF TypeOK, TaskLabels, Panics
<1>2. BatchInv /\ StoreInv /\ MapsInv /\ LackingInv /\ KnownInv /\ WaitInv /\ MapsAgree
  BY DEF BatchInv, StoreInv, MapsInv, LackingInv, KnownInv, WaitInv, Ahead,
         MapsAgree
<1>3. GcInv
  BY <1>1, HorizonRound DEF GcInv
<1>4. OrderInv /\ OwnInv
  BY DEF OrderInv, OwnInv
<1> QED BY <1>1, <1>2, <1>3, <1>4, Zenon DEF SyncInv

\* Steps of tasks that have not taken the lock: only pc and cert change, and
\* a task waits only for what is suspended.
LEMMA UnlockedKeeps ==
  ASSUME SyncInv, NEW t \in Tasks, NEW c \in Certs,
         Receive(t, c) \/ Fetch(t, c) \/ ProcessFetched(t) \/ CheckAndSanitize(t)
           \/ AlreadySuspended(t)
  PROVE  SyncInv'
<1> USE Zenon
<1> USE DEF SyncInv
<1>1. /\ store' = store /\ sent' = sent /\ lock' = lock /\ panic' = panic
      /\ restarts' = restarts
      /\ suspended' = suspended /\ missing_parents' = missing_parents /\ missing' = missing
      /\ order' = order /\ cursor' = cursor /\ written' = written /\ delivered' = delivered
      /\ consensus_round' = consensus_round /\ gc_round' = gc_round
      /\ gc_pc' = gc_pc /\ roots' = roots
  BY DEF Receive, Fetch, ProcessFetched, CheckAndSanitize, AlreadySuspended,
         stateVars, batchVars, gcVars
<1> USE <1>1
<1>2. /\ pc' \in [Tasks -> TaskLabels] /\ cert' \in [Tasks -> Certs \cup {"none"}]
      /\ \A u \in Tasks : pc'[u] # "idle" => cert'[u] \in Certs
  BY SMT DEF TypeOK, TaskLabels, Receive, Fetch, ProcessFetched, CheckAndSanitize,
         AlreadySuspended, Take, Goto, ReturnSuspended
<1>3. TypeOK'
  BY <1>2 DEF TypeOK
<1>4. BatchInv' /\ StoreInv' /\ MapsInv' /\ MapsAgree'
  <2>1. BatchInv'
    BY DEF BatchInv
  <2>2. StoreInv'
    BY DEF StoreInv
  <2>3. MapsInv'
    BY DEF MapsInv
  <2>4. MapsAgree'
    BY DEF MapsAgree
  <2> QED BY <2>1, <2>2, <2>3, <2>4
<1>5. GcInv' /\ OrderInv'
  <2>1. GcInv'
    BY DEF GcInv, Horizon
  <2>2. OrderInv'
    BY DEF OrderInv, Horizon
  <2> QED BY <2>1, <2>2
<1>6. LackingInv' /\ KnownInv'
  <2>1. LackingInv'
    BY SMT DEF LackingInv, Traversed
  <2>2. KnownInv'
    BY DEF KnownInv, Traversed
  <2> QED BY <2>1, <2>2
<1>7. OwnInv'
  BY SMT DEF OwnInv, TypeOK, TaskLabels, Receive, Fetch, ProcessFetched, CheckAndSanitize,
         AlreadySuspended, Take, Goto, ReturnSuspended, EarlySuspend
<1>8. WaitInv'
  <2>1. \A u \in Tasks : pc'[u] = "wait" =>
          cert'[u] = cert[u] /\ (pc[u] = "wait" \/ cert[u] \in suspended)
    BY SMT DEF TypeOK, Receive, Fetch, ProcessFetched, CheckAndSanitize,
           AlreadySuspended, Take, Goto, ReturnSuspended
  <2>2. Ahead' = Ahead
    BY DEF Ahead
  <2> QED BY <2>1, <2>2 DEF WaitInv
<1> QED BY <1>3, <1>4, <1>5, <1>6, <1>7, <1>8

\* While nobody holds the lock there is no batch, and consensus has the store.
LEMMA FreeLock ==
  ASSUME SyncInv, lock = "free"
  PROVE  /\ order = <<>> /\ cursor = 1 /\ written = 0 /\ delivered = 0
         /\ Traversed = {} /\ Ahead = {} /\ store = sent /\ roots = {}
<1>1. order = <<>> /\ cursor = 1 /\ written = 0 /\ delivered = 0
  BY DEF SyncInv, BatchInv, TypeOK
<1>2. Traversed = {} /\ Ahead = {}
  BY <1>1 DEF Traversed, Ahead
<1>3. store = sent
  <2>1. sent \subseteq store /\ \A c \in store \ sent : written = delivered + 1
    BY Zenon DEF SyncInv, StoreInv
  <2>2. written # delivered + 1
    BY <1>1
  <2> QED BY <2>1, <2>2, Zenon
<1>4. roots = {}
  BY Zenon DEF SyncInv, BatchInv
<1> QED BY <1>1, <1>2, <1>3, <1>4, Zenon

\* A batch whose every certificate was sent is stored, and nothing is ahead.
LEMMA DoneBatch ==
  ASSUME SyncInv, BatchDone
  PROVE  /\ store = sent /\ Traversed \subseteq store /\ Ahead = {}
         /\ Len(order) \in Nat /\ written = Len(order)
<1>1. /\ Len(order) \in Nat /\ cursor = Len(order) + 1
      /\ delivered = Len(order) /\ written = Len(order)
  BY DEF SyncInv, TypeOK, BatchDone
<1>2. store = sent
  BY <1>1 DEF SyncInv, StoreInv
<1>3. Traversed \subseteq store
  BY <1>1 DEF SyncInv, StoreInv, Traversed
<1>4. Ahead = {}
  BY <1>1 DEF Ahead
<1> QED BY <1>1, <1>2, <1>3, <1>4, Zenon

\* A batch that starts has traversed nothing yet.
LEMMA FirstIsNotTraversed ==
  ASSUME cursor' = 1
  PROVE  Traversed' = {}
BY DEF Traversed

\* Between two batches the four batch variables are back at their first values.
LEMMA EmptyBatch ==
  ASSUME order' = <<>>, cursor' = 1, written' = 0, delivered' = 0
  PROVE  /\ order' \in Seq(Certs) /\ Len(order') = 0 /\ cursor' \in 1..(Len(order') + 1)
         /\ delivered' \in 0..Len(order') /\ written' \in delivered'..Len(order')
OBVIOUS

\* The panic that may fire leaves everything as it is.
LEMMA PanicKeeps ==
  ASSUME SyncInv, Panic("suspended certificate has no missing parent")
  PROVE  SyncInv'
<1> USE Zenon
<1> USE DEF SyncInv
<1>1. /\ store' = store /\ sent' = sent /\ lock' = lock /\ pc' = pc /\ cert' = cert
      /\ restarts' = restarts
      /\ suspended' = suspended /\ missing_parents' = missing_parents /\ missing' = missing
      /\ order' = order /\ cursor' = cursor /\ written' = written /\ delivered' = delivered
      /\ consensus_round' = consensus_round /\ gc_round' = gc_round
      /\ gc_pc' = gc_pc /\ roots' = roots
      /\ panic' = "suspended certificate has no missing parent"
  BY DEF Panic, stateVars, batchVars, gcVars
<1> USE <1>1
<1>2. TypeOK' /\ MapsAgree'
  <2>1. TypeOK'
    BY DEF TypeOK, Panics
  <2>2. MapsAgree'
    BY DEF MapsAgree, Panics
  <2> QED BY <2>1, <2>2
<1>3. BatchInv' /\ StoreInv' /\ MapsInv'
  <2>1. BatchInv'
    BY DEF BatchInv
  <2>2. StoreInv'
    BY DEF StoreInv
  <2>3. MapsInv'
    BY DEF MapsInv
  <2> QED BY <2>1, <2>2, <2>3
<1>4. GcInv' /\ OrderInv'
  <2>1. GcInv'
    BY DEF GcInv, Horizon
  <2>2. OrderInv'
    BY DEF OrderInv, Horizon
  <2> QED BY <2>1, <2>2
<1>5. OwnInv'
  BY DEF OwnInv
<1>6. Traversed' = Traversed /\ Ahead' = Ahead
  BY DEF Traversed, Ahead
<1>7. LackingInv' /\ KnownInv' /\ WaitInv'
  <2>1. LackingInv'
    BY <1>6 DEF LackingInv
  <2>2. KnownInv'
    BY <1>6 DEF KnownInv
  <2>3. WaitInv'
    BY <1>6 DEF WaitInv
  <2> QED BY <2>1, <2>2, <2>3
<1> QED BY <1>2, <1>3, <1>4, <1>5, <1>7

\* State::insert keeps the maps consistent, and none of its assertions fires.
LEMMA InsertKeeps ==
  ASSUME SyncInv, NEW t \in Tasks, insert(t)
  PROVE  SyncInv'
<1> USE Zenon
<1> DEFINE c == cert[t]
           lacking == get_missing_parents(c)
<1> USE DEF SyncInv
<1>1. /\ c \in Certs /\ lock = "free" /\ panic = "none" /\ pc[t] = "lock"
      /\ RoundOf[c] > gc_round + 1 /\ lacking # {} /\ lacking = ParentsOf[c] \ store
  BY DEF insert, MustSuspend, get_missing_parents, TypeOK
<1>2. lacking \subseteq Certs /\ c \notin lacking
  BY <1>1, ParentRounds
<1>3. Mode[t] # "own"
  BY <1>1 DEF OwnInv
<1>4. ASSUME c \in suspended PROVE missing_parents[c] = lacking
  <2>1. \A d \in missing_parents[c] : d \in ParentsOf[c] /\ d \notin store
    BY <1>1, <1>4 DEF LackingInv, MapsInv
  <2>2. \A d \in ParentsOf[c] : d \in missing_parents[c] \/ d \in store
    BY <1>1, <1>4, FreeLock DEF KnownInv
  <2>3. missing_parents[c] \subseteq Certs
    BY <1>1 DEF TypeOK
  <2> QED BY <1>1, <2>1, <2>2, <2>3
<1>5. ASSUME c \notin suspended PROVE ~ \E d \in lacking : c \in missing[d]
  BY <1>2, <1>5 DEF MapsInv
<1>6. /\ store' = store /\ sent' = sent /\ lock' = lock /\ panic' = panic
      /\ restarts' = restarts
      /\ order' = order /\ cursor' = cursor /\ written' = written /\ delivered' = delivered
      /\ consensus_round' = consensus_round /\ gc_round' = gc_round
      /\ gc_pc' = gc_pc /\ roots' = roots
  BY <1>3, <1>4, <1>5 DEF insert, batchVars, gcVars
<1>7. \/ /\ c \in suspended /\ suspended' = suspended
         /\ missing_parents' = missing_parents /\ missing' = missing
      \/ /\ c \notin suspended /\ suspended' = suspended \cup {c}
         /\ missing_parents' = [missing_parents EXCEPT ![c] = lacking]
         /\ missing' = [d \in Certs |-> IF d \in lacking THEN missing[d] \cup {c} ELSE missing[d]]
  BY <1>3, <1>4, <1>5 DEF insert, stateVars
<1>8. /\ pc' \in [Tasks -> TaskLabels] /\ cert' \in [Tasks -> Certs \cup {"none"}]
      /\ \A u \in Tasks : pc'[u] # "idle" => cert'[u] \in Certs
      /\ \A u \in Tasks : pc'[u] = "wait" => cert'[u] = cert[u] /\ (pc[u] = "wait" \/ cert[u] = c)
      /\ \A u \in Tasks : u # t => pc'[u] = pc[u] /\ cert'[u] = cert[u]
  <2>1. ReturnSuspended(t)
    BY <1>3, <1>4, <1>5 DEF insert
  <2>2. /\ pc \in [Tasks -> TaskLabels] /\ cert \in [Tasks -> Certs \cup {"none"}]
        /\ \A u \in Tasks : pc[u] # "idle" => cert[u] \in Certs
    BY DEF TypeOK
  <2> QED BY <1>1, <2>1, <2>2 DEF ReturnSuspended, Goto, TaskLabels
<1> HIDE DEF c, lacking
<1>17. /\ c \in suspended' /\ suspended \subseteq suspended' /\ suspended' \subseteq suspended \cup {c}
       /\ missing_parents' \in [Certs -> SUBSET Certs] /\ missing' \in [Certs -> SUBSET Certs]
       /\ \A x \in Certs : x # c => missing_parents'[x] = missing_parents[x]
       /\ missing_parents'[c] = lacking
       /\ \A d \in Certs : missing[d] \subseteq missing'[d] /\ missing'[d] \subseteq missing[d] \cup {c}
       /\ \A d \in Certs : d \in lacking => c \in missing'[d]
       /\ \A d \in Certs : d \notin lacking => missing'[d] = missing[d]
  <2>1. missing_parents \in [Certs -> SUBSET Certs] /\ missing \in [Certs -> SUBSET Certs]
    BY DEF TypeOK
  <2>2. CASE c \in suspended /\ suspended' = suspended
              /\ missing_parents' = missing_parents /\ missing' = missing
    <3>1. \A d \in lacking : c \in missing[d]
      BY <1>1, <1>4, <2>2 DEF LackingInv
    <3> QED BY <1>1, <1>4, <2>1, <2>2, <3>1
  <2>3. CASE /\ c \notin suspended /\ suspended' = suspended \cup {c}
             /\ missing_parents' = [missing_parents EXCEPT ![c] = lacking]
             /\ missing' = [d \in Certs |-> IF d \in lacking THEN missing[d] \cup {c} ELSE missing[d]]
    BY <1>1, <1>2, <2>1, <2>3
  <2> QED BY <1>7, <2>2, <2>3
<1>9. TypeOK'
  <2>1. suspended' \subseteq Certs
    BY <1>1, <1>17 DEF TypeOK
  <2> QED BY <1>6, <1>8, <1>17, <2>1 DEF TypeOK
<1>10. BatchInv' /\ StoreInv' /\ MapsAgree' /\ GcInv' /\ OrderInv'
  <2>1. BatchInv'
    BY <1>6 DEF BatchInv
  <2>2. StoreInv'
    BY <1>6 DEF StoreInv
  <2>3. MapsAgree'
    BY <1>6 DEF MapsAgree
  <2>4. GcInv'
    BY <1>6 DEF GcInv, Horizon
  <2>5. OrderInv'
    BY <1>6, SMT DEF OrderInv, Horizon
  <2> QED BY <2>1, <2>2, <2>3, <2>4, <2>5
<1>11. Traversed' = {} /\ Ahead' = {} /\ Traversed = {} /\ Ahead = {}
  <2>1. Traversed = {} /\ Ahead = {}
    BY <1>1, FreeLock
  <2>2. Traversed' = Traversed /\ Ahead' = Ahead
    BY <1>6 DEF Traversed, Ahead
  <2> QED BY <2>1, <2>2
<1>12. MapsInv'
  <2>1. ASSUME NEW d \in Certs, NEW x \in missing'[d]
        PROVE  x \in suspended' /\ d \in missing_parents'[x]
    <3>1. CASE x = c
      <4>1. d \notin lacking => c \in missing[d]
        BY <1>17, <2>1, <3>1
      <4>2. c \in missing[d] => c \in suspended /\ d \in missing_parents[c]
        BY DEF MapsInv
      <4> QED BY <1>4, <1>17, <3>1, <4>1, <4>2
    <3>2. CASE x # c
      <4>1. x \in missing[d] /\ x \in Certs
        BY <1>17, <2>1, <3>2 DEF TypeOK
      <4>2. x \in suspended /\ d \in missing_parents[x]
        BY <4>1 DEF MapsInv
      <4> QED BY <1>17, <3>2, <4>1, <4>2
    <3> QED BY <3>1, <3>2
  <2>2. ASSUME NEW x \in Certs, NEW d \in missing_parents'[x]
        PROVE  x \in suspended' /\ d \in ParentsOf[x]
    <3>1. CASE x = c
      BY <1>1, <1>17, <3>1
    <3>2. CASE x # c
      <4>1. d \in missing_parents[x]
        BY <1>17, <3>2
      <4> QED BY <1>17, <4>1 DEF MapsInv
    <3> QED BY <3>1, <3>2
  <2> QED BY <2>1, <2>2 DEF MapsInv
<1>13. LackingInv'
  <2> SUFFICES ASSUME NEW x \in suspended', RoundOf[x] > gc_round + 1
               PROVE  /\ missing_parents'[x] # {}
                      /\ \A d \in missing_parents'[x] : x \in missing'[d] /\ d \notin store
    BY <1>6, <1>11 DEF LackingInv
  <2>1. CASE x = c
    BY <1>1, <1>2, <1>17, <2>1
  <2>2. CASE x # c
    <3>1. x \in suspended /\ x \in Certs /\ missing_parents'[x] = missing_parents[x]
          /\ missing_parents[x] \subseteq Certs
      BY <1>1, <1>17, <2>2 DEF TypeOK
    <3>2. /\ missing_parents[x] # {}
          /\ \A d \in missing_parents[x] : x \in missing[d] /\ d \notin store
      BY <3>1 DEF LackingInv
    <3> QED BY <1>17, <3>1, <3>2
  <2> QED BY <2>1, <2>2
<1>14. KnownInv'
  <2> SUFFICES ASSUME NEW x \in suspended', NEW p \in ParentsOf[x]
               PROVE  p \in missing_parents'[x] \cup store
    BY <1>6, <1>11 DEF KnownInv
  <2>1. CASE x = c
    BY <1>1, <1>17, <2>1
  <2>2. CASE x # c
    <3>1. x \in suspended /\ x \in Certs
      BY <1>17, <2>2 DEF TypeOK
    <3> QED BY <1>11, <1>17, <2>2, <3>1 DEF KnownInv
  <2> QED BY <2>1, <2>2
<1>15. OwnInv'
  BY <1>3, <1>6, <1>8 DEF OwnInv
<1>16. WaitInv'
  BY <1>6, <1>8, <1>11, <1>17 DEF WaitInv
<1> QED BY <1>9, <1>10, <1>12, <1>13, <1>14, <1>15, <1>16

\* A certificate that need not be suspended starts a batch.
LEMMA AcceptKeeps ==
  ASSUME SyncInv, NEW t \in Tasks, Accept(t)
  PROVE  SyncInv'
<1> USE Zenon
<1> DEFINE c == cert[t]
<1>1. CASE c \in suspended
  BY <1>1, PanicKeeps DEF Accept
<1>2. CASE c \notin suspended
  <2> USE DEF SyncInv
  <2>1. /\ c \in Certs /\ lock = "free" /\ panic = "none" /\ pc[t] = "lock"
        /\ RoundOf[c] <= gc_round + 1 \/ ParentsOf[c] \subseteq store
    <3>1. /\ lock = "free" /\ panic = "none" /\ pc[t] = "lock"
          /\ ~ (RoundOf[c] > gc_round + 1 /\ ParentsOf[c] \ store # {})
      BY DEF Accept, MustSuspend, get_missing_parents
    <3>2. c \in Certs /\ gc_round \in Nat
      BY <3>1 DEF TypeOK
    <3>3. RoundOf[c] \in Nat
      BY <3>2, ParentRounds
    <3> QED BY <3>1, <3>2, <3>3, SMT
  <2>2. /\ store' = store /\ sent' = sent /\ lock' = t /\ panic' = panic
        /\ restarts' = restarts
        /\ suspended' = suspended /\ missing_parents' = missing_parents /\ missing' = missing
        /\ order' = <<c>> /\ cursor' = 1 /\ written' = 0 /\ delivered' = 0
        /\ consensus_round' = consensus_round /\ gc_round' = gc_round
        /\ gc_pc' = gc_pc /\ roots' = roots
    BY <1>2 DEF Accept, StartBatch, stateVars, gcVars
  <2>12. /\ pc' \in [Tasks -> TaskLabels] /\ cert' \in [Tasks -> Certs \cup {"none"}]
         /\ \A u \in Tasks : pc'[u] # "idle" => cert'[u] \in Certs
         /\ pc'[t] = "accept" /\ \A u \in Tasks : u # t => pc'[u] = pc[u] /\ cert'[u] = cert[u]
    <3>1. pc' = [pc EXCEPT ![t] = "accept"] /\ cert' = [cert EXCEPT ![t] = c]
      BY <1>2 DEF Accept, Goto
    <3>2. /\ pc \in [Tasks -> TaskLabels] /\ cert \in [Tasks -> Certs \cup {"none"}]
          /\ \A u \in Tasks : pc[u] # "idle" => cert[u] \in Certs
      BY DEF TypeOK
    <3> QED BY <2>1, <3>1, <3>2 DEF TaskLabels
  <2>3. /\ order' \in Seq(Certs) /\ Len(order') = 1 /\ order'[1] = c
        /\ store = sent /\ roots = {} /\ Traversed = {} /\ Ahead = {} /\ Traversed' = {}
    BY <2>1, <2>2, FreeLock, FirstIsNotTraversed, SMT
  <2>4. TypeOK'
    BY <2>2, <2>3, <2>12, SMT DEF TypeOK
  <2>5. BatchInv'
    BY <2>1, <2>2, <2>3, TasksAssumption, SMT DEF BatchInv
  <2>6. StoreInv'
    BY <2>2, <2>3, SMT DEF StoreInv
  <2>11. MapsInv' /\ MapsAgree'
    <3>1. MapsInv'
      BY <2>2 DEF MapsInv
    <3>2. MapsAgree'
      BY <2>2 DEF MapsAgree
    <3> QED BY <3>1, <3>2
  <2>7. GcInv'
    BY <2>2 DEF GcInv, Horizon
  <2>8. LackingInv' /\ KnownInv'
    <3>1. LackingInv'
      BY <2>2, <2>3 DEF LackingInv
    <3>2. KnownInv'
      BY <2>2, <2>3 DEF KnownInv
    <3> QED BY <3>1, <3>2
  <2>9. OrderInv'
    <3>1. \A p \in ParentsOf[c] : p \in store \/ RoundOf[p] <= Horizon
      <4>1. /\ gc_round \in Nat /\ Horizon \in Nat /\ gc_round <= Horizon
            /\ \A p \in ParentsOf[c] : RoundOf[p] \in Nat /\ RoundOf[p] + 1 = RoundOf[c]
        BY <2>1, HorizonRound, ParentRounds DEF TypeOK, GcInv
      <4> QED BY <2>1, <4>1, SMT
    <3>2. Horizon' = Horizon
      BY <2>2 DEF Horizon
    <3> QED BY <2>2, <2>3, <3>1, <3>2, SMT DEF OrderInv
  <2>10. OwnInv' /\ WaitInv'
    <3>1. OwnInv'
      BY <2>2, <2>12 DEF OwnInv
    <3>2. WaitInv'
      BY <2>2, <2>3, <2>12 DEF WaitInv
    <3> QED BY <3>1, <3>2
  <2> QED BY <2>4, <2>5, <2>6, <2>7, <2>8, <2>9, <2>10, <2>11
<1> QED BY <1>1, <1>2

\* accept_children: its expect holds, and a child that is set free follows all
\* its parents in the batch.
LEMMA TraverseKeeps ==
  ASSUME SyncInv, Traverse
  PROVE  SyncInv'
<1> USE Zenon
<1> DEFINE d == order[cursor]
           children == missing[d]
           freed == {ch \in children : missing_parents[ch] \subseteq {d}}
           n == Len(order)
<1> USE DEF SyncInv
<1>1. /\ panic = "none" /\ lock # "free" /\ n \in Nat /\ cursor \in 1..n /\ d \in Certs
      /\ written = 0 /\ delivered = 0
  <2>1. /\ panic = "none" /\ lock # "free" /\ cursor <= n
    BY DEF Traverse
  <2>2. /\ n \in Nat /\ cursor \in 1..(n + 1) /\ delivered \in 0..n /\ written \in delivered..n
        /\ \A i \in 1..n : order[i] \in Certs
    BY BatchTypes
  <2>3. written = 0
    BY <2>1 DEF BatchInv
  <2> HIDE DEF n
  <2>4. cursor \in 1..n /\ delivered = 0
    BY <2>1, <2>2, <2>3, SMT
  <2> QED BY <2>1, <2>2, <2>3, <2>4
<1>2. children \subseteq suspended /\ children \subseteq Certs /\ freed \in SUBSET Certs
  BY <1>1 DEF MapsInv, TypeOK
<1>3. /\ missing' = [missing EXCEPT ![d] = {}]
      /\ missing_parents' = [ch \in Certs |-> IF ch \in children THEN missing_parents[ch] \ {d}
                                                               ELSE missing_parents[ch]]
      /\ suspended' = suspended \ freed
  BY <1>2 DEF Traverse
<1>17. /\ cursor' = cursor + 1
       /\ \E s \in Orderings(freed) : order' = order \o s
  BY <1>2 DEF Traverse
<1>18. /\ store' = store /\ sent' = sent /\ lock' = lock /\ pc' = pc /\ cert' = cert
       /\ written' = written /\ delivered' = delivered
       /\ consensus_round' = consensus_round /\ gc_round' = gc_round
       /\ gc_pc' = gc_pc /\ roots' = roots /\ panic' = panic /\ restarts' = restarts
  BY <1>2 DEF Traverse, gcVars
<1>4. PICK s \in Orderings(freed) : order' = order \o s
  BY <1>17
<1>5. /\ s \in Seq(Certs) /\ Len(s) \in Nat
      /\ \A i \in 1..Len(s) : s[i] \in freed
      /\ \A x \in freed : \E i \in 1..Len(s) : s[i] = x
  <2> HIDE DEF freed
  <2>1. /\ s \in Seq(Certs)
        /\ \A i \in 1..Len(s) : s[i] \in freed
        /\ \A x \in freed : \E i \in 1..Len(s) : s[i] = x
    BY <1>2, OrderingsList
  <2> QED BY <2>1, SMT
<1>6. /\ order' \in Seq(Certs) /\ Len(order') = n + Len(s)
      /\ \A i \in 1..n : order'[i] = order[i]
      /\ \A i \in 1..Len(s) : order'[n + i] = s[i]
      /\ \A i \in (n + 1)..(n + Len(s)) : order'[i] = s[i - n]
  <2>1. order \in Seq(Certs)
    BY DEF TypeOK
  <2> QED BY <1>1, <1>4, <1>5, <2>1, SMT
<1> HIDE DEF freed, n, d, children
<1>7. TypeOK'
  <2>1. /\ missing' \in [Certs -> SUBSET Certs] /\ missing_parents' \in [Certs -> SUBSET Certs]
        /\ suspended' \subseteq Certs
    BY <1>1, <1>2, <1>3 DEF TypeOK
  <2>2. /\ cursor' \in 1..(Len(order') + 1) /\ delivered' \in 0..Len(order')
        /\ written' \in delivered'..Len(order')
    BY <1>1, <1>5, <1>6, <1>17, <1>18, SMT
  <2> QED BY <1>6, <1>18, <2>1, <2>2 DEF TypeOK
<1>8. BatchInv' /\ StoreInv' /\ MapsAgree' /\ OwnInv'
  <2>1. BatchInv'
    BY <1>1, <1>18 DEF BatchInv
  <2>2. StoreInv'
    BY <1>1, <1>18, SMT DEF StoreInv
  <2>3. MapsAgree'
    BY <1>18 DEF MapsAgree
  <2>4. OwnInv'
    BY <1>18 DEF OwnInv
  <2> QED BY <2>1, <2>2, <2>3, <2>4
<1>9. GcInv' /\ Horizon' = Horizon
  BY <1>18 DEF GcInv, Horizon
<1>10. Traversed' = Traversed \cup {d}
  <2>1. \A j \in 1..cursor : order'[j] = order[j]
    BY <1>1, <1>6, SMT
  <2>2. Traversed' = {order'[j] : j \in 1..cursor}
    <3>1. cursor' - 1 = cursor
      BY <1>1, <1>17, SMT
    <3> QED BY <3>1 DEF Traversed
  <2>3. 1..cursor = (1..(cursor - 1)) \cup {cursor}
    BY <1>1, SMT
  <2> QED BY <2>1, <2>2, <2>3 DEF Traversed, d
<1>11. \A ch \in freed : ch \in children /\ ch \in suspended /\ missing_parents[ch] \subseteq {d}
  BY <1>2 DEF freed
<1>12. MapsInv'
  <2>1. /\ missing \in [Certs -> SUBSET Certs] /\ missing_parents \in [Certs -> SUBSET Certs]
    BY DEF TypeOK
  <2>2. ASSUME NEW x \in Certs, NEW c \in missing'[x]
        PROVE  c \in suspended' /\ x \in missing_parents'[c]
    <3>1. x # d /\ c \in missing[x] /\ c \in Certs
      BY <1>1, <1>3, <2>1, <2>2
    <3>2. c \in suspended /\ x \in missing_parents[c]
      BY <3>1 DEF MapsInv
    <3>3. c \notin freed
      BY <1>11, <3>1, <3>2
    <3> QED BY <1>3, <3>1, <3>2, <3>3
  <2>3. ASSUME NEW c \in Certs, NEW x \in missing_parents'[c]
        PROVE  c \in suspended' /\ x \in ParentsOf[c]
    <3>1. x \in missing_parents[c] /\ (c \in children => x # d)
      BY <1>3, <2>3
    <3>2. c \in suspended /\ x \in ParentsOf[c]
      BY <3>1 DEF MapsInv
    <3>3. c \notin freed
      BY <1>11, <3>1
    <3> QED BY <1>3, <3>2, <3>3
  <2> QED BY <2>2, <2>3 DEF MapsInv
<1>13. LackingInv'
  <2> SUFFICES ASSUME NEW c \in suspended, c \notin freed, RoundOf[c] > gc_round + 1
               PROVE  /\ missing_parents'[c] # {}
                      /\ \A x \in missing_parents'[c] :
                           c \in missing'[x] /\ x \notin store /\ x \notin Traversed'
    BY <1>3, <1>18 DEF LackingInv
  <2>1. c \in Certs /\ missing_parents[c] \subseteq Certs /\ missing \in [Certs -> SUBSET Certs]
    BY DEF TypeOK
  <2>2. /\ missing_parents[c] # {}
        /\ \A x \in missing_parents[c] : c \in missing[x] /\ x \notin store /\ x \notin Traversed
    BY DEF LackingInv
  <2>3. d \in missing_parents[c] => c \in children
    BY <2>2 DEF children
  <2>4. missing_parents'[c] = missing_parents[c] \ {d}
    BY <1>3, <2>1, <2>3
  <2>5. missing_parents[c] \subseteq {d} => c \in freed
    BY <2>2, <2>3 DEF freed, children
  <2>6. \A x \in missing_parents'[c] : missing'[x] = missing[x]
    BY <1>1, <1>3, <2>1, <2>4
  <2> QED BY <1>10, <2>2, <2>4, <2>5, <2>6
<1>14. KnownInv'
  <2> SUFFICES ASSUME NEW c \in suspended, NEW p \in ParentsOf[c]
               PROVE  p \in missing_parents'[c] \/ p \in store \/ p \in Traversed'
    BY <1>3, <1>18 DEF KnownInv
  <2>1. c \in Certs
    BY DEF TypeOK
  <2>2. missing_parents[c] \subseteq missing_parents'[c] \cup {d}
    BY <1>3, <2>1
  <2> QED BY <1>10, <2>2 DEF KnownInv
<1>15. OrderInv'
  <2> SUFFICES ASSUME NEW i \in 1..Len(order'), NEW p \in ParentsOf[order'[i]]
               PROVE  p \in store \/ RoundOf[p] <= Horizon \/ \E j \in 1..(i - 1) : order'[j] = p
    BY <1>9, <1>18 DEF OrderInv
  <2>1. CASE i \in 1..n
    <3>1. order'[i] = order[i] /\ \A j \in 1..(i - 1) : order'[j] = order[j]
      BY <1>1, <1>6, <2>1, SMT
    <3>2. p \in store \/ RoundOf[p] <= Horizon \/ \E j \in 1..(i - 1) : order[j] = p
      BY <2>1, <3>1 DEF OrderInv, n
    <3> QED BY <3>1, <3>2
  <2>2. CASE i \in (n + 1)..(n + Len(s))
    <3>1. order'[i] \in freed
      <4>1. i - n \in 1..Len(s)
        BY <1>1, <1>5, <2>2, SMT
      <4> QED BY <1>5, <1>6, <2>2, <4>1
    <3>2. p \in {d} \/ p \in store \/ p \in Traversed
      BY <1>11, <3>1 DEF KnownInv
    <3>3. \A j \in 1..cursor : j \in 1..(i - 1) /\ order'[j] = order[j]
      BY <1>1, <1>6, <2>2, SMT
    <3>4. p \in Traversed => \E j \in 1..cursor : order[j] = p
      BY <1>1, SMT DEF Traversed
    <3> QED BY <1>1, <3>2, <3>3, <3>4, SMT DEF d
  <2> QED BY <1>1, <1>5, <1>6, <2>1, <2>2, SMT
<1>16. WaitInv'
  <2>1. Ahead \subseteq Ahead' /\ freed \subseteq Ahead'
    <3>1. Ahead = {order[i] : i \in 1..n} /\ Ahead' = {order'[i] : i \in 1..(n + Len(s))}
      BY <1>1, <1>6, <1>18, SMT DEF Ahead, n
    <3>2. \A i \in 1..n : i \in 1..(n + Len(s)) /\ order[i] = order'[i]
      BY <1>1, <1>5, <1>6, SMT
    <3>3. \A i \in 1..Len(s) : n + i \in 1..(n + Len(s)) /\ s[i] = order'[n + i]
      BY <1>1, <1>5, <1>6, SMT
    <3>4. freed \subseteq Ahead'
      BY <1>5, <3>1, <3>3
    <3> QED BY <3>1, <3>2, <3>4
  <2> QED BY <1>3, <1>18, <2>1 DEF WaitInv
<1> QED BY <1>7, <1>8, <1>9, <1>12, <1>13, <1>14, <1>15, <1>16

\* The write to the store comes before the send to consensus.
LEMMA WriteKeeps ==
  ASSUME SyncInv, WriteCertificate
  PROVE  SyncInv'
<1> USE Zenon
<1> DEFINE k == written + 1
           c == order[k]
<1> USE DEF SyncInv
<1>1. /\ order \in Seq(Certs) /\ Len(order) \in Nat /\ cursor = Len(order) + 1
      /\ written \in Nat /\ written = delivered /\ k \in 1..Len(order)
  <2>1. written < Len(order) /\ written = delivered /\ cursor > Len(order)
    BY DEF WriteCertificate, Accepting
  <2> QED BY <2>1, BatchTypes, SMT
<1>2. /\ store' = store \cup {c} /\ written' = k
      /\ sent' = sent /\ lock' = lock /\ pc' = pc /\ cert' = cert
      /\ suspended' = suspended /\ missing_parents' = missing_parents /\ missing' = missing
      /\ order' = order /\ cursor' = cursor /\ delivered' = delivered
      /\ consensus_round' = consensus_round /\ gc_round' = gc_round
      /\ gc_pc' = gc_pc /\ roots' = roots /\ panic' = panic /\ restarts' = restarts
  BY DEF WriteCertificate, stateVars, gcVars
<1>3. c \in Certs /\ c \in Traversed
  BY <1>1, SMT DEF Traversed
<1> HIDE DEF c
<1>4. TypeOK'
  BY <1>1, <1>2, <1>3, SMT DEF TypeOK
<1>5. BatchInv'
  BY <1>1, <1>2, SMT DEF BatchInv
<1>13. MapsAgree' /\ MapsInv'
  <2>1. MapsAgree'
    BY <1>2 DEF MapsAgree
  <2>2. MapsInv'
    BY <1>2 DEF MapsInv
  <2> QED BY <2>1, <2>2
<1>6. StoreInv'
  <2>1. store = sent
    <3>1. written # delivered + 1
      BY <1>1, SMT
    <3> QED BY <3>1 DEF StoreInv
  <2>2. \A i \in 1..k : order[i] \in store \cup {c}
    BY <1>1, SMT DEF StoreInv, c
  <2> QED BY <1>1, <1>2, <2>1, <2>2 DEF StoreInv, c
<1>7. GcInv' /\ Horizon' = Horizon
  BY <1>2 DEF GcInv, Horizon
<1>8. Traversed' = Traversed /\ Ahead' = Ahead
  BY <1>2 DEF Traversed, Ahead
<1>9. LackingInv' /\ KnownInv' /\ WaitInv'
  <2>1. LackingInv'
    BY <1>2, <1>3, <1>8 DEF LackingInv
  <2>2. KnownInv'
    BY <1>2, <1>3, <1>8 DEF KnownInv
  <2>3. WaitInv'
    BY <1>2, <1>3, <1>8 DEF WaitInv
  <2> QED BY <2>1, <2>2, <2>3
<1>10. OrderInv'
  BY <1>2, <1>7, SMT DEF OrderInv
<1>11. OwnInv'
  BY <1>2 DEF OwnInv
<1> QED BY <1>4, <1>5, <1>6, <1>7, <1>9, <1>10, <1>11, <1>13

\* Consensus gets the certificate just written, and whoever waits for it is
\* notified.
LEMMA SendKeeps ==
  ASSUME SyncInv, SendToConsensus
  PROVE  SyncInv'
<1> USE Zenon
<1> DEFINE c == order[written]
           woken == {t \in Tasks : pc[t] = "wait" /\ cert[t] = c}
<1> USE DEF SyncInv
<1>1. /\ order \in Seq(Certs) /\ Len(order) \in Nat /\ cursor = Len(order) + 1
      /\ delivered \in Nat /\ written = delivered + 1 /\ written \in 1..Len(order)
  <2>1. written = delivered + 1 /\ cursor > Len(order)
    BY DEF SendToConsensus, Accepting
  <2> QED BY <2>1, BatchTypes, SMT
<1>2. /\ sent' = sent \cup {c} /\ delivered' = delivered + 1
      /\ pc' = [t \in Tasks |-> IF t \in woken THEN "idle" ELSE pc[t]]
      /\ cert' = [t \in Tasks |-> IF t \in woken THEN "none" ELSE cert[t]]
      /\ store' = store /\ lock' = lock
      /\ suspended' = suspended /\ missing_parents' = missing_parents /\ missing' = missing
      /\ order' = order /\ cursor' = cursor /\ written' = written
      /\ consensus_round' = consensus_round /\ gc_round' = gc_round
      /\ gc_pc' = gc_pc /\ roots' = roots /\ panic' = panic /\ restarts' = restarts
  BY DEF SendToConsensus, stateVars, gcVars
<1>3. c \in Certs /\ c \in store
  BY <1>1, SMT DEF StoreInv
<1>4. TypeOK'
  <2> HIDE DEF c
  <2>1. /\ pc' \in [Tasks -> TaskLabels] /\ cert' \in [Tasks -> Certs \cup {"none"}]
        /\ \A t \in Tasks : pc'[t] # "idle" => cert'[t] \in Certs
    BY <1>2 DEF TypeOK, TaskLabels
  <2> QED BY <1>1, <1>2, <1>3, <2>1, SMT DEF TypeOK
<1>5. BatchInv'
  BY <1>1, <1>2, SMT DEF BatchInv
<1>13. MapsAgree' /\ MapsInv'
  <2>1. MapsAgree'
    BY <1>2 DEF MapsAgree
  <2>2. MapsInv'
    BY <1>2 DEF MapsInv
  <2> QED BY <2>1, <2>2
<1>6. StoreInv'
  <2>1. \A i \in 1..written : order[i] \in sent \cup {c}
    BY <1>1 DEF StoreInv
  <2>2. store = sent \cup {c}
    BY <1>3 DEF StoreInv
  <2> QED BY <1>1, <1>2, <2>1, <2>2 DEF StoreInv
<1>7. GcInv' /\ Horizon' = Horizon
  BY <1>2 DEF GcInv, Horizon
<1>8. Traversed' = Traversed /\ Ahead \subseteq Ahead' \cup {c}
  BY <1>1, <1>2, SMT DEF Traversed, Ahead
<1>9. LackingInv' /\ KnownInv'
  <2>1. LackingInv'
    BY <1>2, <1>8 DEF LackingInv
  <2>2. KnownInv'
    BY <1>2, <1>8 DEF KnownInv
  <2> QED BY <2>1, <2>2
<1>10. OrderInv'
  BY <1>2, <1>7 DEF OrderInv
<1>11. OwnInv'
  BY <1>2 DEF OwnInv
<1>12. WaitInv'
  BY <1>2, <1>8 DEF WaitInv
<1> QED BY <1>4, <1>5, <1>6, <1>7, <1>9, <1>10, <1>11, <1>12, <1>13

\* The task that accepted a batch gives the lock back.
LEMMA FinishKeeps ==
  ASSUME SyncInv, NEW t \in Tasks, Finish(t)
  PROVE  SyncInv'
<1> USE Zenon
<1> USE DEF SyncInv
<1>1. /\ lock = t /\ lock' = "free" /\ BatchDone
      /\ order' = <<>> /\ cursor' = 1 /\ written' = 0 /\ delivered' = 0
      /\ store' = store /\ sent' = sent
      /\ suspended' = suspended /\ missing_parents' = missing_parents /\ missing' = missing
      /\ consensus_round' = consensus_round /\ gc_round' = gc_round
      /\ gc_pc' = gc_pc /\ roots' = roots /\ panic' = panic /\ restarts' = restarts
  BY DEF Finish, ResetBatch, stateVars, gcVars
<1>10. /\ pc' \in [Tasks -> TaskLabels] /\ cert' \in [Tasks -> Certs \cup {"none"}]
       /\ \A u \in Tasks : pc'[u] # "idle" => cert'[u] \in Certs
       /\ pc'[t] = "idle" /\ \A u \in Tasks : u # t => pc'[u] = pc[u] /\ cert'[u] = cert[u]
  <2>1. pc' = [pc EXCEPT ![t] = "idle"] /\ cert' = [cert EXCEPT ![t] = "none"]
    BY DEF Finish, Goto
  <2>2. /\ pc \in [Tasks -> TaskLabels] /\ cert \in [Tasks -> Certs \cup {"none"}]
        /\ \A u \in Tasks : pc[u] # "idle" => cert[u] \in Certs
    BY DEF TypeOK
  <2> QED BY <2>1, <2>2 DEF TaskLabels
<1>2. TypeOK'
  BY <1>1, <1>10, EmptyBatch DEF TypeOK
<1>3. BatchInv'
  BY <1>1, TasksAssumption, EmptyBatch, SMT DEF BatchInv
<1>4. /\ store = sent /\ Traversed \subseteq store /\ Ahead = {}
      /\ Traversed' = {}
  <2>1. store = sent /\ Traversed \subseteq store /\ Ahead = {}
    BY <1>1, DoneBatch
  <2>2. Traversed' = {}
    BY <1>1, FirstIsNotTraversed
  <2> QED BY <2>1, <2>2
<1>5. StoreInv'
  BY <1>1, <1>4, SMT DEF StoreInv
<1>9. MapsAgree' /\ MapsInv'
  <2>1. MapsAgree'
    BY <1>1 DEF MapsAgree
  <2>2. MapsInv'
    BY <1>1 DEF MapsInv
  <2> QED BY <2>1, <2>2
<1>6. GcInv' /\ OrderInv'
  <2>1. GcInv'
    BY <1>1 DEF GcInv, Horizon
  <2>2. OrderInv'
    BY <1>1, SMT DEF OrderInv, Horizon
  <2> QED BY <2>1, <2>2
<1>7. LackingInv' /\ KnownInv'
  <2>1. LackingInv'
    BY <1>1, <1>4 DEF LackingInv
  <2>2. KnownInv'
    BY <1>1, <1>4 DEF KnownInv
  <2> QED BY <2>1, <2>2
<1>8. OwnInv' /\ WaitInv'
  <2>1. OwnInv'
    BY <1>1, <1>10 DEF OwnInv
  <2>2. WaitInv'
    BY <1>1, <1>4, <1>10 DEF WaitInv
  <2> QED BY <2>1, <2>2
<1> QED BY <1>2, <1>3, <1>5, <1>6, <1>7, <1>8, <1>9

-----------------------------------------------------------------------------
(* Garbage collection, consensus and a crash, and what follows.             *)

\* gc_round moves up before the lock is taken; it only weakens what is claimed.
LEMMA UpdateGcRoundKeeps ==
  ASSUME SyncInv, UpdateGcRound
  PROVE  SyncInv'
<1> USE Zenon
<1> USE DEF SyncInv
<1>1. /\ gc_round' = Horizon /\ gc_pc = "idle" /\ gc_pc' = "lock"
      /\ store' = store /\ sent' = sent /\ lock' = lock /\ pc' = pc /\ cert' = cert
      /\ suspended' = suspended /\ missing_parents' = missing_parents /\ missing' = missing
      /\ order' = order /\ cursor' = cursor /\ written' = written /\ delivered' = delivered
      /\ consensus_round' = consensus_round
      /\ roots' = roots /\ panic' = panic /\ restarts' = restarts
  BY DEF UpdateGcRound, stateVars, batchVars
<1>2. Horizon \in Nat /\ gc_round \in Nat /\ gc_round <= Horizon /\ Horizon' = Horizon
  BY <1>1, HorizonRound DEF GcInv, TypeOK, Horizon
<1> HIDE DEF Horizon
<1>3. TypeOK' /\ BatchInv'
  <2>1. TypeOK'
    BY <1>1, <1>2 DEF TypeOK
  <2>2. BatchInv'
    BY <1>1, <1>2 DEF BatchInv
  <2> QED BY <2>1, <2>2
<1>4. StoreInv' /\ MapsInv'
  <2>1. StoreInv'
    BY <1>1 DEF StoreInv
  <2>2. MapsInv'
    BY <1>1 DEF MapsInv
  <2> QED BY <2>1, <2>2
<1>5. GcInv'
  <2>1. roots = {}
    BY <1>1 DEF BatchInv
  <2> QED BY <1>1, <1>2, <2>1, SMT DEF GcInv
<1>6. Traversed' = Traversed /\ Ahead' = Ahead
  BY <1>1 DEF Traversed, Ahead
<1>7. LackingInv'
  <2>1. \A c \in suspended : RoundOf[c] > gc_round' + 1 => RoundOf[c] > gc_round + 1
    BY <1>1, <1>2, ParentRounds, SMT DEF TypeOK
  <2> QED BY <1>1, <1>6, <2>1 DEF LackingInv
<1>8. KnownInv' /\ WaitInv'
  <2>1. KnownInv'
    BY <1>1, <1>6 DEF KnownInv
  <2>2. WaitInv'
    BY <1>1, <1>6 DEF WaitInv
  <2> QED BY <2>1, <2>2
<1>9. OrderInv'
  BY <1>1, <1>2, SMT DEF OrderInv
<1>10. OwnInv' /\ MapsAgree'
  <2>1. OwnInv'
    BY <1>1 DEF OwnInv
  <2>2. MapsAgree'
    BY <1>1 DEF MapsAgree
  <2> QED BY <2>1, <2>2
<1> QED BY <1>3, <1>4, <1>5, <1>7, <1>8, <1>9, <1>10

\* State::run_gc: the certificates of the round above gc_round that it takes
\* out of the maps are none of those it drops, so its expect holds.
LEMMA RunGcKeeps ==
  ASSUME SyncInv, run_gc
  PROVE  SyncInv'
<1> USE Zenon
<1> DEFINE gone == {d \in Certs : missing[d] # {} /\ RoundOf[d] <= gc_round}
           above == UNION {missing[d] : d \in {e \in gone : RoundOf[e] = gc_round}}
           dropped == gone \cap suspended
           woken == {t \in Tasks : pc[t] = "wait" /\ cert[t] \in dropped}
<1> USE DEF SyncInv
<1>1. gc_round \in Nat /\ lock = "free" /\ gc_pc = "lock" /\ panic = "none"
  BY DEF run_gc, TypeOK
<1>2. /\ gone \subseteq Certs
      /\ \A d \in Certs : d \in gone <=> missing[d] # {} /\ RoundOf[d] <= gc_round
      /\ \A c \in above : \E d \in gone : RoundOf[d] = gc_round /\ c \in missing[d]
      /\ dropped = gone \cap suspended
      /\ \A t \in woken : cert[t] \in dropped
      /\ \A t \in Tasks : pc[t] = "wait" /\ cert[t] \in dropped => t \in woken
  BY SMT
<1>5. above \subseteq suspended \ dropped =>
      /\ lock' = "gc" /\ gc_pc' = "run" /\ roots' = above
      /\ suspended' = (suspended \ dropped) \ above
      /\ missing' = [d \in Certs |-> IF d \in gone THEN {} ELSE missing[d]]
      /\ missing_parents' = [c \in Certs |-> IF c \in above \cup dropped THEN {}
                                                                     ELSE missing_parents[c]]
      /\ pc' = [t \in Tasks |-> IF t \in woken THEN "idle" ELSE pc[t]]
      /\ cert' = [t \in Tasks |-> IF t \in woken THEN "none" ELSE cert[t]]
      /\ store' = store /\ sent' = sent /\ panic' = panic /\ restarts' = restarts
      /\ order' = order /\ cursor' = cursor /\ written' = written /\ delivered' = delivered
      /\ consensus_round' = consensus_round /\ gc_round' = gc_round
  BY DEF run_gc, batchVars
<1> HIDE DEF gone, above, dropped, woken
<1>3. above \subseteq suspended /\ \A c \in above : c \in Certs /\ RoundOf[c] = gc_round + 1
  <2> SUFFICES ASSUME NEW c \in above
               PROVE  c \in suspended /\ c \in Certs /\ RoundOf[c] = gc_round + 1
    BY SMT
  <2>1. PICK d \in gone : RoundOf[d] = gc_round /\ c \in missing[d]
    BY <1>2
  <2>2. d \in Certs /\ c \in suspended /\ d \in missing_parents[c]
    BY <1>2, <2>1 DEF MapsInv
  <2>3. c \in Certs
    BY <2>2 DEF TypeOK
  <2>4. d \in ParentsOf[c]
    BY <2>2, <2>3 DEF MapsInv
  <2> QED BY <2>1, <2>2, <2>3, <2>4, ParentRounds
<1>17. \A c \in dropped : c \in Certs /\ RoundOf[c] <= gc_round
  BY <1>2
<1>4. above \subseteq suspended \ dropped
  BY <1>1, <1>3, <1>17, SMT
<1>18. /\ lock' = "gc" /\ gc_pc' = "run" /\ roots' = above
       /\ suspended' = (suspended \ dropped) \ above
       /\ store' = store /\ sent' = sent /\ panic' = panic /\ restarts' = restarts
       /\ order' = order /\ cursor' = cursor /\ written' = written /\ delivered' = delivered
       /\ consensus_round' = consensus_round /\ gc_round' = gc_round
  BY <1>4, <1>5
<1>19. /\ missing' = [d \in Certs |-> IF d \in gone THEN {} ELSE missing[d]]
       /\ missing_parents' = [c \in Certs |-> IF c \in above \cup dropped THEN {}
                                                                     ELSE missing_parents[c]]
  BY <1>4, <1>5
<1>20. /\ pc' = [t \in Tasks |-> IF t \in woken THEN "idle" ELSE pc[t]]
       /\ cert' = [t \in Tasks |-> IF t \in woken THEN "none" ELSE cert[t]]
  BY <1>4, <1>5
\* Who still waits in `missing` lies beyond what run_gc took away.
<1>6. \A d \in Certs : \A c \in missing[d] :
        d \notin gone => c \in suspended /\ d \in missing_parents[c] /\ c \notin above \cup dropped
  <2> SUFFICES ASSUME NEW d \in Certs, NEW c \in missing[d], d \notin gone
               PROVE  c \in suspended /\ d \in missing_parents[c] /\ c \notin above \cup dropped
    BY SMT
  <2>1. c \in suspended /\ d \in missing_parents[c]
    BY DEF MapsInv
  <2>2. c \in Certs
    BY <2>1 DEF TypeOK
  <2>3. d \in ParentsOf[c]
    BY <2>1, <2>2 DEF MapsInv
  <2>4. RoundOf[d] + 1 = RoundOf[c] /\ RoundOf[d] \in Nat /\ RoundOf[c] \in Nat
    BY <2>2, <2>3, ParentRounds
  <2>5. RoundOf[d] > gc_round
    BY <1>1, <1>2, <2>4, SMT
  <2>6. RoundOf[c] > gc_round + 1
    BY <1>1, <2>4, <2>5, SMT
  <2>7. c \notin above
    BY <1>1, <1>3, <2>4, <2>6, SMT
  <2>8. c \notin dropped
    BY <1>1, <1>17, <2>4, <2>6, SMT
  <2> QED BY <2>1, <2>7, <2>8
<1>7. TypeOK'
  <2>1. /\ pc' \in [Tasks -> TaskLabels] /\ cert' \in [Tasks -> Certs \cup {"none"}]
        /\ \A t \in Tasks : pc'[t] # "idle" => cert'[t] \in Certs
    BY <1>20 DEF TypeOK, TaskLabels
  <2>2. missing' \in [Certs -> SUBSET Certs] /\ missing_parents' \in [Certs -> SUBSET Certs]
    BY <1>19 DEF TypeOK
  <2>3. suspended' \subseteq Certs /\ roots' \subseteq Certs
    BY <1>3, <1>18 DEF TypeOK
  <2> QED BY <1>18, <2>1, <2>2, <2>3 DEF TypeOK
<1>8. BatchInv'
  BY <1>1, <1>18 DEF BatchInv
<1>9. StoreInv' /\ MapsAgree'
  <2>1. StoreInv'
    BY <1>18 DEF StoreInv
  <2>2. MapsAgree'
    BY <1>18 DEF MapsAgree
  <2> QED BY <2>1, <2>2
<1>10. GcInv' /\ OrderInv'
  <2>1. GcInv'
    BY <1>3, <1>18 DEF GcInv, Horizon
  <2>2. OrderInv'
    BY <1>18, SMT DEF OrderInv, Horizon
  <2> QED BY <2>1, <2>2
<1>11. MapsInv'
  <2>1. \A d \in Certs : \A c \in missing'[d] : c \in suspended' /\ d \in missing_parents'[c]
    <3> SUFFICES ASSUME NEW d \in Certs, NEW c \in missing'[d]
                 PROVE  c \in suspended' /\ d \in missing_parents'[c]
      BY SMT
    <3>1. d \notin gone /\ c \in missing[d]
      BY <1>19
    <3>2. c \in suspended /\ d \in missing_parents[c] /\ c \notin above \cup dropped
      BY <1>6, <3>1
    <3>3. c \in Certs
      BY <3>2 DEF TypeOK
    <3> QED BY <1>18, <1>19, <3>2, <3>3
  <2>2. \A c \in Certs : \A d \in missing_parents'[c] : c \in suspended' /\ d \in ParentsOf[c]
    <3> SUFFICES ASSUME NEW c \in Certs, NEW d \in missing_parents'[c]
                 PROVE  c \in suspended' /\ d \in ParentsOf[c]
      BY SMT
    <3>1. c \notin above \cup dropped /\ d \in missing_parents[c]
      BY <1>19
    <3>2. c \in suspended /\ d \in ParentsOf[c]
      BY <3>1 DEF MapsInv
    <3> QED BY <1>18, <3>1, <3>2
  <2> QED BY <2>1, <2>2 DEF MapsInv
<1>12. Traversed = {} /\ Traversed' = {} /\ Ahead = {} /\ Ahead' = {} /\ roots = {}
  <2>1. Traversed = {} /\ Ahead = {} /\ roots = {}
    BY <1>1, FreeLock
  <2>2. Traversed' = Traversed /\ Ahead' = Ahead
    BY <1>18 DEF Traversed, Ahead
  <2> QED BY <2>1, <2>2
<1>13. LackingInv'
  <2> SUFFICES ASSUME NEW c \in suspended, c \notin above \cup dropped, RoundOf[c] > gc_round + 1
               PROVE  /\ missing_parents'[c] # {}
                      /\ \A d \in missing_parents'[c] : c \in missing'[d] /\ d \notin store
    BY <1>12, <1>18 DEF LackingInv
  <2>1. c \in Certs /\ missing_parents[c] \subseteq Certs
    BY DEF TypeOK
  <2>2. missing_parents'[c] = missing_parents[c]
    BY <1>19, <2>1
  <2>3. /\ missing_parents[c] # {}
        /\ \A d \in missing_parents[c] : c \in missing[d] /\ d \notin store
    BY DEF LackingInv
  <2>4. \A d \in missing_parents[c] : d \notin gone
    <3> SUFFICES ASSUME NEW d \in missing_parents[c] PROVE ~ (RoundOf[d] <= gc_round)
      BY <1>2, <2>1
    <3>1. d \in ParentsOf[c]
      BY <2>1 DEF MapsInv
    <3>2. RoundOf[d] + 1 = RoundOf[c] /\ RoundOf[d] \in Nat
      BY <2>1, <3>1, ParentRounds
    <3> QED BY <1>1, <3>2, SMT
  <2>5. \A d \in missing_parents[c] : missing'[d] = missing[d]
    BY <1>19, <2>1, <2>4
  <2> QED BY <2>2, <2>3, <2>5
<1>14. KnownInv'
  <2> SUFFICES ASSUME NEW c \in suspended, c \notin above \cup dropped, NEW p \in ParentsOf[c]
               PROVE  p \in missing_parents'[c] \/ p \in store
    BY <1>12, <1>18 DEF KnownInv
  <2>1. c \in Certs
    BY DEF TypeOK
  <2>2. missing_parents'[c] = missing_parents[c]
    BY <1>19, <2>1
  <2> QED BY <1>12, <2>2 DEF KnownInv
<1>15. OwnInv' /\ WaitInv'
  <2>1. OwnInv'
    BY <1>18, <1>20 DEF OwnInv
  <2>2. WaitInv'
    <3> SUFFICES ASSUME NEW t \in Tasks, pc'[t] = "wait"
                 PROVE  cert'[t] \in suspended' \cup roots'
      BY DEF WaitInv
    <3>1. t \notin woken /\ pc[t] = "wait" /\ cert'[t] = cert[t]
      BY <1>20
    <3>2. cert[t] \in suspended
      BY <1>12, <3>1 DEF WaitInv
    <3>3. cert[t] \notin dropped
      BY <1>2, <3>1
    <3> QED BY <1>18, <3>1, <3>2, <3>3
  <2> QED BY <2>1, <2>2
<1> QED BY <1>7, <1>8, <1>9, <1>10, <1>11, <1>13, <1>14, <1>15

\* The GC task accepts a certificate of the round above gc_round.
LEMMA AcceptAboveGcKeeps ==
  ASSUME SyncInv, NEW c \in Certs, AcceptAboveGc(c)
  PROVE  SyncInv'
<1> USE Zenon
<1>1. CASE c \in suspended
  BY <1>1, PanicKeeps DEF AcceptAboveGc
<1>2. CASE c \notin suspended
  <2> USE DEF SyncInv
  <2>1. lock = "gc" /\ BatchDone /\ c \in roots /\ gc_pc = "run"
    BY DEF AcceptAboveGc, BatchInv
  <2>2. /\ store' = store /\ sent' = sent /\ lock' = "gc" /\ panic' = panic
        /\ restarts' = restarts
        /\ suspended' = suspended /\ missing_parents' = missing_parents /\ missing' = missing
        /\ order' = <<c>> /\ cursor' = 1 /\ written' = 0 /\ delivered' = 0
        /\ consensus_round' = consensus_round /\ gc_round' = gc_round
        /\ gc_pc' = gc_pc /\ roots' = roots \ {c}
        /\ pc' = pc /\ cert' = cert
    BY <1>2 DEF AcceptAboveGc, StartBatch, stateVars
  <2>3. /\ order' \in Seq(Certs) /\ Len(order') = 1 /\ order'[1] = c
        /\ store = sent /\ Traversed \subseteq store /\ Ahead = {} /\ Traversed' = {}
    BY <2>1, <2>2, DoneBatch, FirstIsNotTraversed, SMT
  <2>4. Ahead' = {c}
    BY <2>2, <2>3, SMT DEF Ahead
  <2>5. TypeOK'
    BY <2>2, <2>3, SMT DEF TypeOK
  <2>6. BatchInv'
    BY <2>1, <2>2, <2>3, SMT DEF BatchInv
  <2>7. StoreInv'
    BY <2>2, <2>3, SMT DEF StoreInv
  <2>8. MapsInv' /\ MapsAgree'
    <3>1. MapsInv'
      BY <2>2 DEF MapsInv
    <3>2. MapsAgree'
      BY <2>2 DEF MapsAgree
    <3> QED BY <3>1, <3>2
  <2>9. GcInv' /\ Horizon' = Horizon
    BY <2>2 DEF GcInv, Horizon
  <2>10. LackingInv' /\ KnownInv'
    <3>1. LackingInv'
      BY <2>2, <2>3 DEF LackingInv
    <3>2. KnownInv'
      BY <2>2, <2>3 DEF KnownInv
    <3> QED BY <3>1, <3>2
  <2>11. OrderInv'
    <3>1. \A p \in ParentsOf[c] : RoundOf[p] <= Horizon
      <4>1. /\ gc_round \in Nat /\ Horizon \in Nat /\ gc_round <= Horizon
            /\ RoundOf[c] = gc_round + 1
            /\ \A p \in ParentsOf[c] : RoundOf[p] \in Nat /\ RoundOf[p] + 1 = RoundOf[c]
        BY <2>1, HorizonRound, ParentRounds DEF TypeOK, GcInv
      <4> QED BY <4>1, SMT
    <3> QED BY <2>2, <2>3, <2>9, <3>1, SMT DEF OrderInv
  <2>12. OwnInv' /\ WaitInv'
    <3>1. OwnInv'
      BY <2>2, <2>3, <2>4 DEF OwnInv
    <3>2. WaitInv'
      BY <2>2, <2>3, <2>4 DEF WaitInv
    <3> QED BY <3>1, <3>2
  <2> QED BY <2>5, <2>6, <2>7, <2>8, <2>9, <2>10, <2>11, <2>12
<1> QED BY <1>1, <1>2

\* The GC task gives the lock back.
LEMMA FinishGcKeeps ==
  ASSUME SyncInv, FinishGc
  PROVE  SyncInv'
<1> USE Zenon
<1> USE DEF SyncInv
<1>1. /\ lock = "gc" /\ BatchDone /\ roots = {}
      /\ lock' = "free" /\ gc_pc' = "idle"
      /\ order' = <<>> /\ cursor' = 1 /\ written' = 0 /\ delivered' = 0
      /\ pc' = pc /\ cert' = cert /\ store' = store /\ sent' = sent
      /\ suspended' = suspended /\ missing_parents' = missing_parents /\ missing' = missing
      /\ consensus_round' = consensus_round /\ gc_round' = gc_round
      /\ roots' = roots /\ panic' = panic /\ restarts' = restarts
  BY DEF FinishGc, ResetBatch, stateVars
<1>2. TypeOK' /\ BatchInv'
  <2>1. TypeOK'
    BY <1>1, EmptyBatch DEF TypeOK
  <2>2. BatchInv'
    BY <1>1, EmptyBatch, SMT DEF BatchInv
  <2> QED BY <2>1, <2>2
<1>3. /\ store = sent /\ Traversed \subseteq store /\ Ahead = {}
      /\ Traversed' = {}
  <2>1. store = sent /\ Traversed \subseteq store /\ Ahead = {}
    BY <1>1, DoneBatch
  <2>2. Traversed' = {}
    BY <1>1, FirstIsNotTraversed
  <2> QED BY <2>1, <2>2
<1>4. StoreInv'
  BY <1>1, <1>3, SMT DEF StoreInv
<1>5. MapsAgree' /\ MapsInv'
  <2>1. MapsAgree'
    BY <1>1 DEF MapsAgree
  <2>2. MapsInv'
    BY <1>1 DEF MapsInv
  <2> QED BY <2>1, <2>2
<1>6. GcInv' /\ OrderInv'
  <2>1. GcInv'
    BY <1>1 DEF GcInv, Horizon
  <2>2. OrderInv'
    BY <1>1, SMT DEF OrderInv, Horizon
  <2> QED BY <2>1, <2>2
<1>7. LackingInv' /\ KnownInv'
  <2>1. LackingInv'
    BY <1>1, <1>3 DEF LackingInv
  <2>2. KnownInv'
    BY <1>1, <1>3 DEF KnownInv
  <2> QED BY <2>1, <2>2
<1>8. OwnInv' /\ WaitInv'
  <2>1. OwnInv'
    BY <1>1, <1>3 DEF OwnInv
  <2>2. WaitInv'
    BY <1>1, <1>3 DEF WaitInv
  <2> QED BY <2>1, <2>2
<1> QED BY <1>2, <1>4, <1>5, <1>6, <1>7, <1>8

\* A commit moves the horizon up.
LEMMA CommitKeeps ==
  ASSUME SyncInv, NEW r \in 1..MaxCommitRound, Commit(r)
  PROVE  SyncInv' /\ Horizon <= Horizon'
<1> USE Zenon
<1> USE DEF SyncInv
<1>1. /\ consensus_round' = r /\ consensus_round \in Nat /\ r \in Nat /\ consensus_round <= r
      /\ gc_round' = gc_round /\ gc_pc' = gc_pc
      /\ store' = store /\ sent' = sent /\ lock' = lock /\ pc' = pc /\ cert' = cert
      /\ suspended' = suspended /\ missing_parents' = missing_parents /\ missing' = missing
      /\ order' = order /\ cursor' = cursor /\ written' = written /\ delivered' = delivered
      /\ roots' = roots /\ panic' = panic /\ restarts' = restarts
  BY BoundsAssumption, SMT DEF Commit, TypeOK, stateVars, batchVars
<1>2. Horizon \in Nat /\ Horizon' \in Nat /\ Horizon <= Horizon'
  BY <1>1, SaturatingSub DEF Horizon
<1> HIDE DEF Horizon
<1>3. TypeOK' /\ BatchInv'
  <2>1. TypeOK'
    BY <1>1 DEF TypeOK
  <2>2. BatchInv'
    BY <1>1 DEF BatchInv
  <2> QED BY <2>1, <2>2
<1>4. StoreInv'
  BY <1>1 DEF StoreInv
<1>5. MapsInv' /\ MapsAgree'
  <2>1. MapsInv'
    BY <1>1 DEF MapsInv
  <2>2. MapsAgree'
    BY <1>1 DEF MapsAgree
  <2> QED BY <2>1, <2>2
<1>6. GcInv'
  <2>1. gc_round \in Nat /\ gc_round <= Horizon
    BY DEF TypeOK, GcInv
  <2> QED BY <1>1, <1>2, <2>1, SMT DEF GcInv
<1>7. Traversed' = Traversed /\ Ahead' = Ahead
  BY <1>1 DEF Traversed, Ahead
<1>8. LackingInv' /\ KnownInv' /\ WaitInv'
  <2>1. LackingInv'
    BY <1>1, <1>7 DEF LackingInv
  <2>2. KnownInv'
    BY <1>1, <1>7 DEF KnownInv
  <2>3. WaitInv'
    BY <1>1, <1>7 DEF WaitInv
  <2> QED BY <2>1, <2>2, <2>3
<1>9. OwnInv'
  BY <1>1 DEF OwnInv
<1>10. OrderInv'
  <2> SUFFICES ASSUME NEW i \in 1..Len(order), NEW p \in ParentsOf[order[i]]
               PROVE  \/ p \in store \/ RoundOf[p] <= Horizon'
                      \/ \E j \in 1..(i - 1) : order[j] = p
    BY <1>1, SMT DEF OrderInv
  <2>1. RoundOf[p] \in Nat
    BY ParentRounds, SMT DEF TypeOK
  <2> QED BY <1>2, <2>1, SMT DEF OrderInv
<1> QED BY <1>2, <1>3, <1>4, <1>5, <1>6, <1>8, <1>9, <1>10

\* A restart keeps the store and nothing else.
LEMMA RestartKeeps ==
  ASSUME SyncInv, Restart
  PROVE  SyncInv'
<1> USE Zenon
<1> USE DEF SyncInv
<1>1. /\ store' = store /\ sent' = store /\ consensus_round' = consensus_round
      /\ gc_round' = 0 /\ gc_pc' = "idle" /\ roots' = {} /\ lock' = "free"
      /\ suspended' = {}
      /\ missing_parents' = [c \in Certs |-> {}] /\ missing' = [c \in Certs |-> {}]
      /\ order' = <<>> /\ cursor' = 1 /\ written' = 0 /\ delivered' = 0
      /\ pc' = [t \in Tasks |-> "idle"] /\ cert' = [t \in Tasks |-> "none"]
      /\ panic' = "none" /\ restarts' = restarts + 1
  BY DEF Restart, ResetBatch
<1>2. TypeOK'
  <2>1. /\ pc' \in [Tasks -> TaskLabels] /\ cert' \in [Tasks -> Certs \cup {"none"}]
        /\ \A t \in Tasks : pc'[t] # "idle" => cert'[t] \in Certs
    BY <1>1 DEF TaskLabels
  <2>2. /\ order' \in Seq(Certs) /\ Len(order') = 0 /\ restarts' \in Nat
    BY <1>1, SMT DEF TypeOK
  <2>3. missing_parents' \in [Certs -> SUBSET Certs] /\ missing' \in [Certs -> SUBSET Certs]
    BY <1>1
  <2>4. /\ cursor' \in 1..(Len(order') + 1) /\ delivered' \in 0..Len(order')
        /\ written' \in delivered'..Len(order')
    BY <1>1, <2>2, SMT
  <2>5. /\ store' \subseteq Certs /\ sent' \subseteq Certs /\ consensus_round' \in Nat
        /\ gc_round' \in Nat /\ suspended' \subseteq Certs /\ roots' \subseteq Certs
        /\ lock' \in Tasks \cup {"free", "gc"} /\ gc_pc' \in {"idle", "lock", "run"}
        /\ panic' \in Panics
    BY <1>1 DEF TypeOK, Panics
  <2> QED BY <2>1, <2>2, <2>3, <2>4, <2>5 DEF TypeOK
<1>3. BatchInv' /\ StoreInv'
  <2>1. Len(order') = 0
    BY <1>1
  <2> QED BY <1>1, <2>1, SMT DEF BatchInv, StoreInv
<1>7. MapsInv' /\ MapsAgree'
  <2>1. MapsInv'
    BY <1>1 DEF MapsInv
  <2>2. MapsAgree'
    BY <1>1 DEF MapsAgree
  <2> QED BY <2>1, <2>2
<1>4. LackingInv' /\ KnownInv' /\ OrderInv'
  <2>1. LackingInv'
    BY <1>1 DEF LackingInv
  <2>2. KnownInv'
    BY <1>1 DEF KnownInv
  <2>3. OrderInv'
    BY <1>1, SMT DEF OrderInv
  <2> QED BY <2>1, <2>2, <2>3
<1>5. OwnInv' /\ WaitInv'
  <2>1. OwnInv'
    BY <1>1 DEF OwnInv
  <2>2. WaitInv'
    BY <1>1 DEF WaitInv
  <2> QED BY <2>1, <2>2
<1>6. GcInv'
  <2>1. Horizon \in Nat /\ Horizon' = Horizon
    BY <1>1, HorizonRound DEF Horizon
  <2> HIDE DEF Horizon
  <2> QED BY <1>1, <2>1, SMT DEF GcInv
<1> QED BY <1>2, <1>3, <1>4, <1>5, <1>6, <1>7

-----------------------------------------------------------------------------
\* Every step of the pipeline keeps the invariant.
LEMMA NextKeeps == SyncInv /\ [Next]_vars => SyncInv'
<1> USE Zenon
<1> SUFFICES ASSUME SyncInv, [Next]_vars PROVE SyncInv'
  BY SMT
<1>1. CASE \E t \in Tasks, c \in Certs : Receive(t, c) \/ Fetch(t, c)
  BY <1>1, UnlockedKeeps
<1>2. ASSUME NEW t \in Tasks, TaskStep(t) PROVE SyncInv'
  <2>1. CASE ProcessFetched(t) \/ CheckAndSanitize(t) \/ AlreadySuspended(t)
    <3>1. cert[t] \in Certs
      BY <2>1 DEF ProcessFetched, CheckAndSanitize, AlreadySuspended, SyncInv, TypeOK
    <3> QED BY <2>1, <3>1, UnlockedKeeps
  <2>2. CASE insert(t)
    BY <2>2, InsertKeeps
  <2>3. CASE Accept(t)
    BY <2>3, AcceptKeeps
  <2>4. CASE Finish(t)
    BY <2>4, FinishKeeps
  <2> QED BY <1>2, <2>1, <2>2, <2>3, <2>4 DEF TaskStep
<1>3. CASE LockedStep
  BY <1>3, TraverseKeeps, WriteKeeps, SendKeeps DEF LockedStep
<1>4. CASE GcStep
  BY <1>4, UpdateGcRoundKeeps, RunGcKeeps, AcceptAboveGcKeeps, FinishGcKeeps DEF GcStep
<1>5. CASE \E r \in 1..MaxCommitRound : Commit(r)
  BY <1>5, CommitKeeps
<1>6. CASE Restart
  BY <1>6, RestartKeeps
<1>7. CASE UNCHANGED vars
  <2>1. /\ store' = store /\ sent' = sent /\ consensus_round' = consensus_round
        /\ gc_round' = gc_round /\ gc_pc' = gc_pc /\ roots' = roots /\ lock' = lock
        /\ suspended' = suspended /\ missing_parents' = missing_parents /\ missing' = missing
        /\ order' = order /\ cursor' = cursor /\ written' = written /\ delivered' = delivered
        /\ pc' = pc /\ cert' = cert /\ panic' = panic /\ restarts' = restarts
    BY <1>7 DEF vars, stateVars, batchVars, gcVars
  <2>2. TypeOK' /\ BatchInv' /\ StoreInv' /\ MapsAgree'
    <3>1. TypeOK'
      BY <2>1 DEF TypeOK, SyncInv
    <3>2. BatchInv'
      BY <2>1 DEF BatchInv, SyncInv
    <3>3. StoreInv'
      BY <2>1 DEF StoreInv, SyncInv
    <3>4. MapsAgree'
      BY <2>1 DEF MapsAgree, SyncInv
    <3> QED BY <3>1, <3>2, <3>3, <3>4
  <2>3. Traversed' = Traversed /\ Ahead' = Ahead /\ Horizon' = Horizon
    BY <2>1 DEF Traversed, Ahead, Horizon
  <2>4. GcInv' /\ MapsInv' /\ LackingInv'
    <3>1. GcInv'
      BY <2>1, <2>3 DEF GcInv, SyncInv
    <3>2. MapsInv'
      BY <2>1, <2>3 DEF MapsInv, SyncInv
    <3>3. LackingInv'
      BY <2>1, <2>3 DEF LackingInv, SyncInv
    <3> QED BY <3>1, <3>2, <3>3
  <2>5. KnownInv' /\ OrderInv' /\ OwnInv' /\ WaitInv'
    <3>1. KnownInv'
      BY <2>1, <2>3 DEF KnownInv, SyncInv
    <3>2. OrderInv'
      BY <2>1, <2>3 DEF OrderInv, SyncInv
    <3>3. OwnInv'
      BY <2>1, <2>3 DEF OwnInv, SyncInv
    <3>4. WaitInv'
      BY <2>1, <2>3 DEF WaitInv, SyncInv
    <3> QED BY <3>1, <3>2, <3>3, <3>4
  <2> QED BY <2>2, <2>4, <2>5 DEF SyncInv
<1> QED BY <1>1, <1>2, <1>3, <1>4, <1>5, <1>6, <1>7 DEF Next

\* The inductive invariant holds of every reachable state of the pipeline.
THEOREM SyncInvariant == Spec => []SyncInv
BY InitEstablishes, NextKeeps, PTL DEF Spec

\* The state of the Synchronizer keeps the shape of its Rust types.
THEOREM TypeCorrect == Spec => []TypeOK
<1>1. SyncInv => TypeOK
  BY Zenon DEF SyncInv
<1> QED BY <1>1, SyncInvariant, PTL

\* The expects of accept_children and run_gc, the assertions of insert and the
\* panic on an own certificate never fire.
THEOREM MapsStayConsistent == Spec => []MapsAgree
<1>1. SyncInv => MapsAgree
  BY Zenon DEF SyncInv
<1> QED BY <1>1, SyncInvariant, PTL

\* While the lock is free, accept_children has left no certificate suspended
\* above the garbage collection line whose parents are all stored.
THEOREM NothingLeftBehind == Spec => []NoneLeftBehind
<1> USE Zenon
<1>1. SyncInv => NoneLeftBehind
  <2> SUFFICES ASSUME SyncInv, NEW c \in suspended, RoundOf[c] > gc_round + 1
               PROVE  ~ (ParentsOf[c] \subseteq store)
    BY DEF NoneLeftBehind
  <2>1. c \in Certs
    BY DEF SyncInv, TypeOK
  <2>2. PICK d \in missing_parents[c] : d \notin store
    BY DEF SyncInv, LackingInv
  <2> QED BY <2>1, <2>2 DEF SyncInv, MapsInv
<1> QED BY <1>1, SyncInvariant, PTL

\* A caller of wait_to_accept_certificate that still waits will be notified:
\* its certificate is suspended, left to the GC task, or about to be sent.
THEOREM NoNotificationLost == Spec => []NoLostNotification
<1>1. SyncInv => NoLostNotification
  BY Zenon DEF SyncInv, WaitInv, Ahead, NoLostNotification
<1> QED BY <1>1, SyncInvariant, PTL

-----------------------------------------------------------------------------
\* What consensus is given next is the certificate just written, whose parents
\* it has, unless the horizon is past them.
LEMMA WrittenIsNext ==
  ASSUME SyncInv, written = delivered + 1
  PROVE  /\ order[written] \in Certs
         /\ \A p \in ParentsOf[order[written]] : p \in sent \/ RoundOf[p] <= Horizon
<1> USE Zenon
<1> USE DEF SyncInv
<1>1. written \in 1..Len(order) /\ order[written] \in Certs
  BY SMT DEF TypeOK
<1>2. ASSUME NEW p \in ParentsOf[order[written]]
      PROVE  p \in sent \/ RoundOf[p] <= Horizon
  <2>1. p # order[written]
    BY <1>1, ParentRounds
  <2>2. CASE p \in store
    BY <2>1, <2>2 DEF StoreInv
  <2>3. ASSUME NEW j \in 1..(written - 1), order[j] = p PROVE p \in sent
    <3>1. j \in 1..delivered
      BY SMT DEF TypeOK
    <3> QED BY <2>3, <3>1 DEF StoreInv
  <2> QED BY <1>1, <2>2, <2>3 DEF OrderInv
<1> QED BY <1>1, <1>2

\* Consensus sees nothing of a task that receives, fetches, suspends or starts
\* to accept a certificate.
LEMMA TasksAreInvisible ==
  ASSUME NEW t \in Tasks
  PROVE  /\ \A c \in Certs : Receive(t, c) \/ Fetch(t, c) =>
              sent' = sent /\ consensus_round' = consensus_round
         /\ TaskStep(t) => sent' = sent /\ consensus_round' = consensus_round
<1> USE Zenon
<1>1. ASSUME NEW c \in Certs, Receive(t, c) \/ Fetch(t, c)
      PROVE  sent' = sent /\ consensus_round' = consensus_round
  BY <1>1 DEF Receive, Fetch, gcVars
<1>2. ASSUME ProcessFetched(t) \/ CheckAndSanitize(t) \/ AlreadySuspended(t) \/ Finish(t)
      PROVE  sent' = sent /\ consensus_round' = consensus_round
  BY <1>2 DEF ProcessFetched, CheckAndSanitize, AlreadySuspended, Finish, gcVars
<1>3. ASSUME insert(t) PROVE sent' = sent /\ consensus_round' = consensus_round
  BY <1>3 DEF insert, Panic, gcVars
<1>4. ASSUME Accept(t) PROVE sent' = sent /\ consensus_round' = consensus_round
  BY <1>4 DEF Accept, Panic, gcVars
<1> QED BY <1>1, <1>2, <1>3, <1>4 DEF TaskStep

\* Nor does it see the collection of children and the write to the store.
LEMMA BatchIsInvisible ==
  Traverse \/ WriteCertificate => sent' = sent /\ consensus_round' = consensus_round
<1> USE Zenon
<1>1. Traverse => sent' = sent /\ consensus_round' = consensus_round
  BY DEF Traverse, Panic, gcVars
<1>2. WriteCertificate => sent' = sent /\ consensus_round' = consensus_round
  BY DEF WriteCertificate, gcVars
<1> QED BY <1>1, <1>2

\* Nor a step of the garbage collection.
LEMMA GcIsInvisible == GcStep => sent' = sent /\ consensus_round' = consensus_round
<1> USE Zenon
<1>1. UpdateGcRound => sent' = sent /\ consensus_round' = consensus_round
  BY DEF UpdateGcRound, gcVars
<1>2. run_gc => sent' = sent /\ consensus_round' = consensus_round
  BY DEF run_gc, Panic, gcVars
<1>3. \A c \in Certs : AcceptAboveGc(c) => sent' = sent /\ consensus_round' = consensus_round
  BY DEF AcceptAboveGc, Panic, gcVars
<1>4. FinishGc => sent' = sent /\ consensus_round' = consensus_round
  BY DEF FinishGc, gcVars
<1> QED BY <1>1, <1>2, <1>3, <1>4 DEF GcStep

\* Each step of the pipeline is a step of CausalDelivery or invisible to it.
LEMMA StepRefines ==
  SyncInv /\ [Next]_vars => [Promise!Next]_<<sent, Horizon>>
<1> USE Zenon
<1> SUFFICES ASSUME SyncInv, [Next]_vars,
                    ~ (sent' = sent /\ Horizon' = Horizon)
             PROVE  (\E c \in Certs : Promise!Deliver(c)) \/ Promise!Advance
  BY DEF Promise!Next
<1>1. CASE SendToConsensus
  <2>1. /\ written = delivered + 1 /\ sent' = sent \cup {order[written]}
        /\ consensus_round' = consensus_round
    BY <1>1 DEF SendToConsensus, gcVars
  <2>2. Horizon' = Horizon
    BY <2>1 DEF Horizon
  <2> QED BY <2>1, <2>2, WrittenIsNext DEF Promise!Deliver
<1>2. CASE Restart
  <2>1. sent' = store /\ consensus_round' = consensus_round
    BY <1>2 DEF Restart
  <2>2. Horizon' = Horizon
    BY <2>1 DEF Horizon
  <2>3. sent \subseteq store /\ sent # store
    BY <2>1, <2>2 DEF SyncInv, StoreInv
  <2>4. written = delivered + 1 /\ store = sent \cup {order[written]}
    BY <2>3, SMT DEF SyncInv, StoreInv
  <2> QED BY <2>1, <2>2, <2>4, WrittenIsNext DEF Promise!Deliver
<1>3. ASSUME NEW r \in 1..MaxCommitRound, Commit(r) PROVE Promise!Advance
  <2>1. sent' = sent /\ consensus_round' = r /\ r \in Nat
    BY <1>3, SMT DEF Commit
  <2>2. PICK c \in sent : RoundOf[c] = r + 1
    BY <1>3 DEF Commit
  <2>3. Horizon \in Nat /\ Horizon' \in Nat /\ Horizon <= Horizon' /\ Horizon' <= r
    <3>1. consensus_round \in Nat /\ consensus_round <= r
      BY <1>3, SMT DEF Commit, SyncInv, TypeOK
    <3>2. r <= r
      BY <2>1, SMT
    <3> QED BY <2>1, <3>1, <3>2, SaturatingSub DEF Horizon
  <2> HIDE DEF Horizon
  <2>4. Horizon' > Horizon /\ RoundOf[c] > Horizon'
    BY <2>1, <2>2, <2>3, SMT
  <2> QED BY <2>1, <2>4 DEF Promise!Advance
<1>4. ASSUME sent' = sent, consensus_round' = consensus_round PROVE FALSE
  BY <1>4 DEF Horizon
<1>5. CASE \E t \in Tasks, c \in Certs : Receive(t, c) \/ Fetch(t, c)
  BY <1>4, <1>5, TasksAreInvisible
<1>6. CASE \E t \in Tasks : TaskStep(t)
  BY <1>4, <1>6, TasksAreInvisible
<1>7. CASE Traverse \/ WriteCertificate
  BY <1>4, <1>7, BatchIsInvisible
<1>8. CASE GcStep
  BY <1>4, <1>8, GcIsInvisible
<1>9. CASE UNCHANGED vars
  BY <1>4, <1>9 DEF vars, gcVars
<1> QED BY <1>1, <1>2, <1>3, <1>5, <1>6, <1>7, <1>8, <1>9 DEF Next, LockedStep

\* The pipeline implements CausalDelivery: consensus is given one certificate
\* at a time, each after its parents, through any crash and garbage collection.
THEOREM ImplementsCausalDelivery == Spec => CausalOrder
<1>1. Init => Promise!Init
  BY BoundsAssumption DEF Init, Promise!Init, Horizon, saturating_sub
<1> QED BY <1>1, StepRefines, SyncInvariant, PTL DEF Spec, CausalOrder, Promise!Spec
=============================================================================
