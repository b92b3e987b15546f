---------------------------- MODULE Synchronizer ----------------------------
(***************************************************************************)
(* The certificate pipeline of one Narwhal primary                         *)
(* (sui/narwhal/primary/src/synchronizer.rs).                              *)
(*                                                                         *)
(* Certificates reach the primary from its peers (send_certificate), as    *)
(* parents enclosed in a vote request, from the certificate fetcher, and   *)
(* from its own core.  Each caller is a task of the async runtime.  A      *)
(* certificate whose parents are not all in the store is suspended until   *)
(* they are, or until garbage collection moves past them.  Accepted        *)
(* certificates are written to the store and sent to consensus.            *)
(*                                                                         *)
(* The tokio mutex `state` is the variable lock.  What the code reads      *)
(* without it (the store at the head of process_certificate_internal, the  *)
(* atomic gc_round) is read here in steps of their own.                    *)
(***************************************************************************)
EXTENDS Naturals, Sequences, FiniteSets

CONSTANTS
  Certs,          \* certificate digests of rounds >= 1
  RoundOf,        \* the round of a certificate
  ParentsOf,      \* its parents of round >= 1 (genesis is always known)
  OwnCerts,       \* the certificates this primary assembles itself
  Tasks,          \* the tasks that bring certificates
  Mode,           \* how each task calls process_certificate_internal
  GcDepth,        \* gc_depth of the parameters
  MaxCommitRound, \* bound on the rounds consensus commits
  MaxRestarts     \* bound on the crashes of the primary

\* "push": try_accept_certificate; "parent": wait_to_accept_certificate;
\* "fetch": try_accept_fetched_certificate; "own": accept_own_certificate.
Modes == {"push", "parent", "fetch", "own"}

ASSUME CertsAssumption ==
  /\ IsFiniteSet(Certs)
  /\ RoundOf \in [Certs -> Nat \ {0}]
  /\ ParentsOf \in [Certs -> SUBSET Certs]
  /\ \A c \in Certs : \A p \in ParentsOf[c] : RoundOf[p] + 1 = RoundOf[c]
  /\ OwnCerts \subseteq Certs
  /\ "none" \notin Certs

ASSUME TasksAssumption ==
  /\ Mode \in [Tasks -> Modes]
  /\ "gc" \notin Tasks /\ "free" \notin Tasks

ASSUME BoundsAssumption ==
  /\ GcDepth \in Nat /\ MaxCommitRound \in Nat /\ MaxRestarts \in Nat

VARIABLES
  store,           \* certificate_store (durable)
  sent,            \* what consensus was given on tx_new_certificates
  consensus_round, \* the watch channel rx_consensus_round_updates
  gc_round,        \* the atomic gc_round
  suspended,       \* keys of State::suspended
  missing_parents, \* SuspendedCertificate::missing_parents, by certificate
  missing,         \* State::missing: the children that wait for a digest
  lock,            \* owner of the state mutex
  pc, cert,        \* where each task is, and its certificate
  gc_pc, roots,    \* the GC task, and what run_gc left it to accept
  order, cursor,   \* what the owner of the lock accepts; next one to traverse
  written,         \* how many of order are in the store
  delivered,       \* how many of order were sent to consensus
  panic,           \* the assertion that brought the primary down, or "none"
  restarts

stateVars == <<suspended, missing_parents, missing>>
batchVars == <<order, cursor, written, delivered>>
gcVars == <<consensus_round, gc_round, gc_pc, roots>>
vars == <<store, sent, stateVars, lock, pc, cert, batchVars, gcVars, panic, restarts>>

\* Mutant: wraps below zero.
saturating_subMutant(a, b) == a - b

saturating_sub(a, b) == IF a >= b THEN a - b ELSE 0

\* A certificate of this round or below is never needed by consensus again.
Horizon == saturating_sub(consensus_round, GcDepth)

\* HashSet iteration: the elements of S in any order.
Orderings(S) ==
  {s \in [1..Cardinality(S) -> S] : \A x \in S : \E i \in 1..Cardinality(S) : s[i] = x}

Init ==
  /\ store = {} /\ sent = {}
  /\ consensus_round = 0 /\ gc_round = 0
  /\ suspended = {}
  /\ missing_parents = [c \in Certs |-> {}]
  /\ missing = [c \in Certs |-> {}]
  /\ lock = "free"
  /\ pc = [t \in Tasks |-> "idle"]
  /\ cert = [t \in Tasks |-> "none"]
  /\ gc_pc = "idle" /\ roots = {}
  /\ order = <<>> /\ cursor = 1 /\ written = 0 /\ delivered = 0
  /\ panic = "none" /\ restarts = 0

-----------------------------------------------------------------------------
(* The part of process_certificate_internal that runs without the lock.     *)

EarlySuspend(t) == Mode[t] \in {"push", "parent"}

\* Task t moves to a label; an idle task has no certificate.
Goto(t, label) ==
  /\ pc' = [pc EXCEPT ![t] = label]
  /\ cert' = [cert EXCEPT ![t] = IF label = "idle" THEN "none" ELSE @]

\* An idle task takes up certificate c.
Take(t, c, label) ==
  /\ pc' = [pc EXCEPT ![t] = label]
  /\ cert' = [cert EXCEPT ![t] = c]

\* The call returns Suspended(notify): wait_to_accept_certificate awaits it.
ReturnSuspended(t) == Goto(t, IF Mode[t] = "parent" THEN "wait" ELSE "idle")

\* A peer's certificate, or one the core just assembled: the early return on
\* certificate_store.contains, outside the lock.  Nobody else has an own
\* certificate before accept_own_certificate broadcasts it; its parents came
\* from this store.
Receive(t, c) ==
  /\ panic = "none"
  /\ pc[t] = "idle" /\ Mode[t] # "fetch"
  /\ IF Mode[t] = "own" THEN c \in OwnCerts /\ ParentsOf[c] \subseteq store
                        ELSE c \notin OwnCerts \/ c \in store
  /\ IF c \in store THEN UNCHANGED <<pc, cert>>
                   ELSE Take(t, c, IF EarlySuspend(t) THEN "check" ELSE "lock")
  /\ UNCHANGED <<store, sent, stateVars, lock, batchVars, gcVars, panic, restarts>>

\* The fetcher sanitizes a response and feeds its certificates in later.
Fetch(t, c) ==
  /\ panic = "none"
  /\ pc[t] = "idle" /\ Mode[t] = "fetch"
  /\ c \notin OwnCerts \/ c \in store
  /\ RoundOf[c] > gc_round
  /\ Take(t, c, "fetched")
  /\ UNCHANGED <<store, sent, stateVars, lock, batchVars, gcVars, panic, restarts>>

ProcessFetched(t) ==
  /\ panic = "none"
  /\ pc[t] = "fetched"
  /\ Goto(t, IF cert[t] \in store THEN "idle" ELSE "lock")
  /\ UNCHANGED <<store, sent, stateVars, lock, batchVars, gcVars, panic, restarts>>

\* check_suspended under a short lock, then sanitize_certificate.
CheckAndSanitize(t) ==
  /\ panic = "none"
  /\ pc[t] = "check" /\ lock = "free"
  /\ IF cert[t] \in suspended
     THEN ReturnSuspended(t)
     ELSE Goto(t, IF RoundOf[cert[t]] > gc_round THEN "lock" ELSE "idle")
  /\ UNCHANGED <<store, sent, stateVars, lock, batchVars, gcVars, panic, restarts>>

-----------------------------------------------------------------------------
(* The part that runs under the lock.                                       *)

\* has_processed_certificate with internal consensus: the store decides.
get_missing_parents(c) == ParentsOf[c] \ store

\* Mutant: one round too many goes unchecked.
MustSuspendMutant(c) == RoundOf[c] > gc_round + 2 /\ get_missing_parents(c) # {}

\* The parents are only looked at above the round that follows gc_round.
MustSuspend(c) == RoundOf[c] > gc_round + 1 /\ get_missing_parents(c) # {}

Panic(message) ==
  /\ panic' = message
  /\ UNCHANGED <<store, sent, stateVars, lock, pc, cert, batchVars, gcVars, restarts>>

\* The recheck under the lock.
AlreadySuspended(t) ==
  /\ panic = "none"
  /\ pc[t] = "lock" /\ lock = "free"
  /\ EarlySuspend(t) /\ cert[t] \in suspended
  /\ ReturnSuspended(t)
  /\ UNCHANGED <<store, sent, stateVars, lock, batchVars, gcVars, panic, restarts>>

\* State::insert; its assertions are the panics.
insert(t) ==
  LET c == cert[t]
      lacking == get_missing_parents(c)
  IN /\ panic = "none"
     /\ pc[t] = "lock" /\ lock = "free"
     /\ ~ (EarlySuspend(t) /\ c \in suspended)
     /\ MustSuspend(c)
     /\ IF Mode[t] = "own" THEN Panic("own certificate suspended")
        ELSE IF c \in suspended
             THEN IF missing_parents[c] # lacking
                  THEN Panic("inconsistent missing parents")
                  ELSE /\ ReturnSuspended(t)
                       /\ UNCHANGED <<store, sent, stateVars, lock, batchVars, gcVars,
                                      panic, restarts>>
             ELSE IF \E d \in lacking : c \in missing[d]
                  THEN Panic("missing entry already there")
                  ELSE /\ suspended' = suspended \cup {c}
                       /\ missing_parents' = [missing_parents EXCEPT ![c] = lacking]
                       /\ missing' = [d \in Certs |-> IF d \in lacking THEN missing[d] \cup {c}
                                                                       ELSE missing[d]]
                       /\ ReturnSuspended(t)
                       /\ UNCHANGED <<store, sent, lock, batchVars, gcVars, panic, restarts>>

\* The entry of accept_children and its validation.
StartBatch(c, owner) ==
  /\ lock' = owner
  /\ order' = <<c>> /\ cursor' = 1 /\ written' = 0 /\ delivered' = 0

Accept(t) ==
  /\ panic = "none"
  /\ pc[t] = "lock" /\ lock = "free"
  /\ ~ (EarlySuspend(t) /\ cert[t] \in suspended)
  /\ ~ MustSuspend(cert[t])
  /\ IF cert[t] \in suspended
     THEN Panic("suspended certificate has no missing parent")
     ELSE /\ StartBatch(cert[t], t)
          /\ Goto(t, "accept")
          /\ UNCHANGED <<store, sent, stateVars, gcVars, panic, restarts>>

\* Mutant: children that lack nothing any more are not freed.
TraverseMutant ==
  /\ panic = "none"
  /\ lock # "free" /\ cursor <= Len(order)
  /\ missing' = [missing EXCEPT ![order[cursor]] = {}]
  /\ missing_parents' = [ch \in Certs |-> missing_parents[ch] \ {order[cursor]}]
  /\ cursor' = cursor + 1
  /\ UNCHANGED <<store, sent, suspended, order, lock, pc, cert, written, delivered, gcVars,
                 panic, restarts>>

\* One turn of the loop of accept_children: the children of order[cursor] lose
\* a missing parent; those with none left are no longer suspended and follow.
Traverse ==
  LET d == order[cursor]
      children == missing[d]
      freed == {ch \in children : missing_parents[ch] \subseteq {d}}
  IN /\ panic = "none"
     /\ lock # "free" /\ cursor <= Len(order)
     /\ IF ~ (children \subseteq suspended)
        THEN Panic("inconsistency found")
        ELSE /\ missing' = [missing EXCEPT ![d] = {}]
             /\ missing_parents' = [ch \in Certs |-> IF ch \in children
                                                     THEN missing_parents[ch] \ {d}
                                                     ELSE missing_parents[ch]]
             /\ suspended' = suspended \ freed
             /\ \E s \in Orderings(freed) : order' = order \o s
             /\ cursor' = cursor + 1
             /\ UNCHANGED <<store, sent, lock, pc, cert, written, delivered, gcVars,
                            panic, restarts>>

Accepting == lock # "free" /\ cursor > Len(order) /\ delivered < Len(order)

\* accept_certificate_internal, first half: the write to the store.
WriteCertificate ==
  /\ panic = "none"
  /\ Accepting /\ written = delivered
  /\ store' = store \cup {order[written + 1]}
  /\ written' = written + 1
  /\ UNCHANGED <<sent, stateVars, lock, pc, cert, order, cursor, delivered, gcVars, panic, restarts>>

\* Mutant: nobody is notified.
SendToConsensusMutant ==
  /\ panic = "none"
  /\ Accepting /\ written = delivered + 1
  /\ sent' = sent \cup {order[written]}
  /\ delivered' = delivered + 1
  /\ UNCHANGED <<store, stateVars, pc, cert, lock, order, cursor, written, gcVars, panic, restarts>>

\* accept_certificate_internal, second half, and the notification of whoever
\* waits for a certificate that was suspended.
SendToConsensus ==
  LET c == order[written]
      woken == {t \in Tasks : pc[t] = "wait" /\ cert[t] = c}
  IN /\ panic = "none"
     /\ Accepting /\ written = delivered + 1
     /\ sent' = sent \cup {c}
     /\ delivered' = delivered + 1
     /\ pc' = [t \in Tasks |-> IF t \in woken THEN "idle" ELSE pc[t]]
     /\ cert' = [t \in Tasks |-> IF t \in woken THEN "none" ELSE cert[t]]
     /\ UNCHANGED <<store, stateVars, lock, order, cursor, written, gcVars, panic, restarts>>

BatchDone == cursor > Len(order) /\ delivered = Len(order)

ResetBatch == order' = <<>> /\ cursor' = 1 /\ written' = 0 /\ delivered' = 0

\* The end of process_certificate_internal.
Finish(t) ==
  /\ panic = "none"
  /\ lock = t /\ BatchDone
  /\ lock' = "free" /\ ResetBatch
  /\ Goto(t, "idle")
  /\ UNCHANGED <<store, sent, stateVars, gcVars, panic, restarts>>

-----------------------------------------------------------------------------
(* The garbage collection task of Synchronizer::new.                        *)

\* It stores gc_round first and takes the lock in a later step.
UpdateGcRound ==
  /\ panic = "none"
  /\ gc_pc = "idle" /\ gc_round # Horizon
  /\ gc_round' = Horizon
  /\ gc_pc' = "lock"
  /\ UNCHANGED <<store, sent, stateVars, lock, pc, cert, batchVars, consensus_round, roots,
                 panic, restarts>>

\* Mutant: the certificates above gc_round are taken out, the entries of
\* missing that name them stay.
run_gcMutant ==
  LET above == UNION {missing[d] : d \in {e \in Certs : RoundOf[e] = gc_round}}
  IN /\ panic = "none"
     /\ gc_pc = "lock" /\ lock = "free"
     /\ lock' = "gc" /\ gc_pc' = "run"
     /\ roots' = above
     /\ suspended' = suspended \ above
     /\ missing_parents' = [c \in Certs |-> IF c \in above THEN {} ELSE missing_parents[c]]
     /\ UNCHANGED <<store, sent, missing, pc, cert, batchVars, consensus_round, gc_round, panic,
                    restarts>>

\* State::run_gc.
run_gc ==
  LET gone == {d \in Certs : missing[d] # {} /\ RoundOf[d] <= gc_round}
      above == UNION {missing[d] : d \in {e \in gone : RoundOf[e] = gc_round}}
      dropped == gone \cap suspended
      woken == {t \in Tasks : pc[t] = "wait" /\ cert[t] \in dropped}
  IN /\ panic = "none"
     /\ gc_pc = "lock" /\ lock = "free"
     /\ IF ~ (above \subseteq suspended \ dropped)
        THEN Panic("inconsistency found")
        ELSE /\ lock' = "gc" /\ gc_pc' = "run"
             /\ roots' = above
             /\ suspended' = (suspended \ dropped) \ above
             /\ missing' = [d \in Certs |-> IF d \in gone THEN {} ELSE missing[d]]
             /\ missing_parents' = [c \in Certs |-> IF c \in above \cup dropped THEN {}
                                                    ELSE missing_parents[c]]
             /\ pc' = [t \in Tasks |-> IF t \in woken THEN "idle" ELSE pc[t]]
             /\ cert' = [t \in Tasks |-> IF t \in woken THEN "none" ELSE cert[t]]
             /\ UNCHANGED <<store, sent, batchVars, consensus_round, gc_round, panic, restarts>>

\* The next certificate of gc_round + 1, with the children it sets free.
AcceptAboveGc(c) ==
  /\ panic = "none"
  /\ lock = "gc" /\ BatchDone /\ c \in roots
  /\ IF c \in suspended
     THEN Panic("suspended certificate has no missing parent")
     ELSE /\ StartBatch(c, "gc")
          /\ roots' = roots \ {c}
          /\ UNCHANGED <<store, sent, stateVars, pc, cert, consensus_round, gc_round, gc_pc,
                         panic, restarts>>

FinishGc ==
  /\ panic = "none"
  /\ lock = "gc" /\ BatchDone /\ roots = {}
  /\ lock' = "free" /\ gc_pc' = "idle" /\ ResetBatch
  /\ UNCHANGED <<store, sent, stateVars, pc, cert, consensus_round, gc_round, roots, panic, restarts>>

-----------------------------------------------------------------------------
(* The environment.                                                         *)

\* Consensus commits the leader of an even round r: its support is in round r+1.
Commit(r) ==
  /\ panic = "none"
  /\ r > consensus_round /\ r % 2 = 0 /\ r <= MaxCommitRound
  /\ \E c \in sent : RoundOf[c] = r + 1
  /\ consensus_round' = r
  /\ UNCHANGED <<store, sent, stateVars, lock, pc, cert, batchVars, gc_round, gc_pc, roots,
                 panic, restarts>>

\* Mutant: consensus does not rebuild its dag from the store.
RestartMutant ==
  /\ restarts < MaxRestarts
  /\ restarts' = restarts + 1
  /\ gc_round' = 0 /\ gc_pc' = "idle" /\ roots' = {}
  /\ suspended' = {}
  /\ missing_parents' = [c \in Certs |-> {}]
  /\ missing' = [c \in Certs |-> {}]
  /\ lock' = "free" /\ ResetBatch
  /\ pc' = [t \in Tasks |-> "idle"]
  /\ cert' = [t \in Tasks |-> "none"]
  /\ panic' = "none"
  /\ UNCHANGED <<store, sent, consensus_round>>

\* A crash, or the end of a primary that panicked, and the next start.  The
\* store survives, and consensus rebuilds its dag from it; the new Synchronizer
\* starts with gc_round 0 because the watch channel is created with 0.
Restart ==
  /\ restarts < MaxRestarts
  /\ restarts' = restarts + 1
  /\ sent' = store
  /\ gc_round' = 0 /\ gc_pc' = "idle" /\ roots' = {}
  /\ suspended' = {}
  /\ missing_parents' = [c \in Certs |-> {}]
  /\ missing' = [c \in Certs |-> {}]
  /\ lock' = "free" /\ ResetBatch
  /\ pc' = [t \in Tasks |-> "idle"]
  /\ cert' = [t \in Tasks |-> "none"]
  /\ panic' = "none"
  /\ UNCHANGED <<store, consensus_round>>

TaskStep(t) ==
  \/ ProcessFetched(t) \/ CheckAndSanitize(t) \/ AlreadySuspended(t)
  \/ insert(t) \/ Accept(t) \/ Finish(t)

LockedStep == Traverse \/ WriteCertificate \/ SendToConsensus

GcStep == UpdateGcRound \/ run_gc \/ (\E c \in Certs : AcceptAboveGc(c)) \/ FinishGc

Next ==
  \/ \E t \in Tasks, c \in Certs : Receive(t, c) \/ Fetch(t, c)
  \/ \E t \in Tasks : TaskStep(t)
  \/ LockedStep
  \/ GcStep
  \/ \E r \in 1..MaxCommitRound : Commit(r)
  \/ Restart

\* The runtime polls every task that can move and the mutex is fair.
Fairness ==
  /\ \A t \in Tasks : WF_vars(TaskStep(t))
  /\ WF_vars(LockedStep)
  /\ WF_vars(GcStep)

Spec == Init /\ [][Next]_vars

FairSpec == Spec /\ Fairness

-----------------------------------------------------------------------------
TaskLabels == {"idle", "fetched", "check", "lock", "accept", "wait"}

Panics == {"none", "own certificate suspended", "inconsistent missing parents",
           "missing entry already there", "inconsistency found",
           "suspended certificate has no missing parent"}

\* Every variable of the pipeline keeps the shape its Rust type gives it.
TypeOK ==
  /\ store \subseteq Certs /\ sent \subseteq Certs
  /\ consensus_round \in Nat /\ gc_round \in Nat
  /\ suspended \subseteq Certs
  /\ missing_parents \in [Certs -> SUBSET Certs]
  /\ missing \in [Certs -> SUBSET Certs]
  /\ lock \in Tasks \cup {"free", "gc"}
  /\ pc \in [Tasks -> TaskLabels]
  /\ cert \in [Tasks -> Certs \cup {"none"}]
  /\ \A t \in Tasks : pc[t] # "idle" => cert[t] \in Certs
  /\ gc_pc \in {"idle", "lock", "run"}
  /\ roots \subseteq Certs
  /\ order \in Seq(Certs)
  /\ cursor \in 1..(Len(order) + 1)
  /\ delivered \in 0..Len(order) /\ written \in delivered..Len(order)
  /\ panic \in Panics
  /\ restarts \in Nat

Promise == INSTANCE CausalDelivery WITH delivered <- sent, horizon <- Horizon

\* tx_new_certificates "must send certificates in causal order": whatever the
\* tasks, garbage collection and crashes do, consensus sees the behaviour of
\* CausalDelivery, one certificate at a time and each after its parents.
CausalOrder == Promise!Spec

\* accept_children leaves nothing behind: while nobody holds the lock, a
\* suspended certificate above the round that follows gc_round still lacks a
\* parent in the store.
NoneLeftBehind ==
  (panic = "none" /\ lock = "free") =>
     \A c \in suspended : RoundOf[c] > gc_round + 1 => ~ (ParentsOf[c] \subseteq store)

\* The expect("Inconsistency found!") of accept_children and run_gc and the
\* assertions of insert never fire, and neither does the panic on an own
\* certificate, whatever the interleaving of tasks and garbage collection.
MapsAgree ==
  panic \in {"none", "suspended certificate has no missing parent"}

\* A task of wait_to_accept_certificate waits only for a certificate that is
\* suspended or is being accepted: its notification cannot have been missed.
NoLostNotification ==
  panic = "none" =>
    \A t \in Tasks : pc[t] = "wait" =>
      \/ cert[t] \in suspended \cup roots
      \/ \E i \in (delivered + 1)..Len(order) : order[i] = cert[t]

\* "After this, the certificate must be sent to consensus or Narwhal needs to
\* shutdown": a stored certificate reaches consensus unless the primary stops.
StoredIsSent == []<>(store \subseteq sent \/ panic # "none")

\* The panic of accept_children says that a suspended certificate has all its
\* parents in the store: when it fires, they are there.
PanicMeansParentsStored ==
  panic = "suspended certificate has no missing parent" =>
    \E t \in Tasks : pc[t] = "lock" /\ ParentsOf[cert[t]] \subseteq store
=============================================================================
