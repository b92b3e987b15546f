------------------------------- MODULE Clique -------------------------------
(***************************************************************************)
(* The proof-of-authority engine that geth mines with                      *)
(* (consensus/clique): the snapshot of the signer voting, what a signer    *)
(* prepares and seals, what a node verifies, and the trusted checkpoint    *)
(* from which a node without history starts.                               *)
(*                                                                         *)
(* The chain is one branch; a snapshot depends on nothing but its branch.  *)
(* A header keeps what the engine reads of it: the signer that ecrecover   *)
(* finds, the vote (coinbase and nonce), the signer list of the extra data *)
(* and the difficulty.  Times, gas, uncles and hashes are left out.        *)
(***************************************************************************)
EXTENDS Integers, FiniteSets, Functions

CONSTANTS
  Accounts,      \* the addresses, ordered as numbers; 0 is the zero address
  Geneses,       \* the signer lists a genesis block may carry
  Epoch,         \* config.Epoch
  Uint64,        \* 2^64, the modulus of the arithmetic on block numbers
  MaxNumber      \* bound: the longest chain

ASSUME CliqueAssumption ==
  /\ Accounts \subseteq Nat \ {0} /\ IsFiniteSet(Accounts)
  /\ Geneses \subseteq SUBSET Accounts \ {{}}
  /\ Epoch \in Nat \ {0} /\ MaxNumber \in Nat
  /\ Uint64 \in Nat /\ Uint64 > MaxNumber + Cardinality(Accounts)

VARIABLES
  head,          \* the number and the signer list of the newest block
  snap,          \* the newest snapshot of a node that has the whole chain
  light,         \* that of a node that started at a checkpoint, or NoSnapshot
  panicked       \* Prepare divided by the number of signers, zero

vars == <<head, snap, light, panicked>>

Zero == 0

\* m[key] = value, on a map.
Put(m, key, value) == [k \in DOMAIN m \cup {key} |-> IF k = key THEN value ELSE m[k]]

-----------------------------------------------------------------------------
(* Snapshots.                                                              *)

newSnapshot(number, signers) ==
  [number |-> number, signers |-> signers, recents |-> <<>>, votes |-> {}, tally |-> <<>>]

\* Before it trusts a checkpoint; no header applies to it.
NoSnapshot == newSnapshot(0, {})

\* Of this many consecutive blocks a signer may sign one.
limit(s) == Cardinality(s.signers) \div 2 + 1

\* The signer whose block leaves the window may sign again.
shift(s, number) ==
  IF number >= limit(s)
  THEN [s EXCEPT !.recents = Restrict(@, DOMAIN @ \ {number - limit(s)})]
  ELSE s

validVote(s, address, authorize) == (address \in s.signers) # authorize

\* One more on an account that has a tally, a new tally otherwise.
count(tally, address, authorize) ==
  IF address \in DOMAIN tally
  THEN [tally EXCEPT ![address].votes = @ + 1]
  ELSE Put(tally, address, [authorize |-> authorize, votes |-> 1])

\* A meaningful vote enters the tally and the list of votes.
cast(s, signer, address, authorize) ==
  IF ~ validVote(s, address, authorize) THEN s
  ELSE [s EXCEPT
    !.votes = @ \cup {[signer |-> signer, address |-> address, authorize |-> authorize]},
    !.tally = count(@, address, authorize)]

\* What is left of the tally of an account when some votes go: those of them
\* that are counted in it each take one.
Remaining(tally, a, gone) ==
  tally[a].votes - Cardinality({v \in gone : v.address = a /\ v.authorize = tally[a].authorize})

\* Mutant: a tally that falls to zero stays.
uncastMutant(tally, gone) ==
  [a \in DOMAIN tally |-> [tally[a] EXCEPT !.votes = Remaining(tally, a, gone)]]

\* uncast, for every vote that goes: a tally that falls to zero goes with them.
uncast(tally, gone) ==
  [a \in {b \in DOMAIN tally : Remaining(tally, b, gone) > 0} |->
     [tally[a] EXCEPT !.votes = Remaining(tally, a, gone)]]

\* Votes leave the list and the tally together.
discard(s, gone) ==
  [s EXCEPT !.votes = @ \ gone, !.tally = uncast(@, gone)]

VotesBy(s, signer) == {v \in s.votes : v.signer = signer}
VotesOn(s, address) == {v \in s.votes : v.address = address}

\* Mutant: half of the signers is enough.
passesMutant(s, address) ==
  address \in DOMAIN s.tally /\ s.tally[address].votes >= Cardinality(s.signers) \div 2

passes(s, address) ==
  address \in DOMAIN s.tally /\ s.tally[address].votes > Cardinality(s.signers) \div 2

\* Mutant: the votes of the account that was dropped go on counting.
deauthorizeVotesMutant(s, address, number) ==
  shift([s EXCEPT !.signers = @ \ {address}], number)

\* Mutant: the window is not shortened with the list.
deauthorizeWindowMutant(s, address, number) ==
  LET removed == [s EXCEPT !.signers = @ \ {address}]
  IN  discard(removed, VotesBy(removed, address))

\* The account leaves, the window shrinks with the list, its votes are void.
deauthorize(s, address, number) ==
  LET removed == shift([s EXCEPT !.signers = @ \ {address}], number)
  IN  discard(removed, VotesBy(removed, address))

\* Every vote on the account that changed is gone.
forget(s, address) ==
  [s EXCEPT !.votes = @ \ VotesOn(s, address), !.tally = Restrict(@, DOMAIN @ \ {address})]

\* If the vote passed, the one account changes.
enact(s, address, number) ==
  IF ~ passes(s, address) THEN s
  ELSE forget(IF s.tally[address].authorize
              THEN [s EXCEPT !.signers = @ \cup {address}]
              ELSE deauthorize(s, address, number), address)

\* Mutant: pending votes survive the checkpoint.
resetMutant(s, number) == s

\* Checkpoint blocks void every pending vote.
reset(s, number) ==
  IF number % Epoch = 0 THEN [s EXCEPT !.votes = {}, !.tally = <<>>] ELSE s

\* The block is the newest, its signer the most recent.
sign(s, number, signer) ==
  [s EXCEPT !.recents = Put(@, number, signer), !.number = number]

\* apply returns a snapshot and not an error.
Applies(s, h) ==
  LET shifted == shift(s, h.number)
  IN  /\ h.number = s.number + 1
      /\ h.signer \in s.signers
      /\ h.signer \notin Range(shifted.recents)

\* The snapshot after one more header.
apply(s, h) ==
  LET signed == sign(shift(reset(s, h.number), h.number), h.number, h.signer)
      earlier == {v \in VotesBy(signed, h.signer) : v.address = h.coinbase}
      voted == cast(discard(signed, earlier), h.signer, h.coinbase, h.authorize)
  IN  enact(voted, h.coinbase, h.number)

-----------------------------------------------------------------------------
(* Headers: preparing, sealing, verifying.                                 *)

\* The signer whose turn it is, among the signers in ascending order.
inturn(s, number, signer) ==
  number % Cardinality(s.signers) =
    Cardinality({a \in s.signers : signer \notin s.signers \/ a < signer})

calcDifficulty(s, signer) == IF inturn(s, s.number + 1, signer) THEN 2 ELSE 1

\* The votes Prepare may cast.  Propose and Discard change the proposals of a
\* signer at any time, so any account may be among them.
Proposals(s) ==
  {v \in [address : Accounts, authorize : BOOLEAN] : validVote(s, v.address, v.authorize)}
    \cup {[address |-> Zero, authorize |-> FALSE]}

Prepare(s, signer) ==
  LET number == s.number + 1
      checkpoint == number % Epoch = 0
  IN  {[number |-> number, signer |-> signer,
        coinbase |-> v.address, authorize |-> v.authorize,
        extra |-> IF checkpoint THEN s.signers ELSE {},
        difficulty |-> calcDifficulty(s, signer)] :
          v \in {v \in Proposals(s) : checkpoint => v.address = Zero}}

\* Seal signs: the signer is authorized and the block shifts it out.
SealPermits(s, h) ==
  /\ h.signer \in s.signers
  /\ \A seen \in DOMAIN s.recents :
       s.recents[seen] = h.signer => ~ (h.number < limit(s) \/ seen > h.number - limit(s))

\* Mutant: the window is one block too short.
verifySealMutant(s, h) ==
  /\ h.signer \in s.signers
  /\ \A seen \in DOMAIN s.recents :
       s.recents[seen] = h.signer => ~ (seen > (h.number + 1 - limit(s)) % Uint64)
  /\ h.difficulty = IF inturn(s, h.number, h.signer) THEN 2 ELSE 1

\* The window of the recent signers in unsigned arithmetic, and the turn.
verifySeal(s, h) ==
  /\ h.signer \in s.signers
  /\ \A seen \in DOMAIN s.recents :
       s.recents[seen] = h.signer => ~ (seen > (h.number - limit(s)) % Uint64)
  /\ h.difficulty = IF inturn(s, h.number, h.signer) THEN 2 ELSE 1

verifyHeader(s, h) ==
  /\ IF h.number % Epoch = 0
     THEN h.coinbase = Zero /\ ~ h.authorize /\ h.extra = s.signers
     ELSE h.extra = {}
  /\ h.difficulty \in {1, 2}
  /\ verifySeal(s, h)

\* What another node may send on top of the head: any vote, either difficulty.
\* Nobody proposes the zero address; were it a signer, the header without a
\* vote would be a vote against it, on checkpoints too.
Headers(s) ==
  {h \in [number : {s.number + 1}, signer : Accounts, coinbase : Accounts \cup {Zero},
          authorize : BOOLEAN, extra : {{}, s.signers}, difficulty : {1, 2}] :
     h.coinbase = Zero => ~ h.authorize}

-----------------------------------------------------------------------------
Init ==
  /\ \E genesis \in Geneses : /\ head = [number |-> 0, extra |-> genesis]
                              /\ snap = newSnapshot(0, genesis)
  /\ light = NoSnapshot
  /\ panicked = FALSE

\* The engine has a snapshot of the head; without one nothing is prepared,
\* sealed or verified on top of it.
HasSnapshot == head.number = snap.number

\* The block is on the chain.  Its snapshot is built when the next block asks
\* for it, and that may fail.
Extend(h) ==
  /\ head' = [number |-> h.number, extra |-> h.extra]
  /\ snap' = IF Applies(snap, h) THEN apply(snap, h) ELSE snap
  /\ light' = IF Applies(light, h) THEN apply(light, h) ELSE light
  /\ UNCHANGED panicked

\* A signer prepares, seals and writes a block.
Seal(signer) ==
  /\ HasSnapshot /\ ~ panicked /\ head.number < MaxNumber /\ snap.signers # {}
  /\ \E h \in Prepare(snap, signer) : SealPermits(snap, h) /\ Extend(h)

\* The whole signer list is gone: calcDifficulty divides by zero.
PrepareWithoutSigners ==
  /\ HasSnapshot /\ ~ panicked /\ snap.signers = {}
  /\ panicked' = TRUE
  /\ UNCHANGED <<head, snap, light>>

\* A block of another node passes the verification and is written.
Import(h) ==
  /\ HasSnapshot /\ ~ panicked /\ head.number < MaxNumber /\ snap.signers # {}
  /\ verifyHeader(snap, h)
  /\ Extend(h)

\* A node that has a checkpoint block and not its parent trusts the list in it.
TrustCheckpoint ==
  /\ light = NoSnapshot /\ ~ panicked
  /\ head.number % Epoch = 0 /\ head.number > 0
  /\ light' = newSnapshot(head.number, head.extra)
  /\ UNCHANGED <<head, snap, panicked>>

Next ==
  \/ \E signer \in Accounts : Seal(signer)
  \/ \E h \in Headers(snap) : Import(h)
  \/ PrepareWithoutSigners
  \/ TrustCheckpoint

Spec == Init /\ [][Next]_vars

-----------------------------------------------------------------------------
IsSnapshot(s) ==
  /\ s.number \in 0..MaxNumber /\ s.signers \subseteq Accounts
  /\ DOMAIN s.recents \subseteq 1..s.number /\ Range(s.recents) \subseteq Accounts
  /\ s.votes \subseteq [signer : Accounts, address : Accounts, authorize : BOOLEAN]
  /\ DOMAIN s.tally \subseteq Accounts
  /\ \A a \in DOMAIN s.tally :
       s.tally[a] \in [authorize : BOOLEAN, votes : 1..Cardinality(Accounts)]

\* The shape of the state; a tally that exists counts at least one vote.
TypeOK ==
  /\ head \in [number : 0..MaxNumber, extra : SUBSET Accounts]
  /\ IsSnapshot(snap)
  /\ IsSnapshot(light)
  /\ panicked \in BOOLEAN

\* The cached tally is the count of the pending votes, whatever was cast,
\* recast, withdrawn or voided: every pending vote is by a signer, would still
\* change something, and is the only one of its signer on its account.
VotesAreConsistent ==
  /\ DOMAIN snap.tally = {v.address : v \in snap.votes}
  /\ \A a \in DOMAIN snap.tally : snap.tally[a].votes = Cardinality(VotesOn(snap, a))
  /\ \A v \in snap.votes :
       /\ v.signer \in snap.signers
       /\ validVote(snap, v.address, v.authorize)
       /\ snap.tally[v.address].authorize = v.authorize
       /\ \A w \in VotesBy(snap, v.signer) : w.address = v.address => w = v

\* The signers change by one account at a time, and only when more than half
\* of them ask for it in votes that are pending since the last checkpoint.
ChangesHaveMajority ==
  [][snap.signers' # snap.signers =>
       \E a \in Accounts :
         LET voters == {v.signer : v \in VotesOn(snap, a)} \cup {snap.recents'[snap.number']}
         IN  /\ (snap.signers' \ snap.signers) \cup (snap.signers \ snap.signers') = {a}
             /\ voters \subseteq snap.signers
             /\ 2 * Cardinality(voters) > Cardinality(snap.signers)]_vars

\* The rule on recent signers stops no chain.  While there are signers, one of
\* them may seal the next block; and what Prepare and Seal produce, every node
\* verifies and can build on: the three checks of the recent signers agree,
\* also after the list has changed.
SealedIsAccepted ==
  (HasSnapshot /\ snap.signers # {}) =>
    LET sealed == {h \in UNION {Prepare(snap, signer) : signer \in Accounts} : SealPermits(snap, h)}
    IN  sealed # {} /\ \A h \in sealed : verifyHeader(snap, h) /\ Applies(snap, h)

\* A node that trusted a checkpoint agrees with one that has the whole chain,
\* and a snapshot of its head, on the signers and the votes.  Of the recent
\* signers it knows those since the checkpoint, and so after "limit" blocks it
\* agrees on everything.
CheckpointFollows ==
  (light # NoSnapshot /\ HasSnapshot) =>
    /\ light.number = snap.number /\ light.signers = snap.signers
    /\ light.votes = snap.votes /\ light.tally = snap.tally
    /\ \E checkpoint \in {n \in 1..snap.number : n % Epoch = 0} :
         light.recents = Restrict(snap.recents, {n \in DOMAIN snap.recents : n > checkpoint})

\* "Signer is among recents, only fail if the current block doesn't shift it
\* out": what verifySeal lets pass, apply accepts as well, so that the chain
\* never ends in a block without a snapshot.  Below the limit that fails:
\* number-limit wraps around, verifySeal lets a recent signer pass and apply
\* does not.
VerifiedIsApplied == HasSnapshot \/ head.number < limit(snap)
=============================================================================
