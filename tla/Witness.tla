------------------------------ MODULE Witness ------------------------------
(***************************************************************************)
(* The witness of core/validators: the validators agree, by votes that are *)
(* transactions of the chain, on whether an external resource (a deposit,  *)
(* an asset, a stake event, an oracle call...) really exists.              *)
(*                                                                         *)
(* Every node executes the same chain of blocks, each at its own pace.     *)
(* Executing block k is: OnTick at time k, then the block's transactions.  *)
(* The part of a node's state that all nodes must agree on is cs[n]; the   *)
(* rest (the state of the check routine, the resend bookkeeping) is local  *)
(* and depends on goroutines, on the network and on restarts.              *)
(***************************************************************************)
EXTENDS Integers, Sequences, FiniteSets, FiniteSetsExt

CONSTANTS
  Node,            \* nodes that run with validator wallets
  Validators,      \* the ones in the topology at genesis
  Res,             \* resource identifiers, never reused by their owners
  PowerMaps,       \* voting powers an epoch may install: subset of [Node -> Nat]
  RequiredNum,     \* validatorVotesRequired = RequiredNum / RequiredDen
  RequiredDen,
  Offsets,         \* checkUntil - now, as asked for by the resource's owner
  MaxValidation,   \* maxValidationPeriod, in blocks
  ResendInterval,  \* NodeVoteResendInterval, in blocks
  SnapshotInterval,
  EpochLength,     \* in blocks; powers change with the epoch only
  MaxHeight,       \* bound: blocks in the chain
  MaxRestarts,     \* bound: restarts of nodes
  NoStart          \* a block without a StartCheck

ASSUME WitnessAssumption ==
  /\ Validators \subseteq Node
  /\ PowerMaps \subseteq [Node -> Nat]
  /\ PowerMaps # {}
  /\ Offsets \subseteq Int
  /\ RequiredNum \in Nat /\ RequiredDen \in Nat \ {0}
  /\ MaxValidation \in Nat /\ ResendInterval \in Nat
  /\ SnapshotInterval \in Nat \ {0} /\ EpochLength \in Nat \ {0}
  /\ MaxHeight \in Nat /\ MaxRestarts \in Nat
  /\ NoStart \notin [res : Res, until : Int]

VARIABLES
  chain,        \* the blocks agreed on so far
  pool,         \* <<voter, resource>>: NodeVote transactions in the mempool
  inflight,     \* <<voter, resource>>: NodeVotes handed to the Commander
  pos,          \* pos[n]: the last block n has executed; also w.now at n
  cs,           \* cs[n]: phase, checkUntil and votes of every resource at n
  state,        \* state[n][r]: res.state
  routine,      \* routine[n][r]: n's goroutine is running Check for r
  lastSent,     \* lastSent[n][r]: res.lastSentVote
  needResend,   \* needResend[n]: needResendRes
  saved,        \* saved[n]: the last snapshot n wrote
  restarts,     \* number of restarts so far
  ledger,       \* history: ledger[k+1] is the agreed state after block k
  genuine,      \* resources that exist on the external chain
  checked,      \* history: <<n, r>> whose check has succeeded
  unsupervised  \* history: <<n, r>> n restored r, or joined while r was open

vars == <<chain, pool, inflight, pos, cs, state, routine, lastSent, needResend,
          saved, restarts, ledger, genuine, checked, unsupervised>>

States == {"notValidated", "validated", "voteSent"}
Phases == {"none", "open", "passed", "failed"}
Vote   == Node \X Res
Start  == [res : Res, until : Int]
Block  == [power : PowerMaps, start : Start \cup {NoStart},
           announce : SUBSET (Node \ Validators), votes : SUBSET Vote]
Agreed == [phase : [Res -> Phases], until : [Res -> Int],
           votes : [Res -> SUBSET Node]]

\* the zero time.Time of lastSentVote: further in the past than any interval
NeverSent == -(ResendInterval + 1)

-----------------------------------------------------------------------------
(* The topology after block k: the nodes announced so far.  The removal of       *)
(* nodes that have had neither stake nor a positive ranking for long is left     *)
(* out: they have no voting power before and after it, so the votes that it      *)
(* makes the code refuse would not have counted.                                 *)
Known(k) == {n \in Node : n \in Validators \/ \E i \in 1 .. k : n \in chain[i].announce}

\* the votes of Tendermint validators; a node without that status has power 0
VotePower(votes, power) == MapThenSumSet(LAMBDA n : power[n], votes)

votePassed(votes, power) ==
  VotePower(votes, power) * RequiredDen >= RequiredNum * VotePower(Node, power)

validateCheckUntil(until, now) == until >= now /\ until <= now + MaxValidation

Open(c) == {r \in Res : c.phase[r] = "open"}

\* mutant: a check that somebody has voted for is not closed by its deadline
ClosingUnvoted(c, power, t) ==
  {r \in Open(c) : \/ c.until[r] < t /\ c.votes[r] = {}
                   \/ votePassed(c.votes[r], power)}

Closing(c, power, t) ==
  {r \in Open(c) : c.until[r] < t \/ votePassed(c.votes[r], power)}

\* mutant: the callback is told TRUE at the deadline as well
AgreedTickPasses(c, power, t) ==
  LET gone == Closing(c, power, t) IN
  [phase |-> [r \in Res |-> IF r \in gone THEN "passed" ELSE c.phase[r]],
   until |-> [r \in Res |-> IF r \in gone THEN 0 ELSE c.until[r]],
   votes |-> [r \in Res |-> IF r \in gone THEN {} ELSE c.votes[r]]]

\* OnTick, the part every node must agree on: the callback runs and the
\* resource is deleted
AgreedTick(c, power, t) ==
  LET gone == Closing(c, power, t) IN
  [phase |-> [r \in Res |-> IF r \notin gone THEN c.phase[r]
                            ELSE IF votePassed(c.votes[r], power)
                                 THEN "passed" ELSE "failed"],
   until |-> [r \in Res |-> IF r \in gone THEN 0 ELSE c.until[r]],
   votes |-> [r \in Res |-> IF r \in gone THEN {} ELSE c.votes[r]]]

\* startCheck is refused when the resource is pending or the period is invalid
Starts(c, start, t) ==
  /\ start # NoStart
  /\ start.res \notin Open(c)
  /\ validateCheckUntil(start.until, t)

AgreedStart(c, start, t) ==
  IF ~Starts(c, start, t) THEN c
  ELSE [phase |-> [c.phase EXCEPT ![start.res] = "open"],
        until |-> [c.until EXCEPT ![start.res] = start.until],
        votes |-> [c.votes EXCEPT ![start.res] = {}]]

\* AddNodeCheck for each vote of a block: an unknown resource, a voter that is
\* not in the topology and a second vote are errors that change nothing
AddNodeChecks(c, votes, known) ==
  [c EXCEPT !.votes = [r \in Res |->
     IF c.phase[r] # "open" THEN c.votes[r]
     ELSE c.votes[r] \cup {m \in known : <<m, r>> \in votes}]]

AgreedBlock(c, b, t, known) ==
  AddNodeChecks(AgreedStart(AgreedTick(c, b.power, t), b.start, t), b.votes, known)

InitAgreed == [phase |-> [r \in Res |-> "none"], until |-> [r \in Res |-> 0],
               votes |-> [r \in Res |-> {}]]

-----------------------------------------------------------------------------
(* One node: OnTick, the local part, at time t on the agreed state c.      *)
IsValidator(n, k) == n \in Known(k)

Live(c, power, t) == Open(c) \ Closing(c, power, t)

\* mutant: votes before the check has succeeded
ValidatedAnyState(n, c, power, t) ==
  {r \in Live(c, power, t) : IsValidator(n, t - 1) /\ state[n][r] # "voteSent"}

\* isValidator && state == validated
Validated(n, c, power, t) ==
  {r \in Live(c, power, t) : IsValidator(n, t - 1) /\ state[n][r] = "validated"}

\* || w.needResend(k): only evaluated, and the mark consumed, if the left is false
Resent(n, c, power, t) ==
  {r \in Live(c, power, t) \ Validated(n, c, power, t) : r \in needResend[n]}

Sending(n, c, power, t) == Validated(n, c, power, t) \cup Resent(n, c, power, t)

\* no self vote seen within the resend interval
Overdue(n, c, power, t) ==
  {r \in Live(c, power, t) \ Sending(n, c, power, t) :
     /\ IsValidator(n, t - 1)
     /\ state[n][r] = "voteSent"
     /\ t > lastSent[n][r] + ResendInterval
     /\ n \notin c.votes[r]}

\* res.state of a resource that StartCheck has just registered
StartState(n, t) == IF IsValidator(n, t - 1) THEN "notValidated" ELSE "voteSent"

\* mutant: the votes are not in the snapshot
SerialiseWithoutVotes(c) == [c EXCEPT !.votes = [r \in Res |-> {}]]

\* what the snapshot keeps: identifier, checkUntil and votes of the open
\* resources, and what their owners keep of the closed ones
Serialise(c) == c

\* the resources that startCheck registers in block b
NewChecks(c, b, t) ==
  {r \in Res : Starts(AgreedTick(c, b.power, t), b.start, t) /\ b.start.res = r}

\* the part of a block that all nodes agree on, and the snapshot
ExecuteAgreed(n, b, t) ==
  LET next == AgreedBlock(cs[n], b, t, Known(t)) IN
  /\ pos' = [pos EXCEPT ![n] = t]
  /\ cs' = [cs EXCEPT ![n] = next]
  /\ saved' = IF t % SnapshotInterval # 0 THEN saved
              ELSE [saved EXCEPT ![n] = [pos |-> t, agreed |-> Serialise(next)]]

\* OnTick: the votes handed to the Commander, and the resend bookkeeping
SendVotes(n, b, t) ==
  LET sent == Sending(n, cs[n], b.power, t)
      gone == Closing(cs[n], b.power, t) \cup NewChecks(cs[n], b, t)
  IN
  /\ inflight' = inflight \cup ({n} \X sent)
  /\ needResend' = [needResend EXCEPT ![n] =
       (@ \ Resent(n, cs[n], b.power, t)) \cup Overdue(n, cs[n], b.power, t)]
  /\ lastSent' = [lastSent EXCEPT ![n] = [r \in Res |->
       IF r \in sent THEN t ELSE IF r \in gone THEN NeverSent ELSE @[r]]]

\* OnTick and startCheck: the states of the resources and their check routines
TrackChecks(n, b, t) ==
  LET sent == Sending(n, cs[n], b.power, t)
      gone == Closing(cs[n], b.power, t)
      new  == NewChecks(cs[n], b, t)
  IN
  /\ state' = [state EXCEPT ![n] = [r \in Res |->
                 IF r \in sent THEN "voteSent"
                 ELSE IF r \in new THEN StartState(n, t)
                 ELSE IF r \in gone THEN "notValidated" ELSE @[r]]]
  /\ routine' = [routine EXCEPT ![n] = [r \in Res |->
                   IF r \in new THEN IsValidator(n, t - 1)
                   ELSE @[r] /\ r \notin gone]]
  /\ unsupervised' = unsupervised \cup
       (IF IsValidator(n, t - 1) THEN {} ELSE {n} \X new)

ExecuteBlock(n) ==
  LET t == pos[n] + 1
      b == chain[t]
  IN
  /\ pos[n] < Len(chain)
  /\ ExecuteAgreed(n, b, t) /\ SendVotes(n, b, t) /\ TrackChecks(n, b, t)
  /\ UNCHANGED <<chain, pool, restarts, ledger, genuine, checked>>

\* start(): Check has succeeded; the store is unconditional
CheckSucceeds(n, r) ==
  /\ routine[n][r]
  /\ r \in genuine
  /\ state' = [state EXCEPT ![n][r] = "validated"]
  /\ routine' = [routine EXCEPT ![n][r] = FALSE]
  /\ checked' = checked \cup {<<n, r>>}
  /\ UNCHANGED <<chain, pool, inflight, pos, cs, lastSent, needResend, saved,
                 restarts, ledger, genuine, unsupervised>>

\* start(): the backoff ends (its maximum elapsed time, or the deadline)
CheckGivesUp(n, r) ==
  /\ routine[n][r]
  /\ routine' = [routine EXCEPT ![n][r] = FALSE]
  /\ UNCHANGED <<chain, pool, inflight, pos, cs, state, lastSent, needResend,
                 saved, restarts, ledger, genuine, checked, unsupervised>>

\* Commander: the transaction reached the mempool
CommandOk(n, r) ==
  /\ <<n, r>> \in inflight
  /\ inflight' = inflight \ {<<n, r>>}
  /\ pool' = pool \cup {<<n, r>>}
  /\ UNCHANGED <<chain, pos, cs, state, routine, lastSent, needResend, saved,
                 restarts, ledger, genuine, checked, unsupervised>>

\* Commander: the submission failed; onCommandSent marks the resource
CommandFails(n, r) ==
  /\ <<n, r>> \in inflight
  /\ inflight' = inflight \ {<<n, r>>}
  /\ needResend' = [needResend EXCEPT ![n] = @ \cup {r}]
  /\ UNCHANGED <<chain, pool, pos, cs, state, routine, lastSent, saved,
                 restarts, ledger, genuine, checked, unsupervised>>

\* the transaction is lost after the Commander was told that all is well, or
\* dropped from the mempool before it is in a block
CommandLost(n, r) ==
  /\ <<n, r>> \in inflight
  /\ inflight' = inflight \ {<<n, r>>}
  /\ UNCHANGED <<chain, pool, pos, cs, state, routine, lastSent, needResend,
                 saved, restarts, ledger, genuine, checked, unsupervised>>

Tip == ledger[Len(chain) + 1]

\* RecalcValidatorSet runs at the end of an epoch and gives power to nodes of
\* the topology only
ElectedPower(power) ==
  /\ \A n \in Node : power[n] > 0 => n \in Known(Len(chain))
  /\ Len(chain) % EpochLength # 0 => power = chain[Len(chain)].power

\* Tendermint decides the next block
ProposeBlock(power, start, announce, votes) ==
  LET t == Len(chain) + 1
      b == [power |-> power, start |-> start, announce |-> announce, votes |-> votes]
  IN
  /\ t <= MaxHeight
  /\ chain' = Append(chain, b)
  /\ pool' = pool \ votes
  /\ ElectedPower(power)
  /\ announce \cap Known(Len(chain)) = {}
  /\ start # NoStart => AgreedTick(Tip, power, t).phase[start.res] \in {"none", "open"}
  /\ ledger' = Append(ledger,
                      AgreedBlock(Tip, b, t, Known(Len(chain)) \cup announce))
  /\ UNCHANGED <<inflight, pos, cs, state, routine, lastSent, needResend, saved,
                 restarts, genuine, checked, unsupervised>>

-----------------------------------------------------------------------------
(* A restart: the snapshot engine loads the witness, then governance and   *)
(* banking, then the topology.  isValidator is false on a fresh process    *)
(* until the topology has been loaded.                                     *)
IsValidatorDuringRestore(n) == FALSE

RestoreState(n, c, r) ==
  IF r \in Open(c) /\ (~IsValidatorDuringRestore(n) \/ n \in c.votes[r])
  THEN "voteSent" ELSE "notValidated"

Restart(n) ==
  LET c == saved[n].agreed IN
  /\ restarts < MaxRestarts
  /\ restarts' = restarts + 1
  /\ pos' = [pos EXCEPT ![n] = saved[n].pos]
  /\ cs' = [cs EXCEPT ![n] = c]
  /\ state' = [state EXCEPT ![n] = [r \in Res |-> RestoreState(n, c, r)]]
  /\ routine' = [routine EXCEPT ![n] = [r \in Res |->
                   /\ r \in Open(c)
                   /\ IsValidatorDuringRestore(n)
                   /\ RestoreState(n, c, r) # "voteSent"]]
  /\ lastSent' = [lastSent EXCEPT ![n] = [r \in Res |-> NeverSent]]
  /\ needResend' = [needResend EXCEPT ![n] = {}]
  /\ inflight' = {v \in inflight : v[1] # n}
  /\ unsupervised' = unsupervised \cup ({n} \X Open(c))
  /\ UNCHANGED <<chain, pool, saved, ledger, genuine, checked>>

Init ==
  /\ chain = <<>> /\ pool = {} /\ inflight = {}
  /\ pos = [n \in Node |-> 0]
  /\ cs = [n \in Node |-> InitAgreed]
  /\ state = [n \in Node |-> [r \in Res |-> "notValidated"]]
  /\ routine = [n \in Node |-> [r \in Res |-> FALSE]]
  /\ lastSent = [n \in Node |-> [r \in Res |-> NeverSent]]
  /\ needResend = [n \in Node |-> {}]
  /\ saved = [n \in Node |-> [pos |-> 0, agreed |-> InitAgreed]]
  /\ restarts = 0
  /\ ledger = <<InitAgreed>>
  /\ genuine \in SUBSET Res
  /\ checked = {} /\ unsupervised = {}

Propose ==
  \E power \in PowerMaps, announce \in SUBSET (Node \ Validators),
     votes \in SUBSET pool :
    \E start \in [res : Res, until : {Len(chain) + 1 + d : d \in Offsets}]
                 \cup {NoStart} :
      ProposeBlock(power, start, announce, votes)

Next ==
  \/ Propose
  \/ \E n \in Node : ExecuteBlock(n) \/ Restart(n)
  \/ \E n \in Node, r \in Res :
       \/ CheckSucceeds(n, r) \/ CheckGivesUp(n, r)
       \/ CommandOk(n, r) \/ CommandFails(n, r) \/ CommandLost(n, r)

Spec == Init /\ [][Next]_vars

-----------------------------------------------------------------------------
Replica == [Node -> Agreed]

\* Every variable ranges over the values the code can store in it.
TypeOK ==
  /\ chain \in Seq(Block)
  /\ pool \in SUBSET Vote /\ inflight \in SUBSET Vote
  /\ pos \in [Node -> 0 .. Len(chain)]
  /\ cs \in Replica
  /\ state \in [Node -> [Res -> States]]
  /\ routine \in [Node -> [Res -> BOOLEAN]]
  /\ lastSent \in [Node -> [Res -> Int]]
  /\ needResend \in [Node -> SUBSET Res]
  /\ saved \in [Node -> [pos : 0 .. Len(chain), agreed : Agreed]]
  /\ restarts \in 0 .. MaxRestarts
  /\ ledger \in Seq(Agreed) /\ Len(ledger) = Len(chain) + 1
  /\ genuine \in SUBSET Res
  /\ checked \in SUBSET Vote /\ unsupervised \in SUBSET Vote

\* Agreement.  Whatever the local goroutines, lost votes and restarts, a node
\* that has executed k blocks holds exactly the agreed state after block k:
\* which resources are open, with which votes, and which callbacks ran with
\* which verdict (OnTick, AddNodeCheck, startCheck, restore).
Agreement ==
  /\ \A n \in Node : cs[n] = ledger[pos[n] + 1]
  /\ \A n \in Node : saved[n].agreed = ledger[saved[n].pos + 1]

\* A vote recorded for a node means that this node's check of the resource
\* succeeded (start(): state validated is stored after Check returned), unless
\* the node took the resource up from a snapshot or before it was a validator.
VotesAreChecked ==
  \A n, m \in Node, r \in Res :
    m \in cs[n].votes[r] => <<m, r>> \in checked \cup unsupervised

\* The callback says TRUE for a resource that does not exist only if nodes that
\* took it up without checking it held, between them, the required share of the
\* voting power at the block that closed it (OnTick, votePassed).
PassedMeansGenuine ==
  \A r \in Res \ genuine, n \in Node : \A k \in 1 .. pos[n] :
    (/\ ledger[k].phase[r] = "open"
     /\ AgreedTick(ledger[k], chain[k].power, k).phase[r] = "passed")
    => \E S \in SUBSET {m \in Node : <<m, r>> \in unsupervised} :
         votePassed(S, chain[k].power)

\* Blocks keep being decided and executed: Tendermint's liveness.  It is weak
\* fairness of Propose and ExecuteBlock, with the conditions they are enabled
\* under written out; only ExecuteBlock takes a node further in the chain.
Fairness ==
  /\ []<>(Len(chain) = MaxHeight) \/ []<><<Propose>>_vars
  /\ \/ []<>(\A n \in Node : pos[n] = Len(chain))
     \/ []<><<\E n \in Node : pos'[n] > pos[n]>>_vars

FairSpec == Spec /\ Fairness

\* Every check that is started is closed, by a quorum or by its deadline, until
\* no node has it open, as long as blocks are produced (OnTick).
EveryCheckCloses ==
  \A r \in Res :
    (\E n \in Node : cs[n].phase[r] = "open" /\ cs[n].until[r] < MaxHeight)
      ~> \A n \in Node : cs[n].phase[r] \in {"passed", "failed"}

=============================================================================
