------------------------------- MODULE Notary -------------------------------
(***************************************************************************)
(* The notary of core/notary: it collects, in transactions of the chain,   *)
(* the validators' signatures that authorise an action on the Ethereum     *)
(* bridge (a withdrawal, a new asset, new asset limits, a signer change),  *)
(* and publishes the bundle once enough validators have signed.            *)
(*                                                                         *)
(* Every node executes the same blocks at its own pace.  Time is relative: *)
(* one block is one unit, and cooldown counts the blocks until a signature *)
(* may be sent again, so behaviours are not cut short by a last block.     *)
(***************************************************************************)
EXTENDS Integers, Sequences, FiniteSets

CONSTANTS
  Node,             \* the nodes
  Validators,       \* those that are validators, of any status, from the start
  Res,              \* (identifier, kind) pairs to be signed, each started once
  Offered,          \* those of a kind for which OnTick calls OfferSignatures
  TmSets,           \* sets of Tendermint validators an epoch may install
  RequiredNum,      \* validatorVotesRequired = RequiredNum / RequiredDen
  RequiredDen,
  RetryInterval,    \* the 10 seconds of getRetries, in blocks
  SnapshotInterval, \* in blocks
  MaxLag,           \* bound: blocks a node may be behind
  MaxRestarts       \* bound: restarts of nodes

ASSUME NotaryAssumption ==
  /\ Validators \subseteq Node
  /\ Offered \subseteq Res
  /\ TmSets \subseteq SUBSET Node /\ TmSets # {}
  /\ RequiredNum \in Nat /\ RequiredDen \in Nat \ {0}
  /\ RetryInterval \in Nat /\ SnapshotInterval \in Nat \ {0}
  /\ MaxLag \in Nat \ {0} /\ MaxRestarts \in Nat

VARIABLES
  tip,        \* the agreed state after the last block decided
  log,        \* log[n]: the blocks decided since n's last snapshot
  done,       \* done[n]: how many of log[n] the node has executed
  cs,         \* cs[n]: what the blocks determine, as n has it
  retries,    \* retries[n]: resources in n's txTracker
  cooldown,   \* cooldown[n][r]: blocks until r is retried again
  hasSig,     \* hasSig[n]: tracked resources whose signature is not nil
  saved,      \* saved[n]: n's last snapshot
  inflight,   \* <<n, r>>: NodeSignature handed to the Commander
  pool,       \* <<n, r>>: NodeSignature in the mempool
  restarts

vars == <<tip, log, done, cs, retries, cooldown, hasSig, saved, inflight, pool, restarts>>

Sig    == Node \X Res
Block  == [tm : TmSets, start : SUBSET Res, announce : SUBSET Node, sigs : SUBSET Sig]
\* duty and published are history: the validators when the aggregate started, and
\* the resources whose bundle was sent to the event broker
Agreed == [known : SUBSET Node, sigs : [Res -> SUBSET Node], started : SUBSET Res,
           pending : SUBSET Res, tm : SUBSET Node,
           duty : [Res -> SUBSET Node], published : SUBSET Res]

-----------------------------------------------------------------------------
votePassed(count, len) == count * RequiredDen >= RequiredNum * len

\* the early exit counts all signatures, the second test those of Tendermint
\* validators
IsSigned(sigs, tm) ==
  /\ votePassed(Cardinality(sigs), Cardinality(tm))
  /\ votePassed(Cardinality(sigs \cap tm), Cardinality(tm))

\* The required share is positive (the network parameter must be above zero), and
\* there is always a Tendermint validator.
ASSUME NoEmptyBundle == \A tm \in TmSets : ~IsSigned({}, tm)

Signed(c, tm) == {r \in c.pending : IsSigned(c.sigs[r], tm)}

\* mutant: OnTick does not look at the pending resources again
AgreedTickSkips(c, tm) == c

\* OnTick, on the agreed state: resources may have become signed because the set
\* of Tendermint validators changed
AgreedTick(c, tm) ==
  [c EXCEPT !.pending = @ \ Signed(c, tm), !.published = @ \cup Signed(c, tm)]

\* StartAggregate
AgreedStart(c, start) ==
  [c EXCEPT !.started = @ \cup start, !.pending = @ \cup start,
            !.sigs = [r \in Res |-> IF r \in start THEN {} ELSE @[r]],
            !.duty = [r \in Res |-> IF r \in start THEN c.known ELSE @[r]]]

\* AddNewNode, for each node announced.  The removal of nodes without stake and without
\* a positive ranking is left out: they are no Tendermint validators, so the signatures
\* it makes the code refuse would not have counted.
AgreedAnnounce(c, announce) == [c EXCEPT !.known = @ \cup announce]

\* RegisterSignature, for each signature of a block: an unknown resource or node is
\* an error; a bundle is sent whenever a signature arrives and there are enough
RegisterSignatures(c, sigs, tm) ==
  LET touched == {r \in c.started : \E n \in c.known : <<n, r>> \in sigs}
      all     == [r \in Res |-> IF r \in touched
                                THEN c.sigs[r] \cup {n \in c.known : <<n, r>> \in sigs}
                                ELSE c.sigs[r]]
      ready   == {r \in touched : IsSigned(all[r], tm)}
  IN [c EXCEPT !.sigs = all, !.pending = @ \ ready, !.published = @ \cup ready]

AgreedBlock(c, b) ==
  LET c1 == [AgreedStart(AgreedTick(c, b.tm), b.start) EXCEPT !.tm = b.tm]
  IN RegisterSignatures(AgreedAnnounce(c1, b.announce), b.sigs, b.tm)

InitAgreed == [known |-> Validators, tm |-> {}, duty |-> [r \in Res |-> {}], sigs |-> [r \in Res |-> {}], started |-> {}, pending |-> {},
               published |-> {}]

-----------------------------------------------------------------------------
\* txTracker.getRetries
getRetries(n) == {r \in retries[n] : cooldown[n][r] = 0}

\* mutant: signatures are never offered again
OfferNothing(n) == {}

\* OfferSignatures: the tracked resources that get their signature back
OfferSignatures(n) == retries[n] \cap Offered

\* mutant: resources without a signature are left out of the pending set
SerialiseUnsigned(c) == [c EXCEPT !.pending = {r \in @ : c.sigs[r] # {}}]

\* what the snapshot keeps: every signature, and which resources are pending
Serialise(c) == c

\* Executing a block at n: notary.OnTick, then the OfferSignatures of the ticks
\* of banking and of assets, then the transactions, then perhaps a snapshot
ExecuteBlock(n) ==
  LET b     == log[n][done[n] + 1]
      next  == AgreedBlock(cs[n], b)
      due   == getRetries(n)
      own   == IF n \in cs[n].known THEN b.start ELSE {}
      acked == {r \in next.started : n \in next.known /\ <<n, r>> \in b.sigs}
      kept  == (retries[n] \cup own) \ acked
      full  == done[n] + 1 = SnapshotInterval
  IN
  /\ done[n] < Len(log[n])
  /\ cs' = [cs EXCEPT ![n] = next]
  /\ inflight' = inflight \cup ({n} \X (due \cap hasSig[n]))
  /\ retries' = [retries EXCEPT ![n] = kept]
  /\ hasSig' = [hasSig EXCEPT ![n] =
                  (@ \cup OfferSignatures(n) \cup own) \cap kept]
  /\ cooldown' = [cooldown EXCEPT ![n] = [r \in Res |->
                    IF r \in own \/ r \notin kept THEN 0
                    ELSE IF r \in due THEN RetryInterval
                    ELSE IF @[r] > 0 THEN @[r] - 1 ELSE 0]]
  /\ saved' = IF full THEN [saved EXCEPT ![n] = Serialise(next)] ELSE saved
  /\ log' = IF full
            THEN [log EXCEPT ![n] = SubSeq(@, done[n] + 2, Len(@))] ELSE log
  /\ done' = [done EXCEPT ![n] = IF full THEN 0 ELSE @ + 1]
  /\ UNCHANGED <<tip, pool, restarts>>

\* mutant: resources that someone has signed are not tracked again
MissingUnsigned(n, c) == {r \in c.pending : n \in c.known /\ c.sigs[r] = {}}

\* restoreNotary: the pending resources without a signature of ours are tracked
\* again, with a nil signature.  The topology is restored before the notary.
Missing(n, c) == {r \in c.pending : n \in c.known /\ n \notin c.sigs[r]}

Restart(n) ==
  LET c == saved[n] IN
  /\ restarts < MaxRestarts
  /\ restarts' = restarts + 1
  /\ cs' = [cs EXCEPT ![n] = c]
  /\ done' = [done EXCEPT ![n] = 0]
  /\ retries' = [retries EXCEPT ![n] = Missing(n, c)]
  /\ cooldown' = [cooldown EXCEPT ![n] = [r \in Res |-> 0]]
  /\ hasSig' = [hasSig EXCEPT ![n] = {}]
  /\ inflight' = {s \in inflight : s[1] # n}
  /\ UNCHANGED <<tip, log, saved, pool>>

-----------------------------------------------------------------------------
CommandOk(n, r) ==
  /\ <<n, r>> \in inflight
  /\ inflight' = inflight \ {<<n, r>>}
  /\ pool' = pool \cup {<<n, r>>}
  /\ UNCHANGED <<tip, log, done, cs, retries, cooldown, hasSig, saved, restarts>>

\* the submission fails, which is only logged, or the transaction is lost
CommandFails(n, r) ==
  /\ <<n, r>> \in inflight
  /\ inflight' = inflight \ {<<n, r>>}
  /\ UNCHANGED <<tip, log, done, cs, retries, cooldown, hasSig, saved, pool, restarts>>

\* Tendermint decides the next block
ProposeBlock(b) ==
  /\ \A n \in Node : Len(log[n]) - done[n] < MaxLag
  /\ b.start \cap tip.started = {}
  /\ b.sigs \subseteq pool
  /\ tip' = AgreedBlock(tip, b)
  /\ log' = [n \in Node |-> Append(log[n], b)]
  /\ pool' = pool \ b.sigs
  /\ UNCHANGED <<done, cs, retries, cooldown, hasSig, saved, inflight, restarts>>

Propose ==
  \E tm \in TmSets, start \in SUBSET Res, announce \in SUBSET (Node \ tip.known),
     sigs \in SUBSET pool :
    ProposeBlock([tm |-> tm, start |-> start, announce |-> announce, sigs |-> sigs])

Init ==
  /\ tip = InitAgreed
  /\ log = [n \in Node |-> <<>>] /\ done = [n \in Node |-> 0]
  /\ cs = [n \in Node |-> InitAgreed] /\ saved = [n \in Node |-> InitAgreed]
  /\ retries = [n \in Node |-> {}] /\ hasSig = [n \in Node |-> {}]
  /\ cooldown = [n \in Node |-> [r \in Res |-> 0]]
  /\ inflight = {} /\ pool = {} /\ restarts = 0

Next ==
  \/ Propose
  \/ \E n \in Node : ExecuteBlock(n) \/ Restart(n)
  \/ \E n \in Node, r \in Res : CommandOk(n, r) \/ CommandFails(n, r)

Spec == Init /\ [][Next]_vars

-----------------------------------------------------------------------------
\* Every variable ranges over the values the code can store in it.
TypeOK ==
  /\ tip \in Agreed
  /\ log \in [Node -> Seq(Block)]
  /\ done \in [Node -> Nat]
  /\ cs \in [Node -> Agreed] /\ saved \in [Node -> Agreed]
  /\ retries \in [Node -> SUBSET Res]
  /\ cooldown \in [Node -> [Res -> 0 .. RetryInterval]]
  /\ hasSig \in [Node -> SUBSET Res]
  /\ inflight \subseteq Sig /\ pool \subseteq Sig
  /\ restarts \in 0 .. MaxRestarts

\* Nodes that have executed all the blocks hold the same signatures and the same
\* pending set, whatever they restored from a snapshot and executed again.
CaughtUpAgree == \A n \in Node : done[n] = Len(log[n]) => cs[n] = tip

\* A validator that was asked to sign keeps trying until its own signature is in a
\* block or the bundle is complete, across restarts (the retry list is not in the
\* snapshot: restoreNotary rebuilds it).
SignatureNotForgotten ==
  \A n \in Node, r \in Res :
    (r \in cs[n].pending /\ n \in cs[n].duty[r] \ cs[n].sigs[r]) => r \in retries[n]

\* A complete bundle is not held back: after a block, no aggregate that is still
\* pending has enough signatures of the Tendermint validators of that block, be it
\* the last signature or a change of the validator set that completed it (OnTick).
NoCompleteBundlePending ==
  \A n \in Node : \A r \in cs[n].pending : ~IsSigned(cs[n].sigs[r], cs[n].tm)

-----------------------------------------------------------------------------
\* Blocks keep coming, nodes execute them, a command that is retried forever is
\* accepted at last, and Tendermint includes a transaction that stays in the mempool.
IncludeSignature(n, r) ==
  \E tm \in TmSets, start \in SUBSET Res, sigs \in SUBSET pool :
    /\ <<n, r>> \in sigs
    /\ ProposeBlock([tm |-> tm, start |-> start, announce |-> {}, sigs |-> sigs])

\* the next block can be decided
Ready == \A n \in Node : Len(log[n]) - done[n] < MaxLag

\* Weak fairness of Propose and ExecuteBlock, strong fairness of CommandOk and
\* IncludeSignature, with the conditions they are enabled under written out.
Fairness ==
  /\ []<>~Ready \/ []<><<Propose>>_vars
  /\ \A n \in Node : []<>(done[n] = Len(log[n])) \/ []<><<ExecuteBlock(n)>>_vars
  /\ \A n \in Node, r \in Res :
       /\ <>[](<<n, r>> \notin inflight) \/ []<><<CommandOk(n, r)>>_vars
       /\ <>[](<<n, r>> \notin pool \/ ~Ready) \/ []<><<IncludeSignature(n, r)>>_vars

FairSpec == Spec /\ Fairness

\* Every bundle the bridge needs is sent at last, on every node, although commands
\* fail, the validator set changes and nodes restart from a snapshot without their
\* signatures (send: "the transaction will be retried later").
EveryBundleIsSent ==
  \A r \in Res : (r \in tip.started) ~> (\A n \in Node : r \in cs[n].published)

=============================================================================
