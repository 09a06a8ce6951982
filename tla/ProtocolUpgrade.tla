-------------------------- MODULE ProtocolUpgrade --------------------------
(***************************************************************************)
(* Protocol upgrades (core/protocolupgrade and its calls in                *)
(* processor/abci.go): validators vote for a release and a height, the     *)
(* block at that height ends with a snapshot, the node waits for its data  *)
(* node and is replaced by the new release.                                *)
(*                                                                         *)
(* One node is modelled: all of it but the handshake and the crash is      *)
(* determined by the blocks.  A proposal without votes is removed, so an   *)
(* ID without votes stands for one that is not in the map.                 *)
(***************************************************************************)
EXTENDS Integers, FiniteSets

CONSTANTS
  Pk,          \* public keys that send proposals
  Epoch,       \* epochs with different validators
  Validator,   \* Validator[ep]: the Tendermint validators of ep
  Majority,    \* Majority[ep]: the sets of keys with the required power in ep
  MaxVersion,  \* bound: releases
  MaxBlock,   \* bound: blocks
  MaxCrashes   \* bound: crashes

Version == 1 .. MaxVersion
Height  == 1 .. MaxBlock
ID      == Version \X Height      \* protocolUpgradeProposalID: release tag and height
None    == <<0, 0>>               \* the empty ReleaseInfo

ASSUME UpgradeAssumption ==
  /\ MaxVersion \in Nat \ {0} /\ MaxBlock \in Nat /\ MaxCrashes \in Nat
  /\ Validator \in [Epoch -> SUBSET Pk]
  /\ Majority \in [Epoch -> SUBSET SUBSET Pk]
  /\ \A ep \in Epoch : {} \notin Majority[ep]    \* the required majority is above 0

VARIABLES
  block,       \* blocks begun on the chain
  executing,   \* a block was begun and not finalized
  epoch,
  version,     \* currentVersion
  current,     \* currentBlockHeight
  active,      \* active[id]: the keys that accepted id
  events,      \* events[id]: approvers in the event kept for id
  accepted,    \* upgradeStatus.AcceptedReleaseInfo
  coreReady,   \* coreReadyToUpgrade
  dataReady,   \* the data node confirmed the last block
  ready,       \* upgradeStatus.ReadyToUpgrade
  reported,    \* history: status sent by Cleanup for the accepted release
  crashes

engine == <<active, events, accepted>>
upgradeVars == <<block, executing, epoch, version, current, engine, coreReady, dataReady,
                 ready, reported, crashes>>

NoVotes == [id \in ID |-> {}]

-----------------------------------------------------------------------------
\* isAccepted
isAccepted(votes, id, height, ep) == id[2] >= height /\ votes[id] \in Majority[ep]

\* mutant: old releases are valid
IsValidAnyVersion(pk, h, tag) == pk \in Validator[epoch] /\ h > current

IsValidProposal(pk, h, tag) == pk \in Validator[epoch] /\ h > current /\ tag >= version

\* a vote for the running release withdraws; any other replaces the key's votes
VotesAfter(votes, pk, id, withdraw) ==
  [i \in ID |-> IF i = id THEN (IF withdraw THEN votes[i] ELSE votes[i] \cup {pk})
                ELSE votes[i] \ {pk}]

\* mutant: no event for the removed votes
EventsAdded(votes, pk, id, withdraw) ==
  [i \in ID |-> IF i = id /\ ~withdraw THEN votes[i] \cup {pk} ELSE events[i]]

\* sendAndKeepEvent for what changed; removed with the proposal
EventsAfter(votes, pk, id, withdraw) ==
  [i \in ID |-> IF i = id THEN (IF withdraw THEN events[i] ELSE votes[i] \cup {pk})
                ELSE IF pk \in votes[i] THEN votes[i] \ {pk} ELSE events[i]]

UpgradeProposal(pk, id) ==
  /\ executing
  /\ IsValidProposal(pk, id[2], id[1])
  /\ active' = VotesAfter(active, pk, id, id[1] = version)
  /\ events' = EventsAfter(active, pk, id, id[1] = version)
  /\ UNCHANGED <<block, executing, epoch, version, current, accepted, coreReady, dataReady,
                 ready, reported, crashes>>

-----------------------------------------------------------------------------

\* BeginBlock drops what is due and not accepted
Rejected(votes, h, ep) == {id \in ID : ~isAccepted(votes, id, h, ep) /\ h >= id[2]}

\* the earliest accepted proposal, by ID at the same height
Earliest(ids) ==
  IF ids = {} THEN None
  ELSE CHOOSE i \in ids : \A j \in ids : i[2] < j[2] \/ (i[2] = j[2] /\ i[1] <= j[1])

\* OnBeginBlock of the next block: the clock may start an epoch before the upgrade engine
\* looks at the votes.  A node that is ready for the upgrade waits here instead.
BeginBlock(ep) ==
  LET h == block + 1 IN
  /\ ~executing /\ ~coreReady /\ block < MaxBlock
  /\ block' = h /\ current' = h /\ executing' = TRUE
  /\ epoch' = ep
  /\ active' = [i \in ID |-> IF i \in Rejected(active, h, ep) THEN {} ELSE active[i]]
  /\ events' = [i \in ID |-> IF i \in Rejected(active, h, ep) THEN {} ELSE events[i]]
  /\ accepted' = Earliest({i \in ID : isAccepted(active, i, h, ep)})
  /\ UNCHANGED <<version, coreReady, dataReady, ready, reported, crashes>>

\* mutant: the block after the accepted height
TimeForUpgradeLate == accepted # None /\ current > accepted[2]

TimeForUpgrade == accepted # None /\ current = accepted[2]

\* Finalize: clean up, take a snapshot and wait to be replaced, or go on
Finalize ==
  /\ executing /\ executing' = FALSE
  /\ IF TimeForUpgrade
     THEN /\ active' = NoVotes /\ events' = NoVotes
          /\ reported' = IF isAccepted(active, accepted, current, epoch)
                         THEN "approved" ELSE "rejected"
          /\ coreReady' = TRUE
     ELSE UNCHANGED <<active, events, reported, coreReady>>
  /\ UNCHANGED <<block, epoch, version, current, accepted, dataReady, ready, crashes>>

\* The data node has stored the last block and says so.
DataNodeReady ==
  /\ coreReady /\ ~dataReady
  /\ dataReady' = TRUE
  /\ UNCHANGED <<block, executing, epoch, version, current, engine, coreReady, ready,
                 reported, crashes>>

\* startProtocolUpgrade
SetReadyForUpgrade ==
  /\ coreReady /\ dataReady /\ ~ready
  /\ ready' = TRUE
  /\ UNCHANGED <<block, executing, epoch, version, current, engine, coreReady, dataReady,
                 reported, crashes>>

\* LoadState in a new process: active proposals come from the events
Load ==
  /\ active' = events
  /\ current' = 0 /\ coreReady' = FALSE /\ dataReady' = FALSE /\ ready' = FALSE
  /\ UNCHANGED <<block, executing, epoch, events, accepted>>

\* Visor.Run: the status says ready, the accepted release is started.
StartRelease ==
  /\ ready
  /\ version' = accepted[1]
  /\ Load
  /\ UNCHANGED <<reported, crashes>>

\* A restart with the same release between two blocks: the snapshot and the blocks after
\* it give back what the blocks determine.
Crash ==
  /\ ~executing /\ crashes < MaxCrashes
  /\ crashes' = crashes + 1
  /\ Load
  /\ UNCHANGED <<version, reported>>

UpgradeInit ==
  /\ block = 0 /\ executing = FALSE /\ epoch \in Epoch /\ version = 1 /\ current = 0
  /\ active = NoVotes /\ events = NoVotes /\ accepted = None
  /\ coreReady = FALSE /\ dataReady = FALSE /\ ready = FALSE
  /\ reported = "none" /\ crashes = 0

UpgradeNext ==
  \/ \E pk \in Pk, id \in ID : UpgradeProposal(pk, id)
  \/ \E ep \in Epoch : BeginBlock(ep)
  \/ Finalize \/ DataNodeReady \/ SetReadyForUpgrade \/ StartRelease \/ Crash

UpgradeSpec == UpgradeInit /\ [][UpgradeNext]_upgradeVars

\* Blocks keep coming, the data node catches up and the process manager does its work.
\* Weak fairness of each, with the conditions they are enabled under written out.
UpgradeFairness ==
  /\ \/ []<>(executing \/ coreReady \/ block = MaxBlock)
     \/ []<><<\E ep \in Epoch : BeginBlock(ep)>>_upgradeVars
  /\ []<>~executing \/ []<><<Finalize>>_upgradeVars
  /\ []<>~(coreReady /\ ~dataReady) \/ []<><<DataNodeReady>>_upgradeVars
  /\ []<>~(coreReady /\ dataReady /\ ~ready) \/ []<><<SetReadyForUpgrade>>_upgradeVars
  /\ []<>~ready \/ []<><<StartRelease>>_upgradeVars

UpgradeFairSpec == UpgradeSpec /\ UpgradeFairness

-----------------------------------------------------------------------------
\* Every variable ranges over the values the code can store in it.
UpgradeTypeOK ==
  /\ block \in 0 .. MaxBlock /\ current \in 0 .. MaxBlock /\ executing \in BOOLEAN
  /\ epoch \in Epoch /\ version \in Version
  /\ active \in [ID -> SUBSET Pk] /\ events \in [ID -> SUBSET Pk]
  /\ accepted \in ID \cup {None}
  /\ coreReady \in BOOLEAN /\ dataReady \in BOOLEAN /\ ready \in BOOLEAN
  /\ reported \in {"none", "approved", "rejected"} /\ crashes \in 0 .. MaxCrashes

\* "Each validator can only have one vote": whatever order releases and heights are
\* proposed and withdrawn in, no key is counted for two proposals (UpgradeProposal).
OneVoteEach ==
  \A i, j \in ID : i # j => active[i] \cap active[j] = {}

\* The events a snapshot is made of say the same as the proposals (serialise, LoadState):
\* a restarted node counts the votes every other node counts.
EventsMirror == events = active

\* VotesAreExact: every node, restarted or not, counts one vote of every key, whatever
\* was proposed, withdrawn and snapshotted before (UpgradeProposal, serialise, LoadState).
VotesAreExact == OneVoteEach /\ EventsMirror

\* While a block is executed no proposal of an earlier height is open: it is accepted or
\* removed when its height comes (BeginBlock).
NothingStale ==
  executing => \A i \in ID : active[i] # {} => i[2] >= current

\* A node is only ever replaced by a newer release (IsValidProposal, StartRelease).
VersionsGrow == [][version' >= version]_upgradeVars

\* A proposal that is accepted at its height leads to the upgrade (TimeForUpgrade, Finalize,
\* startProtocolUpgrade), unless the node is killed before it is replaced.
UpgradeHappens ==
  \A i \in ID, c \in 0 .. MaxCrashes :
    (executing /\ accepted = i /\ current = i[2] /\ crashes = c)
      ~> (version = i[1] \/ crashes > c)

=============================================================================
