---------------------------- MODULE AckedEvents ----------------------------
(***************************************************************************)
(* The hashes of acknowledged chain events (evtforward/acked_events.go):   *)
(* kept in buckets of one hour, dropped bucket by bucket when they are     *)
(* old, saved with snapshots and bucketed again by a protocol upgrade.     *)
(* The tree set orders buckets by ts and holds one for each ts.            *)
(***************************************************************************)
EXTENDS Integers, FiniteSets, FiniteSetsExt, Folds

CONSTANTS
  Hash,      \* keys of chain events
  OneHour,
  Keep,      \* KeepHashesDurationForTestOnlyDoNotChange
  MaxTime,   \* bound: the last block time
  MaxStep,   \* bound: time between two blocks
  MaxUpgrades

ASSUME AckedAssumption ==
  /\ OneHour \in Nat /\ Keep \in Nat
  /\ MaxTime \in Nat /\ MaxStep \in Nat \ {0} /\ MaxUpgrades \in Nat

VARIABLES
  now,       \* block time
  events,    \* the buckets
  ackedAt,   \* history: when a hash was last acknowledged, -1 if never
  upgrades

ackedVars == <<now, events, ackedAt, upgrades>>

Bucket == [ts : 0 .. MaxTime, hashes : SUBSET Hash]

Contains(h) == \E b \in events : h \in b.hashes

\* mutant: a bucket has no end
CoversForever(b, ts) == b.ts <= ts

\* the bucket takes what is acknowledged at ts
Covers(b, ts) == b.ts <= ts /\ b.ts + OneHour >= ts

\* AddAt: into the first bucket that covers ts, or a new one
AddAt(bs, ts, hashes) ==
  LET covering == {b \in bs : Covers(b, ts)} IN
  IF covering = {}
  THEN {b \in bs : b.ts # ts} \cup {[ts |-> ts, hashes |-> hashes]}
  ELSE LET first == CHOOSE b \in covering : \A c \in covering : b.ts <= c.ts
       IN (bs \ {first}) \cup {[first EXCEPT !.hashes = @ \cup hashes]}

RemoveBefore(bs, ts) == {b \in bs : b.ts > ts}

\* Forwarder.OnTick; block time does not go back
OnTick(t) ==
  /\ t \in now .. Min({now + MaxStep, MaxTime})
  /\ now' = t
  /\ events' = RemoveBefore(events, t - Keep)
  /\ UNCHANGED <<ackedAt, upgrades>>

\* Forwarder.Ack of an event that is not acknowledged
AckHash(h) ==
  /\ ~Contains(h)
  /\ events' = AddAt(events, now, {h})
  /\ ackedAt' = [ackedAt EXCEPT ![h] = now]
  /\ UNCHANGED <<now, upgrades>>

Latest(bs) == CHOOSE b \in bs : \A c \in bs : c.ts <= b.ts

\* mutant: buckets are joined with the ones that follow
RebucketedPairs(bs) ==
  {[b EXCEPT !.hashes = UNION {c.hashes : c \in {d \in bs : d.ts - b.ts \in 0 .. OneHour + 1}}] : b \in bs}

\* restore during an upgrade adds the saved buckets one after the other; without one,
\* RestoreExactAt puts every bucket back as it was
Rebucketed(bs) ==
  MapThenFoldSet(LAMBDA b, acc : AddAt(acc, b.ts, b.hashes), {}, LAMBDA b : b, Latest, bs)

Upgrade ==
  /\ upgrades < MaxUpgrades
  /\ upgrades' = upgrades + 1
  /\ events' = Rebucketed(events)
  /\ UNCHANGED <<now, ackedAt>>

AckedInit == now = 0 /\ events = {} /\ ackedAt = [h \in Hash |-> -1] /\ upgrades = 0

AckedNext == (\E t \in 0 .. MaxTime : OnTick(t)) \/ (\E h \in Hash : AckHash(h)) \/ Upgrade

AckedSpec == AckedInit /\ [][AckedNext]_ackedVars

-----------------------------------------------------------------------------
\* Buckets are what the code can store, one for each ts.
AckedTypeOK ==
  /\ now \in 0 .. MaxTime /\ events \subseteq Bucket /\ upgrades \in 0 .. MaxUpgrades
  /\ \A b, c \in events : b.ts = c.ts => b = c
  /\ ackedAt \in [Hash -> -1 .. MaxTime]

\* An acknowledged event is recognised for as long as hashes are kept, but for the hour
\* its bucket may have been open already (AddAt, RemoveBefore).
KeptLongEnough ==
  \A h \in Hash : ackedAt[h] >= 0 /\ now - ackedAt[h] < Keep - OneHour => Contains(h)

\* The buckets are the same on a node that came through an upgrade, so the snapshots of
\* all nodes stay equal.  The comment of RestoreExactAt fears different buckets when
\* "events are received out of sync (e.g: timestamps 100 before 90)"; block time rules
\* that out.
UpgradeKeepsBuckets == [][Upgrade => events' = events]_ackedVars

=============================================================================
