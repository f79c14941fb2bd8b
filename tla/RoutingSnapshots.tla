-------------------------- MODULE RoutingSnapshots --------------------------
(***************************************************************************)
(* The routing snapshots of one route: starts of the route append or reuse *)
(* a revision (ensure_routing_snapshot), maintenance removes old ones      *)
(* (purge_routing_snapshots).                                              *)
(*                                                                         *)
(* A start locks the route, then the newest snapshot, and inserts its run  *)
(* when it commits.  A purge selects a batch and deletes it by id, batch   *)
(* after batch, and its caller commits or rolls back.  Each reads what is  *)
(* committed, and waits for a row the other has locked.                    *)
(*                                                                         *)
(* Data: a content stands for a fingerprint; a snapshot is named by the    *)
(* order of its insertion, and "old" is one created before the cutoff.     *)
(***************************************************************************)
EXTENDS Naturals, FiniteSetsExt

CONSTANTS
    Looks,       \* what the route may look like
    Starts,      \* requests that start the route, each once
    MaxBatches,  \* max_batches, with a batch size of one
    MaxRows,     \* bound: snapshots ever inserted
    NoSnapshot, NoStart

Rows == 1..MaxRows

ASSUME SnapBoundsAssumption == MaxBatches \in Nat \ {0} /\ MaxRows \in Nat \ {0}
ASSUME SnapNullsAssumption == NoSnapshot \notin Nat /\ NoStart \notin Starts

VARIABLES
    content,    \* the route as it is now
    inserted,   \* how many snapshots were ever inserted
    snapshot,   \* snapshot[n]: revision and content of the row inserted as n-th
    here,       \* committed rows
    old,        \* rows from before the cutoff
    routeLock,  \* the start that holds the route's row
    start,      \* start[s]: its stage, the snapshot it uses, what it saw
    purge       \* the purge: stage, batch selected, rows deleted, batches done

snapVars == <<content, inserted, snapshot, here, old, routeLock, start, purge>>
table == <<inserted, snapshot, here, old>>

FreshStart == [stage |-> "new", row |-> NoSnapshot, saw |-> NoSnapshot]
NoPurge == [stage |-> "none", batch |-> {}, deleted |-> {}, batches |-> 0]

SnapInit ==
    /\ content \in Looks
    /\ inserted = 0
    /\ snapshot = [n \in Rows |-> [revision |-> 0, content |-> content]]
    /\ here = {}
    /\ old = {}
    /\ routeLock = NoStart
    /\ start = [s \in Starts |-> FreshStart]
    /\ purge = NoPurge

Newest(S) == CHOOSE n \in S : \A m \in S : snapshot[m].revision <= snapshot[n].revision

----------------------------------------------------------------------------
(* Starting the route.                                                     *)

AlwaysFree == TRUE  \* fault: the route's row is not locked
RouteFree == routeLock = NoStart

LockRoute(s) ==
    /\ start[s].stage = "new"
    /\ RouteFree
    /\ routeLock' = s
    /\ start' = [start EXCEPT ![s].stage = "locked", ![s].saw = content]
    /\ UNCHANGED <<content, table, purge>>

SameFingerprint(s, n) == snapshot[n].content = start[s].saw

\* ensure_routing_snapshot: the newest row, once no purge is deleting it, is
\* locked and reused if it is what the route looks like ...
ReuseSnapshot(s) ==
    /\ start[s].stage = "locked"
    /\ here # {}
    /\ LET n == Newest(here)
       IN /\ n \notin purge.deleted
          /\ SameFingerprint(s, n)
          /\ start' = [start EXCEPT ![s].stage = "ensured", ![s].row = n]
    /\ UNCHANGED <<content, table, routeLock, purge>>

FromZero == IF here = {} THEN 0 ELSE snapshot[Newest(here)].revision + 1  \* fault
NextRevision == IF here = {} THEN 1 ELSE snapshot[Newest(here)].revision + 1

\* ... or else followed by a new revision, which others see at the commit.
AppendSnapshot(s) ==
    /\ start[s].stage = "locked"
    /\ inserted < MaxRows
    /\ here # {} => /\ Newest(here) \notin purge.deleted
                    /\ ~SameFingerprint(s, Newest(here))
    /\ inserted' = inserted + 1
    /\ snapshot' = [snapshot EXCEPT ![inserted'] =
                      [revision |-> NextRevision, content |-> start[s].saw]]
    /\ start' = [start EXCEPT ![s].stage = "ensured", ![s].row = inserted']
    /\ UNCHANGED <<content, here, old, routeLock, purge>>

\* The run is inserted and all is committed.
StartCommits(s) ==
    /\ start[s].stage = "ensured"
    /\ start' = [start EXCEPT ![s].stage = "running"]
    /\ here' = here \union {start[s].row}
    /\ routeLock' = IF routeLock = s THEN NoStart ELSE routeLock
    /\ UNCHANGED <<content, inserted, snapshot, old, purge>>

\* The start fails after the snapshot (the unique index on going runs).
StartFails(s) ==
    /\ start[s].stage \in {"locked", "ensured"}
    /\ start' = [start EXCEPT ![s] = [FreshStart EXCEPT !.stage = "failed"]]
    /\ routeLock' = IF routeLock = s THEN NoStart ELSE routeLock
    /\ UNCHANGED <<content, table, purge>>

\* The row of a run goes with its user's (ON DELETE CASCADE): no request does
\* it, an operator may.
RunDeleted(s) ==
    /\ start[s].stage = "running"
    /\ start' = [start EXCEPT ![s].stage = "deleted", ![s].row = NoSnapshot]
    /\ UNCHANGED <<content, table, routeLock, purge>>

\* The route is edited; its row is updated, so the edit waits for the lock.
Edit ==
    /\ routeLock = NoStart
    /\ \E c \in Looks \ {content} : content' = c
    /\ UNCHANGED <<table, routeLock, start, purge>>

Age(n) ==
    /\ n \in here \ old
    /\ old' = old \union {n}
    /\ UNCHANGED <<content, inserted, snapshot, here, routeLock, start, purge>>

----------------------------------------------------------------------------
(* Removing old snapshots.                                                 *)

Running == {s \in Starts : start[s].stage = "running"}
Referenced == {start[s].row : s \in Running}

\* eligible_snapshot_ids, as the query has it: rows with no newer revision.
Eligible ==
    LET seen == here \ purge.deleted
        HasNewer(n) == \E m \in seen : snapshot[m].revision > snapshot[n].revision
    IN {n \in seen \intersect old : n \notin Referenced /\ ~HasNewer(n)}

SelectBatch ==
    /\ purge.stage \in {"none", "deleted"}
    /\ purge.batches < MaxBatches
    /\ Eligible # {}
    /\ \E n \in Eligible :
          purge' = [purge EXCEPT !.stage = "selected", !.batch = {n}, !.batches = @ + 1]
    /\ UNCHANGED <<content, table, routeLock, start>>

\* Rows a start has locked: the one it reuses.
LockedRows == {start[s].row : s \in {t \in Starts : start[t].stage = "ensured"}}

DeleteBatch ==
    /\ purge.stage = "selected"
    /\ purge.batch \intersect LockedRows = {}
    /\ purge' = [purge EXCEPT !.stage = "deleted", !.batch = {},
                              !.deleted = @ \union purge.batch]
    /\ UNCHANGED <<content, table, routeLock, start>>

\* ON DELETE SET NULL: a run that came to use a deleted row loses it.
PurgeCommits ==
    /\ purge.stage = "deleted"
    /\ here' = here \ purge.deleted
    /\ start' = [s \in Starts |->
                   IF s \in Running /\ start[s].row \in purge.deleted
                   THEN [start[s] EXCEPT !.row = NoSnapshot] ELSE start[s]]
    /\ purge' = NoPurge
    /\ UNCHANGED <<content, inserted, snapshot, old, routeLock>>

PurgeRollsBack ==
    /\ purge.stage \in {"selected", "deleted"}
    /\ purge' = NoPurge
    /\ UNCHANGED <<content, table, routeLock, start>>

SnapNext ==
    \/ \E s \in Starts : LockRoute(s) \/ ReuseSnapshot(s) \/ AppendSnapshot(s) \/ StartCommits(s)
                        \/ StartFails(s) \/ RunDeleted(s)
    \/ Edit \/ (\E n \in Rows : Age(n))
    \/ SelectBatch \/ DeleteBatch \/ PurgeCommits \/ PurgeRollsBack

SnapSpec == SnapInit /\ [][SnapNext]_snapVars
----------------------------------------------------------------------------
(* What holds.                                                             *)

SnapTypeOK ==
    /\ content \in Looks
    /\ inserted \in 0..MaxRows
    /\ snapshot \in [Rows -> [revision: 0..MaxRows, content: Looks]]
    /\ here \subseteq {n \in 1..inserted : snapshot[n].revision >= 1}
    /\ old \subseteq 1..inserted
    /\ routeLock \in Starts \union {NoStart}
    /\ start \in [Starts -> [stage: {"new", "locked", "ensured", "running", "failed", "deleted"},
                             row: Rows \union {NoSnapshot}, saw: Looks \union {NoSnapshot}]]
    /\ purge \in [stage: {"none", "selected", "deleted"}, batch: SUBSET Rows,
                  deleted: SUBSET Rows, batches: 0..MaxBatches]

\* Rows that are committed or will be by a start.
Appended == here \union LockedRows

\* Starts at once, and a purge between them, never give two snapshots one
\* revision: a later row has a higher one, and no start trips over the unique
\* constraint ("safe for simultaneous users", ensure_routing_snapshot).
RevisionsOrdered ==
    \A n, m \in Appended : n < m => snapshot[n].revision < snapshot[m].revision

\* A start uses a snapshot of the route as it saw it under the lock, whatever
\* revision came before and whatever a purge is taking away meanwhile, and has
\* it until its run is there (ensure_routing_snapshot).
StartSeesItsRoute ==
    \A s \in Starts : start[s].stage = "ensured" =>
        /\ snapshot[start[s].row].content = start[s].saw
        /\ start[s].row \notin purge.deleted

\* Both: the snapshots of a route are a line of versions, and each start walks
\* the version it saw (ensure_routing_snapshot).
SnapshotsServeStarts == RevisionsOrdered /\ StartSeesItsRoute

(* What the repository says and the code does not keep.                    *)

\* A purge leaves the newest revision alone (eligible_snapshot_ids "keeps the
\* latest route revision even when no execution currently points at it").
NewestIsKept ==
    [][here' \subseteq here /\ here' # here => Newest(here) \in here']_snapVars
=============================================================================
