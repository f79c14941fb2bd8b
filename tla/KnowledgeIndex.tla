--------------------------- MODULE KnowledgeIndex ---------------------------
(***************************************************************************)
(* The nightly reconciliation of the knowledge index: what is published is *)
(* cut into chunks, changed ones are written, and their vectors follow one *)
(* by one, a batch to a commit.                                            *)
(*                                                                         *)
(* Every server process runs it; an advisory lock of the database lets one *)
(* in.  The lock belongs to a connection, and a session takes one from the *)
(* process's pool for each transaction, not always the same.  An embedding *)
(* may fail, a process may be restarted at any await, and people edit.     *)
(*                                                                         *)
(* A chunk's text stands for all that is written of it; a hash is equal    *)
(* when the texts are.  A vector is the text and the model it came from.   *)
(***************************************************************************)
EXTENDS Naturals, FiniteSets, Sequences, SequencesExt

CONSTANTS
    Papers,        \* chunks that places and routes may have: doc_id, chunk_seq
    Wordings,      \* what a chunk may say
    Indexers,      \* processes
    Wires,         \* connections of a process's pool
    EmbedModels,   \* embedding models the settings may name
    CommitEvery,   \* _COMMIT_EVERY
    MaxEditions,   \* bound: edits of what is published
    MaxNightRuns,  \* bound: nights begun
    MaxRestarts,   \* bound: restarts
    Unpublished, NoVector, NoIndexer

ASSUME PapersAssumption == IsFiniteSet(Papers) /\ Unpublished \notin Wordings
ASSUME IndexNullsAssumption ==
    /\ NoIndexer \notin Indexers
    /\ NoVector \notin [of: Wordings \union {Unpublished}, model: EmbedModels]
ASSUME IndexAssumption ==
    /\ CommitEvery \in Nat \ {0}
    /\ {MaxEditions, MaxNightRuns, MaxRestarts} \subseteq Nat

VARIABLES
    shown,      \* shown[p]: what is published of chunk p
    index,      \* index[p]: the row of knowledge_chunks: its text, or none,
                \* and the vector with its model, or none
    embedWith,  \* rag_embedding_model
    advisory,   \* the advisory lock: whose, on which connection, how often
    night,      \* night[w]: the reconciliation under way, or none
    covers,     \* history: what was published when a night that did not fail
                \* planned its work, until something is written again
    soFar       \* editions, nights, restarts so far

indexVars == <<shown, index, embedWith, advisory, night, covers, soFar>>

NoRow == [text |-> Unpublished, vector |-> NoVector]
FreeLock == [by |-> NoIndexer, wire |-> 0, times |-> 0]
NoNight == [todo |-> <<>>, unsaved |-> <<>>, number |-> 0, failed |-> FALSE, plan |-> <<>>]
NothingCovered == <<>>

IndexInit ==
    /\ shown \in [Papers -> Wordings]
    /\ index = [p \in Papers |-> NoRow]
    /\ embedWith \in EmbedModels
    /\ advisory = FreeLock
    /\ night = [w \in Indexers |-> NoNight]
    /\ covers = NothingCovered
    /\ soFar = [editions |-> 0, nights |-> 0, restarts |-> 0]

AtIt(w) == night[w] # NoNight

----------------------------------------------------------------------------
\* An editor or a moderator changes a place or a route.
Publish(p, text) ==
    /\ soFar.editions < MaxEditions
    /\ shown[p] # text
    /\ shown' = [shown EXCEPT ![p] = text]
    /\ soFar' = [soFar EXCEPT !.editions = @ + 1]
    /\ UNCHANGED <<index, embedWith, advisory, night, covers>>

NoRetry(p) == index[p].text # shown[p]  \* fault: a vector that failed stays out

\* plan_reindex: what is inserted, or updated, or only embedded.
ToEmbed(p) ==
    \/ index[p].text # shown[p]
    \/ index[p].vector = NoVector \/ index[p].vector.model # embedWith

Planned(p) == shown[p] # Unpublished /\ ToEmbed(p)

\* pg_try_advisory_lock: a connection that has it already may take it again.
Obtainable(w, wire) ==
    advisory = FreeLock \/ (advisory.by = w /\ advisory.wire = wire)

\* The night begins: the candidates and the index are read, texts are
\* written, stale chunks deleted, and that is committed.  An update leaves
\* the old vector where it is.
PlanNight(w, wire) ==
    /\ ~AtIt(w)
    /\ soFar.nights < MaxNightRuns
    /\ Obtainable(w, wire)
    /\ advisory' = [by |-> w, wire |-> wire, times |-> advisory.times + 1]
    /\ index' = [p \in Papers |->
                    IF shown[p] = Unpublished THEN NoRow ELSE [index[p] EXCEPT !.text = shown[p]]]
    /\ \E order \in SetToSeqs({p \in Papers : Planned(p)}) :
          night' = [night EXCEPT ![w] = [todo |-> order, unsaved |-> <<>>, number |-> 0,
                                         failed |-> FALSE, plan |-> shown]]
    /\ soFar' = [soFar EXCEPT !.nights = @ + 1]
    /\ covers' = NothingCovered
    /\ UNCHANGED <<shown, embedWith>>

\* Another process has the lock, or a connection of this one still does.
SkipNight(w, wire) ==
    /\ ~AtIt(w)
    /\ soFar.nights < MaxNightRuns
    /\ ~Obtainable(w, wire)
    /\ soFar' = [soFar EXCEPT !.nights = @ + 1]
    /\ UNCHANGED <<shown, index, embedWith, advisory, night, covers>>

\* What a commit makes of the vectors written since the last one.
Saved(chunks) ==
    [p \in Papers |->
        IF p \in Range(chunks) /\ index[p] # NoRow
        THEN [index[p] EXCEPT !.vector = [of |-> index[p].text, model |-> embedWith]]
        ELSE index[p]]

CommitDue(number) == number % CommitEvery = 0

\* One chunk is embedded, its vector written, and every CommitEvery-th is
\* committed; when it fails, the rollback takes along what was not.
EmbedNext(w) ==
    LET work == night[w]
        number == work.number + 1
    IN /\ AtIt(w) /\ work.todo # <<>>
       /\ \E works \in BOOLEAN :
             LET written == IF works THEN Append(work.unsaved, Head(work.todo)) ELSE <<>>
             IN /\ index' = IF CommitDue(number) THEN Saved(written) ELSE index
                /\ night' = [night EXCEPT ![w] =
                      [work EXCEPT !.todo = Tail(@), !.number = number,
                                  !.unsaved = IF CommitDue(number) THEN <<>> ELSE written,
                                  !.failed = @ \/ ~works]]
       /\ UNCHANGED <<shown, embedWith, advisory, covers, soFar>>

\* pg_advisory_unlock undoes one taking, on the connection that has it.
Unlocked(w, wire) ==
    IF advisory.by = w /\ advisory.wire = wire
    THEN IF advisory.times = 1 THEN FreeLock ELSE [advisory EXCEPT !.times = @ - 1]
    ELSE advisory

\* The rest is committed and the lock given back, on whatever connection the
\* session is given then.
EndNight(w, wire) ==
    /\ AtIt(w) /\ night[w].todo = <<>>
    /\ index' = Saved(night[w].unsaved)
    /\ covers' = IF night[w].failed THEN NothingCovered ELSE night[w].plan
    /\ night' = [night EXCEPT ![w] = NoNight]
    /\ advisory' = Unlocked(w, wire)
    /\ UNCHANGED <<shown, embedWith, soFar>>

\* A process dies, and with it its connections and what they held.
Perish(w) ==
    /\ soFar.restarts < MaxRestarts
    /\ night' = [night EXCEPT ![w] = NoNight]
    /\ advisory' = IF advisory.by = w THEN FreeLock ELSE advisory
    /\ soFar' = [soFar EXCEPT !.restarts = @ + 1]
    /\ UNCHANGED <<shown, index, embedWith, covers>>

\* A deployment: every process goes down with what it had not committed, the
\* connections are closed, and the settings may name another model.
Redeploy(model) ==
    /\ soFar.restarts < MaxRestarts
    /\ embedWith' = model
    /\ night' = [w \in Indexers |-> NoNight]
    /\ advisory' = FreeLock
    /\ covers' = IF model = embedWith THEN covers ELSE NothingCovered
    /\ soFar' = [soFar EXCEPT !.restarts = @ + 1]
    /\ UNCHANGED <<shown, index>>

IndexNext ==
    \/ \E p \in Papers, text \in Wordings \union {Unpublished} : Publish(p, text)
    \/ \E w \in Indexers :
          \/ EmbedNext(w) \/ Perish(w)
          \/ \E wire \in Wires : PlanNight(w, wire) \/ SkipNight(w, wire) \/ EndNight(w, wire)
    \/ \E model \in EmbedModels : Redeploy(model)

IndexSpec == IndexInit /\ [][IndexNext]_indexVars
----------------------------------------------------------------------------
(* What holds.                                                             *)

IndexTypeOK ==
    LET Indexed == [text: Wordings, vector: [of: Wordings, model: EmbedModels] \union {NoVector}]
    IN /\ shown \in [Papers -> Wordings \union {Unpublished}]
       /\ index \in [Papers -> Indexed \union {NoRow}]
       /\ embedWith \in EmbedModels
       /\ advisory \in [by: Indexers, wire: Wires, times: Nat \ {0}] \union {FreeLock}
       /\ \A w \in Indexers : AtIt(w) => night[w].plan \in [Papers -> Wordings \union {Unpublished}]
       /\ covers \in [Papers -> Wordings \union {Unpublished}] \union {NothingCovered}

\* After a night without a failure the index holds what was published when
\* that night was planned and nothing else, and the search can find all of
\* it: every chunk has a vector of the model in use, whatever was lost in
\* the nights before to failures, rollbacks, restarts or a change of model.
GoodNightCoversAll ==
    covers # NothingCovered =>
        \A p \in Papers :
            IF covers[p] = Unpublished THEN index[p] = NoRow
            ELSE /\ index[p].text = covers[p]
                 /\ index[p].vector # NoVector /\ index[p].vector.model = embedWith

(* What the repository says and the code does not keep.                    *)

\* "A chunk is embedded again when its text changed" (plan_reindex): after a
\* night without a failure every vector is of the text its row holds.
VectorsMatchTexts ==
    covers # NothingCovered =>
        \A p \in Papers : index[p] # NoRow /\ index[p].vector # NoVector
                          => index[p].vector.of = index[p].text
=============================================================================
