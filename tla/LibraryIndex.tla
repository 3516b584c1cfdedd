---------------------------- MODULE LibraryIndex ----------------------------
(***************************************************************************)
(* The derived index over a person's files: the scan of the roots they     *)
(* opted in (plugins/ingestion.py, document_ingestion.py), the store that   *)
(* several processes read, change and rebuild (index.py, document_index.py, *)
(* visual_index.py), and the paged reads and label assignments over it     *)
(* (search.py, document_results.py).                                       *)
(***************************************************************************)
EXTENDS Integers, Sequences, SequencesExt, FiniteSets, FiniteSetsExt

CONSTANTS
    Paths,          \* files under the roots, in the order of the walk
    Contents,       \* digests, as numbers: the order of entry ids
    FirstContent,   \* by path: what is there at first
    Edited,         \* contents a person writes, 0 to remove
    RejectionOf,    \* by content: what _accept says, "none"
    RefusalOf,      \* by content: what _judge says, "none"
    LabelsOf,       \* by content: what the classifier says
    ScoreOf,        \* by content: the similarity to the query
    Labels,         \* labels a person assigns
    Vocabulary,     \* the declared labels
    Indexers,       \* processes that scan and write
    MaxFiles,       \* max_files
    MaxEntries,     \* max_entries
    PageSize,       \* page_size
    MaxEvents       \* bound: file changes, scans, queries and mishaps

VARIABLES
    tree,       \* by path: its content and age, or content 0
    scan,       \* by indexer: the paths, then the files, ahead and what was found
    index,      \* the file
    model,      \* the embedding model of the processes
    indexing,   \* IndexQueryService._indexing
    walk,       \* a reader paging through results
    labelling,  \* a person assigning labels
    restarted,  \* how often the revision began anew
    lastFound,  \* what the last upsert brought, if nothing was written since
    faults,     \* kinds of wrong outcome that were met
    happened

\* Digests are not empty and have an order; max_entries and page_size are positive.
ContentsAssumption ==
    /\ Contents \subseteq Nat \ {0} /\ Edited \subseteq Contents \cup {0}
    /\ Paths # <<>> /\ Paths \in Seq(Range(Paths))
    /\ \A p \in Range(Paths) : FirstContent[p] \in Contents \cup {0}
    /\ MaxEntries \in Nat \ {0} /\ PageSize \in Nat \ {0}

libraryVars == <<tree, scan, index, model, indexing, walk, labelling, restarted, lastFound, faults, happened>>

Happens == happened < MaxEvents /\ happened' = happened + 1

NoScan == [at |-> "idle", ahead |-> <<>>, found |-> <<>>]
NoWalk == [at |-> "idle", query |-> "browse", revision |-> 0, shown |-> <<>>, list |-> <<>>, life |-> 0]
NoLabelling == [at |-> "idle", id |-> 0, revision |-> 0, read |-> <<>>, life |-> 0]

-----------------------------------------------------------------------------
(* The scan.                                                                 *)

Edit(p, c) ==
    /\ Happens /\ tree[p].content # c
    /\ tree' = [tree EXCEPT ![p] = [content |-> c, age |-> happened]]
    /\ UNCHANGED <<scan, index, model, indexing, walk, labelling, restarted, lastFound, faults>>

\* _candidates: the walk is ordered.
BeginScan(i) ==
    /\ Happens /\ scan[i].at = "idle"
    /\ scan' = [scan EXCEPT ![i] = [at |-> "scanning", ahead |-> Paths, found |-> <<>>]]
    /\ UNCHANGED <<tree, index, model, indexing, walk, labelling, restarted, lastFound, faults>>

\* _accept: inside the roots, a regular file, small enough, of a wanted type and
\* still there to be read.
Accepts(file) == file.content # 0 /\ RejectionOf[file.content] = "none"

\* DocumentIngestor._judge: what the first bytes say now, and how deep it is nested.
Judges(file) == file.content # 0 /\ RefusalOf[file.content] = "none"

\* What scan accepted is to be judged, in its order.
ToJudge(files) ==
    [at |-> IF files = <<>> THEN "scanned" ELSE "judging", ahead |-> files, found |-> <<>>]

\* One candidate of OptedInRootScanner.scan, truncated at max_files.
ScanStep(i) ==
    /\ scan[i].at = "scanning"
    /\ LET p == Head(scan[i].ahead)
           file == tree[p]
           full == Len(scan[i].found) >= MaxFiles
           found == IF Accepts(file) /\ ~full
                    THEN Append(scan[i].found, [path |-> p, content |-> file.content, age |-> file.age])
                    ELSE scan[i].found
           ahead == Tail(scan[i].ahead)
       IN  scan' = [scan EXCEPT ![i] =
                       IF full \/ ahead = <<>> THEN ToJudge(found)
                       ELSE [at |-> "scanning", ahead |-> ahead, found |-> found]]
    /\ UNCHANGED <<tree, index, model, indexing, walk, labelling, restarted, lastFound, faults, happened>>

\* One file of DocumentIngestor.scan: it is opened again.
JudgeStep(i) ==
    /\ scan[i].at = "judging"
    /\ LET file == Head(scan[i].ahead)
           rest == Tail(scan[i].ahead)
           found == IF Judges(tree[file.path]) THEN Append(scan[i].found, file) ELSE scan[i].found
       IN  scan' = [scan EXCEPT ![i] =
                       [at |-> IF rest = <<>> THEN "scanned" ELSE "judging", ahead |-> rest, found |-> found]]
    /\ UNCHANGED <<tree, index, model, indexing, walk, labelling, restarted, lastFound, faults, happened>>

-----------------------------------------------------------------------------
(* The store.                                                                *)

\* ingested_entry: the id is the digest's.
EntryOf(f) == [id |-> f.content, path |-> f.path, labels |-> LabelsOf[f.content], age |-> f.age]

\* prefixed_entry_error and the attribute checks of the two indexes.
InVocabulary(labels) == labels \subseteq Vocabulary

\* _prepare of every entry, before the lock: one that is invalid fails them all.
Prepares(entries) == \A e \in entries : InVocabulary(e.labels)

\* _load_locked, _parse: what cannot be understood is dropped and said so.
Health ==
    CASE index.state = "unreadable" -> "recovered"
      [] index.state # "unreadable" /\ index.model # model -> "incompatible"
      [] index.state = "bad-entry" /\ index.model = model -> "recovered"
      [] OTHER -> "intact"
Revision == IF index.state = "unreadable" THEN 0 ELSE index.revision
Entries == IF Health = "intact" THEN index.entries ELSE {}

\* IndexEntry.comparable: everything but the time.
Comparable(e) == <<e.id, e.path, e.labels>>
Stored(e, entries) == \E x \in entries : Comparable(x) = Comparable(e)

\* The merge of upsert writes what a scan found but for what is stored already; of
\* several files of one digest each takes the place of the one before.
Alone(found, k) == \A j \in DOMAIN found : found[j].content = found[k].content => j = k
Written(found, entries) == {k \in DOMAIN found : ~(Alone(found, k) /\ Stored(EntryOf(found[k]), entries))}
Standing(found, k) == \A j \in DOMAIN found : found[j].content = found[k].content => j <= k
Latest(found, K) == {EntryOf(found[k]) : k \in {k \in K : Standing(found, k)}}
Put(entries, new) == {e \in entries : \A n \in new : n.id # e.id} \cup new

\* _bound: the youngest, then the smallest id.
Before(a, b) == a.age > b.age \/ (a.age = b.age /\ a.id < b.id)
Ahead(entries, e) == {x \in entries : Before(x, e)}
Bound(entries) == {e \in entries : Cardinality(Ahead(entries, e)) < MaxEntries}

\* _commit.
Commit(entries) ==
    /\ index' = [state |-> "good", revision |-> Revision + 1, model |-> model, entries |-> entries]
    /\ restarted' = IF index.state = "unreadable" THEN restarted + 1 ELSE restarted

\* A scan of what was scanned before, with nothing written since.
Rescan(found) ==
    /\ lastFound = found /\ Health = "intact"
    /\ \A j, k \in DOMAIN found : j # k => found[j].content # found[k].content

\* upsert of what a scan found: in the order of the scan, one lock, one commit.
Upsert(i) ==
    LET found == scan[i].found
        written == Written(found, Entries)
        merged == Put(Entries, Latest(found, written))
        kept == Bound(merged)
        changed == written # {}
        evicts == kept # merged
        valid == Prepares({EntryOf(found[k]) : k \in DOMAIN found})
    IN  /\ scan[i].at = "scanned"
        /\ scan' = [scan EXCEPT ![i] = NoScan]
        /\ IF valid /\ (changed \/ evicts)
           THEN Commit(kept) ELSE UNCHANGED <<index, restarted>>
        /\ lastFound' = IF valid THEN found ELSE lastFound
        /\ faults' = IF valid /\ Rescan(found) /\ changed /\ ~evicts THEN faults \cup {"churn"} ELSE faults
        /\ UNCHANGED <<tree, model, indexing, walk, labelling, happened>>

\* reindex: the whole index is replaced, whatever it was.
Reindex(i) ==
    LET found == scan[i].found
    IN  /\ scan[i].at = "scanned" /\ Prepares({EntryOf(found[k]) : k \in DOMAIN found})
        /\ scan' = [scan EXCEPT ![i] = NoScan]
        /\ Commit(Bound(Latest(found, DOMAIN found)))
        /\ lastFound' = <<>>
        /\ UNCHANGED <<tree, model, indexing, walk, labelling, faults, happened>>

\* delete, without an expected revision.
Delete(id) ==
    /\ Happens /\ \E e \in Entries : e.id = id
    /\ Commit({e \in Entries : e.id # id}) /\ lastFound' = <<>>
    /\ UNCHANGED <<tree, scan, model, indexing, walk, labelling, faults>>

\* The file is cut short, or an entry of it is spoilt.
Damage(state) ==
    /\ Happens /\ index.state = "good" /\ index.revision > 0
    /\ index' = [index EXCEPT !.state = state] /\ lastFound' = <<>>
    /\ UNCHANGED <<tree, scan, model, indexing, walk, labelling, restarted, faults>>

\* Another embedding model is deployed.
ModelChanges ==
    /\ Happens /\ model = 1 /\ \A i \in Indexers : scan[i].at = "idle"
    /\ model' = 2 /\ lastFound' = <<>>
    /\ UNCHANGED <<tree, scan, index, indexing, walk, labelling, restarted, faults>>

\* indexing_started, indexing_finished.
SetIndexing ==
    /\ Happens /\ indexing' = ~indexing
    /\ UNCHANGED <<tree, scan, index, model, walk, labelling, restarted, lastFound, faults>>

-----------------------------------------------------------------------------
(* Reads and labels.                                                         *)

\* _state_of.
ResultState ==
    CASE Health = "incompatible" -> "stale"
      [] Health = "recovered" -> "recovering"
      [] Health = "intact" /\ indexing -> "indexing"
      [] OTHER -> "ready"

\* search ranks by similarity, browse by time; ties go by id.
Ranks(query, a, b) ==
    IF query = "search"
    THEN ScoreOf[a.id] > ScoreOf[b.id] \/ (ScoreOf[a.id] = ScoreOf[b.id] /\ a.id < b.id)
    ELSE Before(a, b)
Matching(query, entries) == IF query = "similar" THEN {e \in entries : e.id # 1} ELSE entries

\* Each place of the ranking has the entry with so many before it.
Ranked(query, entries) ==
    LET matching == Matching(query, entries)
        At(k) == CHOOSE e \in matching : Cardinality({x \in matching : Ranks(query, x, e)}) = k - 1
    IN  [k \in 1 .. Cardinality(matching) |-> At(k).id]

\* Mutant: a cursor is good for any revision.
CursorHoldsAnyRevision(w) == TRUE

\* decode_cursor: the query is the one the cursor carries, the revision must be.
CursorHolds(w) == w.revision = Revision

\* _page: a window of the ranking, and a cursor when there is more.
Paged(w) ==
    LET ranked == Ranked(w.query, Entries)
        n == Len(w.shown)
        shown == w.shown \o SubSeq(ranked, n + 1, Min({n + PageSize, Len(ranked)}))
    IN  [at |-> IF Len(shown) < Len(ranked) THEN "paging" ELSE "done", query |-> w.query,
         revision |-> w.revision, shown |-> shown, list |-> w.list, life |-> w.life]

\* search, browse and similar_to without a cursor.
Query(query) ==
    /\ Happens /\ walk.at = "idle" /\ ResultState = "ready"
    /\ query = "similar" => \E e \in Entries : e.id = 1
    /\ walk' = Paged([at |-> "idle", query |-> query, revision |-> Revision, shown |-> <<>>,
                      list |-> Ranked(query, Entries), life |-> restarted])
    /\ UNCHANGED <<tree, scan, index, model, indexing, labelling, restarted, lastFound, faults>>

\* The next page, an explicit state, or a refused cursor.
NextPage ==
    /\ walk.at = "paging"
    /\ walk' = IF ResultState = "ready" /\ CursorHolds(walk) THEN Paged(walk) ELSE NoWalk
    /\ UNCHANGED <<tree, scan, index, model, indexing, labelling, restarted, lastFound, faults, happened>>

StopReading ==
    /\ walk.at = "done" /\ walk' = NoWalk
    /\ UNCHANGED <<tree, scan, index, model, indexing, labelling, restarted, lastFound, faults, happened>>

\* assign_tags reads the entry ...
LabelReads(id) ==
    /\ Happens /\ labelling.at = "idle"
    /\ \E e \in Entries :
          /\ e.id = id
          /\ labelling' = [at |-> "read", id |-> id, revision |-> Revision, read |-> <<e>>, life |-> restarted]
    /\ UNCHANGED <<tree, scan, index, model, indexing, walk, restarted, lastFound, faults>>

\* _check_revision.
RevisionHolds == labelling.revision = Revision

\* ... and upserts it as it was read, but for its labels.
LabelWrites(labels) ==
    LET entry == [labelling.read[1] EXCEPT !.labels = labels]
        stale == labelling.read[1] \notin index.entries /\ labelling.life = restarted
    IN  /\ labelling.at = "read" /\ labelling' = NoLabelling
        /\ IF Prepares({entry}) /\ RevisionHolds /\ ~Stored(entry, Entries)
           THEN /\ Commit(Bound(Put(Entries, {entry}))) /\ lastFound' = <<>>
                /\ faults' = IF stale THEN faults \cup {"stale label"} ELSE faults
           ELSE UNCHANGED <<index, restarted, lastFound, faults>>
        /\ UNCHANGED <<tree, scan, model, indexing, walk, happened>>

-----------------------------------------------------------------------------
Init ==
    /\ tree = [p \in Range(Paths) |-> [content |-> FirstContent[p], age |-> 0]]
    /\ scan = [i \in Indexers |-> NoScan]
    /\ index = [state |-> "good", revision |-> 0, model |-> 1, entries |-> {}]
    /\ model = 1 /\ indexing = FALSE
    /\ walk = NoWalk /\ labelling = NoLabelling
    /\ restarted = 0 /\ lastFound = <<>> /\ faults = {} /\ happened = 0

Next ==
    \/ \E p \in Range(Paths), c \in Edited : Edit(p, c)
    \/ \E i \in Indexers : BeginScan(i) \/ ScanStep(i) \/ JudgeStep(i) \/ Upsert(i) \/ Reindex(i)
    \/ \E id \in Contents : Delete(id) \/ LabelReads(id)
    \/ \E state \in {"unreadable", "bad-entry"} : Damage(state)
    \/ ModelChanges \/ SetIndexing
    \/ \E query \in {"search", "browse", "similar"} : Query(query)
    \/ NextPage \/ StopReading
    \/ \E labels \in Labels : LabelWrites(labels)

-----------------------------------------------------------------------------
\* What was read holds when it is used (decode_cursor, _check_revision, upsert):
\* whatever scans, rebuilds, deletions and damage happen between two pages, the
\* pages of one query are consecutive parts of one ranking; labels are put on
\* the entry they were chosen for; and a rescan of an unchanged tree of
\* different files that fit writes nothing. (A file that cannot be read makes
\* the revision begin anew: pages of two lives of the index are not compared.)
ReadsHold ==
    /\ walk.at # "idle" /\ walk.life = restarted => walk.shown = SubSeq(walk.list, 1, Len(walk.shown))
    /\ faults = {}

Spec == Init /\ [][Next]_libraryVars

=============================================================================
