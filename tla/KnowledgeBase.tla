---------------------------- MODULE KnowledgeBase ----------------------------
(***************************************************************************)
(* One knowledge base of rk_rag.py: the SQLite file that its "index" runs  *)
(* write and its "search" and "list" runs read, each run a process of its  *)
(* own.  SQLite is in WAL mode: a reader sees what was committed when its  *)
(* statement began, and one process at a time holds the write lock.        *)
(*                                                                         *)
(* A vector is what it was made from: the index of a chunk and a model.    *)
(* The scores are left open: a search recalls any of the rows it compares. *)
(***************************************************************************)
EXTENDS MarkdownChunks

CONSTANTS
    None,      \* no text, no preview, no transaction
    Paths,     \* the markdown files
    Texts,     \* bound: what users write into them
    Models,    \* the embedding models
    Model,     \* the embedding model each run is started with
    Dim,       \* the dimension of a model's vectors
    TopK,      \* --topk
    Indexers,  \* bound: the index runs at one time
    Readers    \* bound: the search and list runs at one time

ASSUME KnowledgeAssumption ==
    /\ TopK \in Nat \ {0} /\ None \notin Texts \cup Paths
    /\ Dim \in [Models -> Nat]
    /\ Model \in [Indexers \cup Readers -> Models]
    /\ \A text \in Texts : Document(text)

VARIABLES
    preview,  \* <db>.chunks.md: the document it shows
    db,       \* what is committed: how far its schema is, its documents and chunks
    tx,       \* the open write transaction: its owner and its documents and chunks
    job,      \* where each index run is
    view      \* where each search or list run is and what it has read

vars == <<preview, db, tx, job, view>>

\* The chunks of what can be in a file.
Parts == [text \in Texts |-> Chunks(text)]

\* What the statements of ensure_schema make, in their order; the first is a pragma.
\* db.schema is how many of these there are.
Schema == <<"file", "documents", "chunks", "index">>
HasDocuments == db.schema >= 2
HasChunks == db.schema >= 3

Row == [path : Paths, index : Nat, text : Texts, vec : Nat, model : Models]
Documents == [Paths -> Texts \cup {None}]
Transaction == [by : Indexers, docs : Documents, rows : SUBSET Row]

\* Having no transaction open is none.
ASSUME TransactionAssumption == None \notin Transaction

NoJob == [pc |-> "idle", path |-> None, text |-> None, vecs |-> << >>]
NoView == [pc |-> "idle", docs |-> 0, chunks |-> 0, rows |-> {}]

TypeOK ==
    /\ preview \in Paths \cup {None}
    /\ db.schema \in 0 .. Len(Schema)
    /\ \A t \in {db} \cup ({tx} \ {None}) :
        /\ t.docs \in [Paths -> Texts \cup {None}]
        /\ \A row \in t.rows :
            row.path \in Paths /\ row.text \in Texts /\ row.index \in DOMAIN Parts[row.text]
    /\ tx # None => job[tx.by].pc \in {"delete", "insert", "commit"} /\ db.schema = Len(Schema)
    /\ \A j \in Indexers : job[j].vecs # << >> => Len(job[j].vecs) <= Len(Parts[job[j].text])
    /\ \A r \in Readers : Cardinality(view[r].rows) <= TopK

Init ==
    /\ preview = None
    /\ db = [schema |-> 0, docs |-> [p \in Paths |-> None], rows |-> {}]
    /\ tx = None
    /\ job = [j \in Indexers |-> NoJob] /\ view = [r \in Readers |-> NoView]

-----------------------------------------------------------------------------
(* build_index                                                             *)

At(j, pc) == job[j].pc = pc
Go(j, pc) == job' = [job EXCEPT ![j].pc = pc]

\* load_single_markdown, of what the file holds by then, and build_chunks; a file
\* of headings only has no chunks, and the run ends.
StartIndex(j, p, text) ==
    /\ At(j, "idle")
    /\ Parts[text] # << >>
    /\ job' = [job EXCEPT ![j] = [pc |-> "preview", path |-> p, text |-> text, vecs |-> << >>]]
    /\ UNCHANGED <<preview, db, tx, view>>

\* write_chunks_markdown: every document of the base has the same preview.
WritePreview(j) ==
    /\ At(j, "preview")
    /\ preview' = job[j].path
    /\ Go(j, Schema[1])
    /\ UNCHANGED <<db, tx, view>>

\* Statement n of ensure_schema, committed by itself.  It makes what is missing; a run
\* that finds it there needs no lock, and none is writing as long as it is missing.
EnsureSchema(j, n) ==
    /\ At(j, Schema[n])
    /\ db' = [db EXCEPT !.schema = IF @ < n THEN n ELSE @]
    /\ Go(j, IF n = Len(Schema) THEN "embed" ELSE Schema[n + 1])
    /\ UNCHANGED <<preview, tx, view>>

\* embed_batch with one chunk; it returns the vector of that chunk.
Embed(j) ==
    /\ At(j, "embed")
    /\ LET n == Len(job[j].vecs) + 1
       IN  job' = [job EXCEPT ![j].vecs = Append(@, n),
                              ![j].pc = IF n = Len(Parts[job[j].text]) THEN "upsert" ELSE @]
    /\ UNCHANGED <<preview, db, tx, view>>

\* Mutant of UpsertDocument: the row of the document is committed by itself.
UpsertAlone(j) ==
    /\ At(j, "upsert") /\ tx = None
    /\ db' = [db EXCEPT !.docs[job[j].path] = job[j].text]
    /\ tx' = [by |-> j, docs |-> db'.docs, rows |-> db.rows]
    /\ Go(j, "delete")
    /\ UNCHANGED <<preview, view>>

\* upsert_document: its INSERT begins the transaction, once the lock is free.
UpsertDocument(j) ==
    /\ At(j, "upsert") /\ tx = None
    /\ tx' = [by |-> j, docs |-> [db.docs EXCEPT ![job[j].path] = job[j].text], rows |-> db.rows]
    /\ Go(j, "delete")
    /\ UNCHANGED <<preview, db, view>>

\* replace_document_chunks: the rows of the document are deleted ...
DeleteChunks(j) ==
    /\ At(j, "delete")
    /\ tx' = [tx EXCEPT !.rows = {row \in @ : row.path # job[j].path}]
    /\ Go(j, "insert")
    /\ UNCHANGED <<preview, db, view>>

\* ... and the new ones inserted, each with its vector.
InsertChunks(j) ==
    /\ At(j, "insert")
    /\ tx' = [tx EXCEPT !.rows = @ \cup
                {[path |-> job[j].path, index |-> n, text |-> job[j].text, vec |-> job[j].vecs[n],
                  model |-> Model[j]] : n \in DOMAIN job[j].vecs}]
    /\ Go(j, "commit")
    /\ UNCHANGED <<preview, db, view>>

Commit(j) ==
    /\ At(j, "commit")
    /\ db' = [db EXCEPT !.docs = tx.docs, !.rows = tx.rows]
    /\ tx' = None
    /\ job' = [job EXCEPT ![j] = NoJob]
    /\ UNCHANGED <<preview, view>>

\* Mutant of Abort: an error leaves the transaction open.
AbortInTransaction(j) ==
    /\ ~At(j, "idle")
    /\ job' = [job EXCEPT ![j] = NoJob]
    /\ UNCHANGED <<preview, db, tx, view>>

\* The hub fails, the lock is not had in time, or the process is killed: the
\* connection is closed, or lost, and what it has not committed with it.
Abort(j) ==
    /\ ~At(j, "idle")
    /\ job' = [job EXCEPT ![j] = NoJob]
    /\ tx' = IF tx # None /\ tx.by = j THEN None ELSE tx
    /\ UNCHANGED <<preview, db, view>>

-----------------------------------------------------------------------------
(* search_topk                                                             *)

See(r, v) == view' = [view EXCEPT ![r] = v] /\ UNCHANGED <<preview, db, tx, job>>

\* The base must exist; the query is then embedded.
StartSearch(r) ==
    /\ view[r].pc = "idle" /\ db.schema > 0
    /\ See(r, [NoView EXCEPT !.pc = "search"])

\* Mutant of Comparable: vectors of any length are compared.
ComparableAny(rows, model) == rows

Comparable(rows, model) == {row \in rows : Dim[row.model] = Dim[model]}

\* One SELECT; then the rows whose vectors are as long as the query's, and the
\* best of them.  No table, no row or no comparable row ends the run.
ReadChunks(r) ==
    /\ view[r].pc = "search"
    /\ LET kept == Comparable(db.rows, Model[r])
           best == Min({TopK, Cardinality(kept)})
       IN  IF HasChunks /\ kept # {}
           THEN \E recall \in kSubset(best, kept) :
                    See(r, [view[r] EXCEPT !.pc = "answer", !.rows = recall])
           ELSE See(r, NoView)

\* _forward_to_server_and_send_qq, and its early returns: whether or not there
\* is an answer and it is sent, the run ends with 0.
Answer(r) == view[r].pc = "answer" /\ See(r, NoView)

-----------------------------------------------------------------------------
(* list_databases                                                          *)

\* COUNT(1) FROM documents; a base without the table is shown with 0 and 0.
CountDocuments(r) ==
    /\ view[r].pc = "idle" /\ HasDocuments
    /\ See(r, [NoView EXCEPT !.pc = "count", !.docs = Cardinality({p \in Paths : db.docs[p] # None})])

\* COUNT(1) FROM chunks; without that table, too, 0 and 0 are shown.
CountChunks(r) ==
    /\ view[r].pc = "count"
    /\ See(r, IF HasChunks THEN [view[r] EXCEPT !.pc = "list", !.chunks = Cardinality(db.rows)]
              ELSE NoView)

\* SELECT path FROM documents, and the listing is printed.
ListPaths(r) == view[r].pc = "list" /\ See(r, NoView)

Next ==
    \/ \E j \in Indexers :
        \/ \E p \in Paths, text \in Texts : StartIndex(j, p, text)
        \/ WritePreview(j) \/ Embed(j) \/ \E n \in DOMAIN Schema : EnsureSchema(j, n)
        \/ UpsertDocument(j) \/ DeleteChunks(j) \/ InsertChunks(j) \/ Commit(j) \/ Abort(j)
    \/ \E r \in Readers :
        \/ StartSearch(r) \/ ReadChunks(r) \/ Answer(r) \/ CountDocuments(r) \/ CountChunks(r) \/ ListPaths(r)

Spec == Init /\ [][Next]_vars

-----------------------------------------------------------------------------
(* Properties                                                              *)

\* What is committed of a document is whole: its chunks are all those of the text
\* its hash stands for, each with the vector of its own text, all by one model,
\* whatever other runs do and wherever a run was killed.
DocWhole ==
    \A p \in Paths :
        LET rows == {row \in db.rows : row.path = p}
        IN  IF db.docs[p] = None THEN rows = {}
            ELSE \E m \in Models :
                    rows = {[path |-> p, index |-> n, text |-> db.docs[p], vec |-> n, model |-> m]
                                : n \in DOMAIN Parts[db.docs[p]]}

\* What a reader shows fits together, though the base has moved on since: the
\* chunks it recalls are of one text per document and comparable to the query,
\* and a list shows at least as many chunks as documents.
ViewsConsistent ==
    \A r \in Readers :
        /\ \A a, b \in view[r].rows :
            /\ a.path = b.path => a.text = b.text
            /\ Dim[a.model] = Dim[Model[r]]
        /\ view[r].pc = "list" => view[r].chunks >= view[r].docs

\* Nothing of the document that an index run is given next is left out of the index,
\* whichever of the samples it is, and its chunks are numbered in its order.
BlocksCovered == \A j \in Indexers : At(j, "idle") => SamplesCovered

\* Every chunk of that document is prefixed by the headings that are in force where
\* it begins, and by no others.
PathInForce == \A j \in Indexers : At(j, "idle") => SamplesInForce
=============================================================================
