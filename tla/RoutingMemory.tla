---------------------------- MODULE RoutingMemory ----------------------------
(***************************************************************************)
(* The routing memory of the plugin: MemoryBank (memory.ts) and those who  *)
(* call it - a feedback given in the dashboard, which is stored in the     *)
(* background, the dashboard's label and delete, a model directive, the    *)
(* memory router - and the reload of the configuration, which closes the   *)
(* bank and opens another one on the same file.                            *)
(*                                                                         *)
(* All of it runs on one event loop: an action is what runs between two    *)
(* awaits.  An item's model follows from its tier here, and there is one   *)
(* user.  A feedback carries the strategy of its request - the reason the  *)
(* request was routed by, or none when the router was disabled - and looks *)
(* for items of that strategy only.  The similarity search finds the items *)
(* of a query itself, which are fewer than the eighty it looks at; what    *)
(* else it finds is not used by these callers.                             *)
(***************************************************************************)
EXTENDS Integers, Sequences, FiniteSets

CONSTANTS
    None,      \* nothing found, no dimension yet, no strategy
    Queries,   \* the normalized prompts
    Strategies, \* what requests are routed by
    Tiers,     \* LOCAL and CLOUD
    Calls,     \* bound: the calls in progress at one time
    MaxId,     \* bound: the items ever inserted
    MaxBanks,  \* bound: the configuration is reloaded MaxBanks - 1 times
    Dim        \* the width of the embeddings under each of the configurations

ASSUME MemoryAssumption ==
    /\ MaxId \in Nat \ {0} /\ MaxBanks \in Nat \ {0} /\ None \notin Nat \cup Strategies
    /\ Dim \in [1 .. MaxBanks -> Nat] /\ IsFiniteSet(Calls)

VARIABLES
    db,           \* memory_items, memory_vectors, vector_dim, the next id
    bank,         \* the bank that was opened last; the earlier ones are closed
    memory,       \* is that bank open, was none opened, or has a reload closed it
    storage,      \* the dashboard's database: open, another file's, or closed
    queue,        \* of each bank: the calls that wait for their turn, or have it
    serialDepth,  \* of each bank
    call,         \* the calls in progress
    status,       \* feedback_embedding_status of each request: is it pending?
    overlap       \* history: two calls were once in progress that interfere

vars == <<db, bank, memory, storage, queue, serialDepth, call, status, overlap>>

Banks == 1 .. MaxBanks
Ids == 1 .. MaxId
Reasons == Strategies \cup {None}

NoCall ==
    [pc |-> "idle", kind |-> "none", query |-> None, strategy |-> None, tier |-> None, id |-> None,
     bank |-> 1, op |-> "none", turn |-> "none"]

Item == [query : Queries, strategy : Reasons, tier : Tiers, by : {"feedback", "directive"}]

TypeOK ==
    /\ db.next \in 1 .. MaxId + 1 /\ DOMAIN db.items \subseteq 1 .. db.next - 1
    /\ \A id \in DOMAIN db.items : db.items[id] \in Item
    /\ bank \in Banks /\ serialDepth \in [Banks -> 0 .. 1]
    /\ \A b \in Banks : queue[b] \in Seq(Calls) /\ Len(queue[b]) <= Cardinality(Calls)
    /\ \A c \in Calls :
        /\ call[c].pc \in {"idle", "queued", "embed", "decide", "missed", "stored", "null", "failed"}
        /\ call[c].kind \in {"none", "feedback", "label", "delete", "directive", "retrieve"}
        /\ call[c].id \in Ids \cup {None} /\ call[c].turn \in {"none", "op", "body"}
    /\ memory \in {"on", "off", "closed"} /\ storage \in {"open", "away", "closed"}
    /\ status \in [Queries \X Reasons -> {"pending", "settled"}]

Init ==
    /\ db = [items |-> << >>, vectors |-> << >>, dim |-> None, next |-> 1]
    /\ bank = 1 /\ memory \in {"on", "off"} /\ storage = "open"
    /\ queue = [b \in Banks |-> << >>] /\ serialDepth = [b \in Banks |-> 0]
    /\ call = [c \in Calls |-> NoCall]
    /\ status = [request \in Queries \X Reasons |-> "settled"] /\ overlap = FALSE

-----------------------------------------------------------------------------
(* The operations: what each does to the database and to its call r.  They *)
(* do not await; an error rolls back what it has written.                  *)

Without(f, id) == [k \in DOMAIN f \ {id} |-> f[k]]
With(f, id, value) == [k \in DOMAIN f \cup {id} |-> IF k = id THEN value ELSE f[k]]

Result(d, r, pc) == [db |-> d, call |-> [r EXCEPT !.pc = pc, !.op = "none"]]

\* search, and the exact match recordFeedback looks for in its result: of several
\* whose embedding is the same, the database returns any first.  A store of another
\* width is not searched.
Search(d, r) ==
    LET same == IF d.dim # Dim[r.bank] THEN {}
                ELSE {id \in DOMAIN d.items :
                        /\ d.items[id].query = r.query
                        /\ r.strategy # None => d.items[id].strategy = r.strategy}
    IN  Result(d, [r EXCEPT !.id = IF same = {} THEN None ELSE CHOOSE id \in same : TRUE], "decide")

\* The item and the vector of r are given its tier, and the item its strategy, when
\* that is among the updates: a label changes the tier alone.
Updated(d, r) ==
    LET item == [d.items[r.id] EXCEPT !.tier = r.tier,
                    !.strategy = IF r.kind = "feedback" THEN r.strategy ELSE @]
    IN  [d EXCEPT !.items[r.id] = item, !.vectors[r.id].tier = r.tier]

\* Mutant of Update: the item is taken to be still there.
UpdateFound(d, r) ==
    Result(IF r.id \in DOMAIN d.items THEN Updated(d, r) ELSE d, r, "stored")

\* updateItem, and its mirror in memory_vectors
Update(d, r) ==
    IF r.id \in DOMAIN d.items THEN Result(Updated(d, r), r, "stored")
    ELSE Result(d, r, "missed")

\* add: ensureVectorTable refuses another width than the store's; then the item
\* and its vector, under the same id.
Add(d, r) ==
    LET dim == Dim[r.bank]
        item == [query |-> r.query, strategy |-> r.strategy, tier |-> r.tier,
                 by |-> IF r.kind = "feedback" THEN "feedback" ELSE "directive"]
    IN  IF d.dim \notin {None, dim} THEN Result(d, r, "failed")
        ELSE Result([items |-> With(d.items, d.next, item),
                     vectors |-> With(d.vectors, d.next, [tier |-> r.tier, dim |-> dim]),
                     dim |-> dim, next |-> d.next + 1],
                    [r EXCEPT !.id = d.next], "stored")

\* Mutant of Delete: the vector is left.
DeleteItem(d, r) == Result([d EXCEPT !.items = Without(@, r.id)], r, "stored")

\* delete
Delete(d, r) ==
    Result([d EXCEPT !.items = Without(@, r.id), !.vectors = Without(@, r.id)], r, "stored")

\* The bank r was made on is open.
Open(r) == r.bank = bank /\ memory = "on"

\* What runs under runSerialized.  A closed database throws.
Effect(d, r, op) ==
    CASE op = "feedback" -> Result(d, r, "embed")
      [] op # "feedback" /\ ~Open(r) -> Result(d, r, "failed")
      [] op = "update" /\ Open(r) -> Update(d, r)
      [] op = "add"    /\ Open(r) -> Add(d, r)
      [] op = "delete" /\ Open(r) -> Delete(d, r)
      [] OTHER -> Search(d, r)

-----------------------------------------------------------------------------
(* runSerialized                                                           *)

\* Mutant of RunSerialized: every call waits for its turn.
RunQueued(c, r, op) ==
    /\ call' = [call EXCEPT ![c] = [r EXCEPT !.pc = "queued", !.op = op]]
    /\ queue' = [queue EXCEPT ![r.bank] = Append(@, c)]
    /\ UNCHANGED db

\* While a turn is on, whoever calls runs at once, be it nested in that turn or
\* not; else the call is put in the queue.
RunSerialized(c, r, op) ==
    IF serialDepth[r.bank] > 0
    THEN /\ db' = Effect(db, r, op).db
         /\ call' = [call EXCEPT ![c] = Effect(db, r, op).call]
         /\ UNCHANGED queue
    ELSE /\ call' = [call EXCEPT ![c] = [r EXCEPT !.pc = "queued", !.op = op]]
         /\ queue' = [queue EXCEPT ![r.bank] = Append(@, c)]
         /\ UNCHANGED db

\* The first in the queue gets its turn, when the one before it has ended.
StartTurn(b) ==
    /\ queue[b] # << >> /\ call[Head(queue[b])].turn = "none"
    /\ LET c == Head(queue[b])
           result == Effect(db, call[c], call[c].op)
       IN  /\ db' = result.db
           /\ call' = [call EXCEPT ![c] =
                [result.call EXCEPT !.turn = IF call[c].op = "feedback" THEN "body" ELSE "op"]]
    /\ serialDepth' = [serialDepth EXCEPT ![b] = @ + 1]
    /\ UNCHANGED <<bank, memory, storage, queue, status, overlap>>

Finished(r) == r.pc \in {"stored", "null", "failed"}

\* Mutant of EndTurn: the depth is not reset when the function has thrown.
EndTurnForgets(c) ==
    /\ call[c].turn # "none" /\ (call[c].turn = "body" => Finished(call[c]))
    /\ call' = [call EXCEPT ![c].turn = "none"]
    /\ serialDepth' = [serialDepth EXCEPT ![call[c].bank] = IF call[c].pc = "failed" THEN @ ELSE @ - 1]
    /\ queue' = [queue EXCEPT ![call[c].bank] = Tail(@)]
    /\ UNCHANGED <<db, bank, memory, storage, status, overlap>>

\* The turn of the first in the queue is over, its function having returned or thrown.
EndTurn(c) ==
    /\ queue[call[c].bank] # << >> /\ c = Head(queue[call[c].bank])
    /\ call[c].turn # "none" /\ (call[c].turn = "body" => Finished(call[c]))
    /\ call' = [call EXCEPT ![c].turn = "none"]
    /\ serialDepth' = [serialDepth EXCEPT ![call[c].bank] = @ - 1]
    /\ queue' = [queue EXCEPT ![call[c].bank] = Tail(@)]
    /\ UNCHANGED <<db, bank, memory, storage, status, overlap>>

-----------------------------------------------------------------------------
(* The callers                                                             *)

New(kind, q, s, t, id) ==
    [NoCall EXCEPT !.kind = kind, !.query = q, !.strategy = s, !.tier = t, !.id = id, !.bank = bank]

\* The bound on the items is a bound on the calls that may insert.
MayInsert ==
    db.next + Cardinality({c \in Calls : call[c].kind \in {"feedback", "directive"}}) <= MaxId

\* Two feedbacks of a prompt and a strategy, or a feedback and a delete.
Interfere(r, s) ==
    \/ {r.kind, s.kind} = {"feedback", "delete"}
    \/ /\ r.kind = "feedback" /\ s.kind = "feedback"
       /\ r.query = s.query /\ r.strategy = s.strategy

Overlaps(r) == overlap \/ \E c \in Calls : Interfere(r, call[c])

\* POST /dashboard/api/feedback: setFeedback, and recordFeedback in the background.
Feedback(c, q, s, t) ==
    LET r == New("feedback", q, s, t, None)
    IN  /\ call[c].pc = "idle" /\ MayInsert /\ storage = "open" /\ memory = "on"
        /\ status' = [status EXCEPT ![<<q, s>>] = "pending"]
        /\ RunSerialized(c, r, "feedback")
        /\ overlap' = Overlaps(r)
        /\ UNCHANGED <<bank, memory, storage, serialDepth>>

\* The same without a memory: "disabled".
FeedbackOnly(q, s) ==
    /\ storage = "open" /\ memory = "off"
    /\ status' = [status EXCEPT ![<<q, s>>] = "settled"]
    /\ UNCHANGED <<db, bank, memory, storage, queue, serialDepth, call, overlap>>

\* The dashboard's label and delete, of an item it has listed.
Relabel(c, id, t) ==
    /\ call[c].pc = "idle" /\ id < db.next /\ memory # "off"
    /\ RunSerialized(c, New("label", None, None, t, id), "update")
    /\ UNCHANGED <<bank, memory, storage, serialDepth, status, overlap>>

Remove(c, id) ==
    LET r == New("delete", None, None, None, id)
    IN  /\ call[c].pc = "idle" /\ id < db.next /\ memory # "off"
        /\ RunSerialized(c, r, "delete")
        /\ overlap' = Overlaps(r)
        /\ UNCHANGED <<bank, memory, storage, serialDepth, status>>

\* recordDirectiveToMemory: add embeds the query before it is serialized.
Directive(c, q, s, t) ==
    /\ call[c].pc = "idle" /\ MayInsert /\ memory # "off"
    /\ call' = [call EXCEPT ![c] = [New("directive", q, s, t, None) EXCEPT !.pc = "embed"]]
    /\ UNCHANGED <<db, bank, memory, storage, queue, serialDepth, status, overlap>>

\* The memory router, which has the embedding already and asks for every strategy.
Retrieve(c, q) ==
    /\ call[c].pc = "idle" /\ memory # "off"
    /\ RunSerialized(c, New("retrieve", q, None, None, None), "search")
    /\ UNCHANGED <<bank, memory, storage, serialDepth, status, overlap>>

\* The embedding arrives: recordFeedback searches, add inserts.
Embedded(c) ==
    /\ call[c].pc = "embed"
    /\ RunSerialized(c, call[c], IF call[c].kind = "feedback" THEN "search" ELSE "add")
    /\ UNCHANGED <<bank, memory, storage, serialDepth, status, overlap>>

\* It fails or times out: computeEmbedding returns [], and the call null.
NotEmbedded(c) ==
    /\ call[c].pc = "embed"
    /\ call' = [call EXCEPT ![c].pc = "null"]
    /\ UNCHANGED <<db, bank, memory, storage, queue, serialDepth, status, overlap>>

\* Mutant of Operation: a feedback is always inserted.
OperationAdd(r) == "add"

\* What recordFeedback does about the result of its search.
Operation(r) == IF r.id # None THEN "update" ELSE "add"

Decide(c) ==
    /\ call[c].pc = "decide" /\ call[c].kind = "feedback" /\ call[c].turn # "op"
    /\ RunSerialized(c, call[c], Operation(call[c]))
    /\ UNCHANGED <<bank, memory, storage, serialDepth, status, overlap>>

\* The item was deleted since it was found, and is inserted.
AddInstead(c) ==
    /\ call[c].pc = "missed" /\ call[c].kind = "feedback" /\ call[c].turn # "op"
    /\ RunSerialized(c, call[c], "add")
    /\ UNCHANGED <<bank, memory, storage, serialDepth, status, overlap>>

\* The caller has its answer.  That of a feedback, even null, makes it "ready", and
\* an error "failed", where the dashboard's database is still the one it is in; a
\* closed one throws, and so does another one, which does not know the request.
Return(c) ==
    /\ call[c].turn = "none"
    /\ \/ Finished(call[c])
       \/ call[c].kind \in {"label", "retrieve"} /\ call[c].pc \in {"missed", "decide"}
    /\ status' = IF call[c].kind # "feedback" \/ storage # "open" THEN status
                 ELSE [status EXCEPT ![<<call[c].query, call[c].strategy>>] = "settled"]
    /\ call' = [call EXCEPT ![c] = NoCall]
    /\ UNCHANGED <<db, bank, memory, storage, queue, serialDepth, overlap>>

\* onConfigReload: the bank and the dashboard's database are closed, and what the
\* configuration asks for is opened; the last to be opened is the dashboard's, and
\* its constructor may throw.
Reload ==
    /\ storage # "closed" /\ bank < MaxBanks
    /\ bank' = bank + 1 /\ memory' \in {"on", "off"} /\ storage' \in {"open", "away", "closed"}
    /\ UNCHANGED <<db, queue, serialDepth, call, status, overlap>>

\* It throws before a new bank is opened: the configuration or the bank's database
\* cannot be read, or the dashboard's is closed already, after an earlier failure.
ReloadFails ==
    /\ memory' = IF memory = "on" THEN "closed" ELSE memory
    /\ storage' = "closed"
    /\ UNCHANGED <<db, bank, queue, serialDepth, call, status, overlap>>

Step(c) ==
    EndTurn(c) \/ Embedded(c) \/ NotEmbedded(c) \/ Decide(c) \/ AddInstead(c) \/ Return(c)

Next ==
    \/ \E c \in Calls :
        \/ \E q \in Queries, s \in Reasons, t \in Tiers : Feedback(c, q, s, t)
        \/ \E q \in Queries, s \in Strategies, t \in Tiers : Directive(c, q, s, t)
        \/ \E id \in Ids, t \in Tiers : Relabel(c, id, t)
        \/ \E id \in Ids : Remove(c, id)
        \/ \E q \in Queries : Retrieve(c, q)
        \/ Step(c)
    \/ \E q \in Queries, s \in Reasons : FeedbackOnly(q, s)
    \/ \E b \in Banks : StartTurn(b)
    \/ Reload \/ ReloadFails

\* The event loop runs what can run, and an embedding ends by its timeout.
Spec ==
    /\ Init /\ [][Next]_vars
    /\ \A c \in Calls : WF_vars(Step(c))
    /\ \A b \in Banks : WF_vars(StartTurn(b))

-----------------------------------------------------------------------------
(* Properties                                                              *)

\* Each item has its vector, with its tier, and all vectors have the width the
\* store has on record, through deletes, failed inserts and reloads.
RowsPaired ==
    /\ DOMAIN db.items = DOMAIN db.vectors
    /\ \A id \in DOMAIN db.items :
        db.vectors[id] = [tier |-> db.items[id].tier, dim |-> db.dim]

\* A feedback that comes to an item has stored its tier and strategy there, under
\* its query, also when the item it had found was deleted meanwhile.
FeedbackStored ==
    [][\A c \in Calls :
        (call[c].kind = "feedback" /\ call'[c].pc = "stored" /\ call[c].pc # "stored")
            => /\ call'[c].id \in DOMAIN db'.items
               /\ db'.items[call'[c].id].query = call[c].query
               /\ db'.items[call'[c].id].strategy = call[c].strategy
               /\ db'.items[call'[c].id].tier = call[c].tier]_vars

\* As long as no two feedbacks of one prompt and strategy, and no feedback and a
\* delete, were in progress together, the feedbacks of a prompt and a strategy have
\* inserted one item at most, although they give way to others between their search
\* and their insertion.  (Feedbacks of one prompt whose requests were routed by
\* different reasons, or by none, have items of their own.)
OneSlot ==
    ~overlap => \A x, y \in DOMAIN db.items :
        /\ db.items[x].by = "feedback" /\ db.items[y].by = "feedback"
        /\ db.items[x].query = db.items[y].query
        /\ db.items[x].strategy = db.items[y].strategy /\ db.items[x].strategy # None
        => x = y

InProgress(request) ==
    \E c \in Calls : call[c].kind = "feedback" /\ <<call[c].query, call[c].strategy>> = request

\* A feedback in progress does not leave its request pending for ever, unless the
\* dashboard's database is closed or replaced meanwhile: no call waits for itself, or
\* for a call that has failed or whose bank was closed.
FeedbackEnds ==
    \A request \in Queries \X Reasons :
        status[request] = "pending" /\ InProgress(request)
            ~> status[request] # "pending" \/ storage # "open"
=============================================================================
