------------------------- MODULE RoutingMemoryProofs -------------------------
(***************************************************************************)
(* The routing memory, for any number of calls, prompts, reloads and       *)
(* embedding widths, and in every interleaving: the rows stay paired, a    *)
(* feedback stores what it was given, the feedbacks of a prompt and a      *)
(* strategy share one slot, and the variables have their types.            *)
(*                                                                         *)
(* The first two do not depend on whose turn it is: a call may run in the  *)
(* queue or inline, what it does to the database keeps the invariant, and  *)
(* whatever it leaves is good enough for the calls it interrupts.  For     *)
(* the others the turns are needed (TurnInv), and what each call that      *)
(* waits has found (SlotInv) or may still use up (TypeInv).                *)
(***************************************************************************)
EXTENDS RoutingMemory, TLAPS, SequenceTheorems, FiniteSetTheorems

CallRecord ==
    [pc    : {"idle", "queued", "embed", "decide", "missed", "stored", "null", "failed"},
     kind  : {"none", "feedback", "label", "delete", "directive", "retrieve"},
     query : Queries \cup {None}, strategy : Reasons, tier : Tiers \cup {None},
     id : Nat \cup {None}, bank  : Banks,
     op    : {"none", "feedback", "search", "update", "add", "delete"},
     turn  : {"none", "op", "body"}]

ItemRecord ==
    [query : Queries \cup {None}, strategy : Reasons, tier : Tiers \cup {None},
     by : {"feedback", "directive"}]
VectorRecord == [tier : Tiers \cup {None}, dim : Nat \cup {None}]

\* The tables over ids.
Tables(T) == UNION {[D -> T] : D \in SUBSET Nat}

Database ==
    [items : Tables(ItemRecord), vectors : Tables(VectorRecord), dim : Nat \cup {None}, next : Nat]

\* A store without a width is empty, and no id is used again.
DbOK(d) ==
    /\ d \in Database /\ DOMAIN d.items = DOMAIN d.vectors
    /\ d.dim = None => DOMAIN d.items = {}
    /\ \A id \in DOMAIN d.items :
        /\ id < d.next
        /\ d.vectors[id] = [tier |-> d.items[id].tier, dim |-> d.dim]

\* What a feedback has found is an item of its prompt, or has been deleted.
Found(d, r) ==
    r.kind = "feedback" /\ r.id # None =>
        r.id < d.next /\ (r.id \in DOMAIN d.items => d.items[r.id].query = r.query)

CallOK(d, r) ==
    /\ r \in CallRecord
    /\ r.pc = "idle" => r.kind = "none"
    /\ r.kind = "feedback" => r.op # "delete"
    /\ Found(d, r)

Stored(d, r) ==
    /\ r.id \in DOMAIN d.items /\ d.items[r.id].query = r.query
    /\ d.items[r.id].strategy = r.strategy /\ d.items[r.id].tier = r.tier

\* Items keep their prompt, and new ones get new ids.
Follows(d, e) ==
    /\ d.next <= e.next
    /\ \A id \in DOMAIN e.items :
        id < d.next => id \in DOMAIN d.items /\ e.items[id].query = d.items[id].query

\* What an operation leaves to its caller and to others.
Sound(d, r, e) ==
    /\ DbOK(e.db) /\ CallOK(e.db, e.call) /\ Follows(d, e.db)
    /\ e.call.kind = r.kind /\ e.call.query = r.query /\ e.call.strategy = r.strategy
    /\ e.call.tier = r.tier
    /\ e.call.pc = "stored" /\ r.kind = "feedback" => Stored(e.db, e.call)

-----------------------------------------------------------------------------
(* The operations.                                                         *)

\* A table is a function over its ids.
LEMMA TableIs ==
  ASSUME NEW T, NEW f
  PROVE  f \in Tables(T) <=> f \in [DOMAIN f -> T] /\ DOMAIN f \subseteq Nat
  BY DEF Tables

\* What a result is.
LEMMA ResultIs ==
  ASSUME NEW d, NEW r \in CallRecord,
         NEW pc \in {"embed", "decide", "missed", "stored", "null", "failed"}
  PROVE  /\ Result(d, r, pc).db = d /\ Result(d, r, pc).call \in CallRecord
         /\ Result(d, r, pc).call.pc = pc /\ Result(d, r, pc).call.op = "none"
         /\ Result(d, r, pc).call.kind = r.kind /\ Result(d, r, pc).call.query = r.query
         /\ Result(d, r, pc).call.tier = r.tier /\ Result(d, r, pc).call.id = r.id
        /\ Result(d, r, pc).call.strategy = r.strategy /\ Result(d, r, pc).call.bank = r.bank
  BY DEF Result, CallRecord

\* A result that stores nothing is sound.
LEMMA ResultSound ==
  ASSUME NEW d, DbOK(d), NEW r \in CallRecord, Found(d, r),
         NEW pc \in {"embed", "decide", "missed", "null", "failed"}
  PROVE  Sound(d, r, Result(d, r, pc))
  <1>1. Follows(d, d)
    BY DEF Follows, DbOK, Database
  <1> QED
    BY <1>1, ResultIs DEF Sound, CallOK, Found

\* What a search looks through.
Matching(d, r) ==
    IF d.dim # Dim[r.bank] THEN {}
    ELSE {id \in DOMAIN d.items :
            /\ d.items[id].query = r.query
            /\ r.strategy # None => d.items[id].strategy = r.strategy}

\* A search finds one of them, or nothing.
LEMMA SearchIs ==
  ASSUME NEW d, DbOK(d), NEW r \in CallRecord
  PROVE  \E id \in Matching(d, r) \cup {None} :
            /\ id = None => Matching(d, r) = {}
            /\ [r EXCEPT !.id = id] \in CallRecord
            /\ Search(d, r) = Result(d, [r EXCEPT !.id = id], "decide")
  <1> DEFINE same == Matching(d, r)
             found == IF same = {} THEN None ELSE CHOOSE id \in same : TRUE
  <1>1. Search(d, r) = Result(d, [r EXCEPT !.id = found], "decide")
    BY DEF Search, Matching
  <1>2. same \subseteq Nat
    BY TableIs DEF DbOK, Database, Matching
  <1> HIDE DEF same
  <1>3. (found = None /\ same = {}) \/ found \in same
    OBVIOUS
  <1> HIDE DEF found
  <1>4. found = None => same = {}
    BY <1>2, <1>3, MemoryAssumption
  <1>5. [r EXCEPT !.id = found] \in CallRecord
    BY <1>2, <1>3 DEF CallRecord
  <1> QED
    BY <1>1, <1>3, <1>4, <1>5 DEF same

\* A search finds an item of its prompt, or nothing.
LEMMA SearchSound ==
  ASSUME NEW d, DbOK(d), NEW r \in CallRecord
  PROVE  Sound(d, r, Search(d, r))
  <1>1. PICK found \in Matching(d, r) \cup {None} :
            /\ [r EXCEPT !.id = found] \in CallRecord
            /\ Search(d, r) = Result(d, [r EXCEPT !.id = found], "decide")
    BY SearchIs
  <1> DEFINE s == [r EXCEPT !.id = found]
  <1>2. found # None => found \in DOMAIN d.items /\ d.items[found].query = r.query
    BY <1>1 DEF Matching
  <1>3. /\ s.kind = r.kind /\ s.query = r.query /\ s.strategy = r.strategy
        /\ s.tier = r.tier /\ s.id = found
    BY <1>1 DEF CallRecord
  <1>4. s \in CallRecord /\ Search(d, r) = Result(d, s, "decide")
    BY <1>1
  <1> HIDE DEF s
  <1>5. Found(d, s)
    BY <1>2, <1>3 DEF Found, DbOK
  <1>6. Sound(d, s, Result(d, s, "decide"))
    BY <1>4, <1>5, ResultSound
  <1> QED
    BY <1>3, <1>4, <1>6 DEF Sound

\* What an update leaves: only its item changes, and that only in tier and strategy.
Changes(d, e, r) ==
    /\ e \in Database /\ e.dim = d.dim /\ e.next = d.next
    /\ DOMAIN e.items = DOMAIN d.items /\ DOMAIN e.vectors = DOMAIN d.items
    /\ \A id \in DOMAIN d.items :
        /\ e.items[id].query = d.items[id].query /\ e.items[id].by = d.items[id].by
        /\ e.items[id].tier = IF id = r.id THEN r.tier ELSE d.items[id].tier
        /\ e.items[id].strategy =
              IF id = r.id /\ r.kind = "feedback" THEN r.strategy ELSE d.items[id].strategy
        /\ e.vectors[id] = [tier |-> e.items[id].tier, dim |-> d.dim]

LEMMA UpdatedIs ==
  ASSUME NEW d, DbOK(d), NEW r \in CallRecord, r.id \in DOMAIN d.items
  PROVE  Changes(d, Updated(d, r), r)
  <1> DEFINE strategy == IF r.kind = "feedback" THEN r.strategy ELSE d.items[r.id].strategy
             item == [d.items[r.id] EXCEPT !.tier = r.tier, !.strategy = strategy]
             items == [d.items EXCEPT ![r.id] = item]
             vectors == [d.vectors EXCEPT ![r.id].tier = r.tier]
             e == Updated(d, r)
  <1>1. /\ d.items \in [DOMAIN d.items -> ItemRecord] /\ DOMAIN d.items \subseteq Nat
        /\ d.vectors \in [DOMAIN d.items -> VectorRecord]
    BY TableIs DEF DbOK, Database
  <1>2. r.tier \in Tiers \cup {None} /\ strategy \in Reasons
    BY <1>1 DEF CallRecord, ItemRecord
  <1>3. /\ item \in ItemRecord /\ item.query = d.items[r.id].query /\ item.by = d.items[r.id].by
        /\ item.tier = r.tier /\ item.strategy = strategy
    BY <1>1, <1>2 DEF ItemRecord
  <1>4. e = [d EXCEPT !.items = items, !.vectors = vectors]
    <2>1. [d.items[r.id] EXCEPT !.tier = r.tier, !.strategy = IF r.kind = "feedback" THEN r.strategy
                                                               ELSE @] = item
      BY <1>1 DEF ItemRecord
    <2> QED
      BY <2>1 DEF Updated, DbOK, Database
  <1>15. e.items = items /\ e.vectors = vectors /\ e.dim = d.dim /\ e.next = d.next
    BY <1>4 DEF DbOK, Database
  <1> HIDE DEF e, item
  <1>5. /\ items \in [DOMAIN d.items -> ItemRecord] /\ items[r.id] = item
        /\ \A id \in DOMAIN d.items \ {r.id} : items[id] = d.items[id]
    BY <1>1, <1>3
  <1>6. /\ vectors \in [DOMAIN d.items -> VectorRecord]
        /\ \A id \in DOMAIN d.items :
              vectors[id] = IF id = r.id THEN [d.vectors[id] EXCEPT !.tier = r.tier] ELSE d.vectors[id]
    BY <1>1, <1>2 DEF VectorRecord
  <1> HIDE DEF items, vectors
  <1>7. \A a, b, c : [[tier |-> a, dim |-> b] EXCEPT !.tier = c] = [tier |-> c, dim |-> b]
    OBVIOUS
  <1>8. \A id \in DOMAIN d.items : d.vectors[id] = [tier |-> d.items[id].tier, dim |-> d.dim]
    BY DEF DbOK
  <1>9. vectors[r.id] = [[tier |-> d.items[r.id].tier, dim |-> d.dim] EXCEPT !.tier = r.tier]
    BY <1>6, <1>8
  <1>10. vectors[r.id] = [tier |-> items[r.id].tier, dim |-> d.dim]
    BY <1>3, <1>5, <1>7, <1>9
  <1>11. \A id \in DOMAIN d.items : vectors[id] = [tier |-> items[id].tier, dim |-> d.dim]
    BY <1>5, <1>6, <1>8, <1>10
  <1>12. items \in Tables(ItemRecord) /\ vectors \in Tables(VectorRecord)
         /\ DOMAIN items = DOMAIN d.items /\ DOMAIN vectors = DOMAIN d.items
    BY <1>1, <1>5, <1>6, TableIs
  <1>13. e \in Database
    <2> HIDE DEF items, vectors
    <2> QED
      BY <1>4, <1>12 DEF DbOK, Database
  <1>14. \A id \in DOMAIN d.items :
            /\ items[id].query = d.items[id].query /\ items[id].by = d.items[id].by
            /\ items[id].tier = IF id = r.id THEN r.tier ELSE d.items[id].tier
            /\ items[id].strategy =
                  IF id = r.id /\ r.kind = "feedback" THEN r.strategy ELSE d.items[id].strategy
    BY <1>3, <1>5
  <1> QED
    BY <1>11, <1>12, <1>13, <1>14, <1>15 DEF e, Changes

\* An update changes the tier of an item and of its vector.
LEMMA UpdateSound ==
  ASSUME NEW d, DbOK(d), NEW r \in CallRecord, Found(d, r)
  PROVE  Sound(d, r, Update(d, r))
  <1>1. CASE r.id \notin DOMAIN d.items
    BY <1>1, ResultSound DEF Update
  <1>2. CASE r.id \in DOMAIN d.items
    <2> DEFINE e == Updated(d, r)
    <2>1. Update(d, r) = Result(e, r, "stored")
      BY <1>2 DEF Update
    <2>2. Changes(d, e, r)
      BY <1>2, UpdatedIs
    <2> HIDE DEF e
    <2>3. DbOK(e)
      BY <2>2 DEF Changes, DbOK
    <2>4. Follows(d, e) /\ Found(e, r)
      <3>1. d.next \in Nat
        BY DEF DbOK, Database
      <3>2. e.next = d.next
        BY <2>2 DEF Changes
      <3> QED
        <4>1. Follows(d, e)
          <5>1. DOMAIN e.items = DOMAIN d.items
                /\ \A id \in DOMAIN d.items : e.items[id].query = d.items[id].query
            BY <2>2 DEF Changes
          <5>2. d.next <= e.next
            BY <3>1, <3>2
          <5> QED
            BY <5>1, <5>2 DEF Follows
        <4>2. Found(e, r)
          BY <2>2, <3>2 DEF Changes, Found
        <4> QED
          BY <4>1, <4>2
    <2>5. r.id # None
      <3>1. DOMAIN d.items \subseteq Nat
        BY TableIs DEF DbOK, Database
      <3> QED
        BY <1>2, <3>1, MemoryAssumption
    <2>6. r.kind = "feedback" => Stored(e, r)
      BY <1>2, <2>2, <2>5 DEF Changes, Stored, Found
    <2> QED
      BY <2>1, <2>3, <2>4, <2>6, ResultIs DEF Sound, CallOK, Found, Stored
  <1> QED
    BY <1>1, <1>2

\* An insertion uses a new id, and the width on record or the first one.
LEMMA AddSound ==
  ASSUME NEW d, DbOK(d), NEW r \in CallRecord, Found(d, r)
  PROVE  Sound(d, r, Add(d, r))
  <1> DEFINE dim == Dim[r.bank]
             item == [query |-> r.query, strategy |-> r.strategy, tier |-> r.tier,
                      by |-> IF r.kind = "feedback" THEN "feedback" ELSE "directive"]
             vector == [tier |-> r.tier, dim |-> dim]
             items == With(d.items, d.next, item)
             vectors == With(d.vectors, d.next, vector)
             e == [items |-> items, vectors |-> vectors, dim |-> dim, next |-> d.next + 1]
             s == [r EXCEPT !.id = d.next]
  <1>1. CASE d.dim \notin {None, dim}
    BY <1>1, ResultSound DEF Add
  <1>2. CASE d.dim \in {None, dim}
    <2>1. Add(d, r) = Result(e, s, "stored")
      BY <1>2 DEF Add
    <2>2. dim \in Nat /\ dim # None
      BY MemoryAssumption DEF CallRecord, Banks
    <2>3. item \in ItemRecord /\ item.query = r.query /\ item.tier = r.tier
          /\ item.strategy = r.strategy
      BY DEF CallRecord, ItemRecord
    <2>4. vector \in VectorRecord /\ vector = [tier |-> item.tier, dim |-> dim]
      BY <2>2 DEF CallRecord, VectorRecord
    <2>5. d.next \in Nat /\ d.next \notin DOMAIN d.items
      BY DEF DbOK, Database
    <2>6. /\ d.items \in [DOMAIN d.items -> ItemRecord] /\ DOMAIN d.items \subseteq Nat
          /\ d.vectors \in [DOMAIN d.items -> VectorRecord]
      BY TableIs DEF DbOK, Database
    <2>7. \A id \in DOMAIN d.items : d.vectors[id] = [tier |-> d.items[id].tier, dim |-> dim]
      BY <1>2 DEF DbOK
    <2> HIDE DEF dim, item, vector
    <2>8. /\ items \in [DOMAIN d.items \cup {d.next} -> ItemRecord]
          /\ vectors \in [DOMAIN d.items \cup {d.next} -> VectorRecord]
          /\ items[d.next] = item /\ vectors[d.next] = vector
          /\ \A id \in DOMAIN d.items : items[id] = d.items[id] /\ vectors[id] = d.vectors[id]
      BY <2>3, <2>4, <2>5, <2>6 DEF With
    <2> HIDE DEF items, vectors
    <2>9. items \in Tables(ItemRecord) /\ vectors \in Tables(VectorRecord)
      BY <2>5, <2>6, <2>8, TableIs
    <2>10. /\ e \in Database
           /\ e.items = items /\ e.vectors = vectors /\ e.dim = dim /\ e.next = d.next + 1
      BY <2>2, <2>5, <2>9 DEF Database
    <2> HIDE DEF e
    <2>11. DbOK(e)
      <3>1. DOMAIN items = DOMAIN d.items \cup {d.next} /\ DOMAIN vectors = DOMAIN items
        BY <2>8
      <3>2. \A id \in DOMAIN items : vectors[id] = [tier |-> items[id].tier, dim |-> dim]
        BY <2>4, <2>7, <2>8, <3>1
      <3>3. \A id \in DOMAIN items : id < d.next + 1
        <4>1. \A id \in DOMAIN d.items : id < d.next
          BY DEF DbOK
        <4> QED
          BY <2>5, <2>6, <3>1, <4>1
      <3> QED
        BY <2>2, <2>10, <3>1, <3>2, <3>3 DEF DbOK
    <2>12. Follows(d, e)
      BY <2>5, <2>6, <2>8, <2>10 DEF Follows
    <2>13. s \in CallRecord /\ s.kind = r.kind /\ s.query = r.query /\ s.tier = r.tier
                            /\ s.strategy = r.strategy /\ s.id = d.next
      BY <2>5 DEF CallRecord
    <2> HIDE DEF s
    <2>14. Found(e, s) /\ Stored(e, s)
      BY <2>3, <2>5, <2>8, <2>10, <2>13 DEF Found, Stored
    <2> QED
      BY <2>1, <2>11, <2>12, <2>13, <2>14, ResultIs DEF Sound, CallOK, Found, Stored
  <1> QED
    BY <1>1, <1>2

\* A deletion takes both rows; it is no part of a feedback.
LEMMA DeleteSound ==
  ASSUME NEW d, DbOK(d), NEW r \in CallRecord, r.kind # "feedback"
  PROVE  Sound(d, r, Delete(d, r))
  <1> DEFINE items == Without(d.items, r.id)
             vectors == Without(d.vectors, r.id)
             e == [d EXCEPT !.items = items, !.vectors = vectors]
  <1>1. Delete(d, r) = Result(e, r, "stored")
    BY DEF Delete
  <1>2. /\ d.items \in [DOMAIN d.items -> ItemRecord] /\ DOMAIN d.items \subseteq Nat
        /\ d.vectors \in [DOMAIN d.items -> VectorRecord]
    BY TableIs DEF DbOK, Database
  <1>3. /\ items \in [DOMAIN d.items \ {r.id} -> ItemRecord]
        /\ vectors \in [DOMAIN d.items \ {r.id} -> VectorRecord]
        /\ \A id \in DOMAIN items : items[id] = d.items[id] /\ vectors[id] = d.vectors[id]
    BY <1>2 DEF Without
  <1> HIDE DEF items, vectors
  <1>4. items \in Tables(ItemRecord) /\ vectors \in Tables(VectorRecord)
    BY <1>2, <1>3, TableIs
  <1>5. /\ e \in Database
        /\ e.items = items /\ e.vectors = vectors /\ e.dim = d.dim /\ e.next = d.next
    BY <1>4 DEF Database, DbOK
  <1> HIDE DEF e
  <1>6. DbOK(e)
    BY <1>3, <1>5 DEF DbOK
  <1>7. Follows(d, e)
    BY <1>3, <1>5 DEF Follows, DbOK, Database
  <1> QED
    BY <1>1, <1>6, <1>7, ResultIs DEF Sound, CallOK, Found

\* So is whatever runs under runSerialized.
LEMMA EffectSound ==
  ASSUME NEW d, DbOK(d), NEW r \in CallRecord, Found(d, r), NEW op,
         r.kind = "feedback" => op # "delete"
  PROVE  Sound(d, r, Effect(d, r, op))
  <1>1. CASE op = "feedback"
    BY <1>1, ResultSound DEF Effect
  <1>2. CASE op # "feedback" /\ ~Open(r)
    BY <1>2, ResultSound DEF Effect
  <1>3. CASE op = "update" /\ Open(r)
    BY <1>3, UpdateSound DEF Effect
  <1>4. CASE op = "add" /\ Open(r)
    BY <1>4, AddSound DEF Effect
  <1>5. CASE op = "delete" /\ Open(r)
    BY <1>5, DeleteSound DEF Effect
  <1>6. CASE op \notin {"feedback", "update", "add", "delete"} /\ Open(r)
    BY <1>6, SearchSound DEF Effect
  <1> QED
    BY <1>1, <1>2, <1>3, <1>4, <1>5, <1>6

-----------------------------------------------------------------------------
(* The calls.                                                              *)

CallsOK ==
    /\ DbOK(db)
    /\ call \in [Calls -> CallRecord]
    /\ \A c \in Calls : CallOK(db, call[c])

IInv == CallsOK /\ bank \in Banks /\ queue \in [Banks -> Seq(Calls)]

\* What a step means for the feedback that c may be.
Answers(c) ==
    (call[c].kind = "feedback" /\ call'[c].pc = "stored" /\ call[c].pc # "stored")
        => /\ call'[c].id \in DOMAIN db'.items
           /\ db'.items[call'[c].id].query = call[c].query
           /\ db'.items[call'[c].id].strategy = call[c].strategy
           /\ db'.items[call'[c].id].tier = call[c].tier

Good == IInv' /\ \A c \in Calls : Answers(c)

\* A call that is interrupted has found what it had found.
LEMMA OthersFound ==
  ASSUME NEW d, DbOK(d), NEW e, DbOK(e), Follows(d, e), NEW r, CallOK(d, r)
  PROVE  CallOK(e, r)
  <1>1. d.next \in Nat /\ e.next \in Nat /\ r.id \in Nat \cup {None} /\ d.next <= e.next
    BY DEF DbOK, Database, CallOK, CallRecord, Follows
  <1>2. r.kind = "feedback" /\ r.id # None => r.id < e.next
    BY <1>1 DEF CallOK, Found
  <1>3. r.kind = "feedback" /\ r.id # None =>
          (r.id \in DOMAIN e.items => e.items[r.id].query = r.query)
    BY DEF CallOK, Found, Follows
  <1> QED
    BY <1>2, <1>3 DEF CallOK, Found

\* One call moves and the database follows.
LEMMA CallMoves ==
  ASSUME IInv, NEW c \in Calls, NEW r, DbOK(db'), Follows(db, db'), CallOK(db', r),
         call' = [call EXCEPT ![c] = r]
  PROVE  CallsOK' /\ call'[c] = r /\ \A x \in Calls \ {c} : call'[x] = call[x]
  <1>1. call' \in [Calls -> CallRecord] /\ call'[c] = r /\ \A x \in Calls \ {c} : call'[x] = call[x]
    BY DEF IInv, CallsOK, CallOK
  <1>2. \A x \in Calls : CallOK(db', call'[x])
    <2> TAKE x \in Calls
    <2>1. CASE x = c
      BY <1>1, <2>1
    <2>2. CASE x # c
      BY <1>1, <2>2, OthersFound DEF IInv, CallsOK
    <2> QED
      BY <2>1, <2>2
  <1> QED
    BY <1>1, <1>2 DEF CallsOK

\* The database may stay as it is.
LEMMA SameDatabase ==
  ASSUME IInv, db' = db
  PROVE  DbOK(db') /\ Follows(db, db')
  BY DEF IInv, CallsOK, DbOK, Database, Follows

\* A call runs inline, or waits.
LEMMA RunSound ==
  ASSUME IInv, NEW c \in Calls, NEW r \in CallRecord, Found(db, r),
         NEW op \in {"feedback", "search", "update", "add", "delete"},
         r.kind = "feedback" => op # "delete",
         RunSerialized(c, r, op), bank' = bank,
         call[c].kind = "feedback" =>
            /\ r.kind = "feedback" /\ r.query = call[c].query
            /\ r.strategy = call[c].strategy /\ r.tier = call[c].tier
  PROVE  Good
  <1>1. CASE serialDepth[r.bank] > 0
    <2> DEFINE e == Effect(db, r, op)
    <2>1. Sound(db, r, e)
      BY EffectSound DEF IInv, CallsOK
    <2>2. db' = e.db /\ call' = [call EXCEPT ![c] = e.call] /\ queue' = queue
      BY <1>1 DEF RunSerialized
    <2> HIDE DEF e
    <2>3. CallsOK' /\ call'[c] = e.call /\ \A x \in Calls \ {c} : call'[x] = call[x]
      BY <2>1, <2>2, CallMoves DEF Sound
    <2>4. Answers(c)
      BY <2>1, <2>2, <2>3 DEF Answers, Sound, Stored
    <2>5. \A x \in Calls \ {c} : Answers(x)
      BY <2>3 DEF Answers
    <2> QED
      BY <2>2, <2>3, <2>4, <2>5 DEF Good, IInv
  <1>2. CASE ~(serialDepth[r.bank] > 0)
    <2> DEFINE s == [r EXCEPT !.pc = "queued", !.op = op]
    <2>1. db' = db /\ call' = [call EXCEPT ![c] = s]
                   /\ queue' = [queue EXCEPT ![r.bank] = Append(@, c)]
      BY <1>2 DEF RunSerialized
    <2>2. s \in CallRecord /\ s.pc = "queued" /\ s.op = op /\ s.kind = r.kind
          /\ s.id = r.id /\ s.query = r.query
      BY DEF CallRecord
    <2> HIDE DEF s
    <2>3. CallOK(db', s)
      BY <2>1, <2>2 DEF CallOK, Found
    <2>4. CallsOK' /\ call'[c] = s /\ \A x \in Calls \ {c} : call'[x] = call[x]
      BY <2>1, <2>3, SameDatabase, CallMoves
    <2>5. queue' \in [Banks -> Seq(Calls)]
      BY <2>1 DEF IInv, CallRecord
    <2>6. \A x \in Calls : Answers(x)
      BY <2>2, <2>4 DEF Answers
    <2> QED
      BY <2>4, <2>5, <2>6 DEF Good, IInv
  <1> QED
    BY <1>1, <1>2

\* A call moves without touching the database, and stores nothing.
LEMMA MoveSound ==
  ASSUME IInv, NEW c \in Calls, NEW r, CallOK(db, r), db' = db,
         call' = [call EXCEPT ![c] = r], bank' = bank, queue' \in [Banks -> Seq(Calls)],
         r.pc = "stored" => call[c].pc = "stored"
  PROVE  Good
  <1>1. CallsOK' /\ call'[c] = r /\ \A x \in Calls \ {c} : call'[x] = call[x]
    BY SameDatabase, CallMoves
  <1>2. \A x \in Calls : Answers(x)
    BY <1>1 DEF Answers
  <1> QED
    BY <1>1, <1>2 DEF Good, IInv

\* A new call has found nothing yet; only a feedback cares.
LEMMA NewCall ==
  ASSUME IInv, NEW kind \in {"feedback", "label", "delete", "directive", "retrieve"},
         NEW q \in Queries \cup {None}, NEW s \in Reasons, NEW t \in Tiers \cup {None},
         NEW id \in Nat \cup {None}, kind = "feedback" => id = None
  PROVE  /\ New(kind, q, s, t, id) \in CallRecord /\ Found(db, New(kind, q, s, t, id))
         /\ New(kind, q, s, t, id).kind = kind
  <1>1. NoCall \in CallRecord
    BY MemoryAssumption DEF NoCall, CallRecord, Banks, Reasons
  <1> DEFINE r == New(kind, q, s, t, id)
  <1>2. r \in CallRecord /\ r.kind = kind /\ r.id = id
    BY <1>1 DEF New, IInv, CallRecord, NoCall
  <1> HIDE DEF r
  <1>3. Found(db, r)
    BY <1>2 DEF Found
  <1> QED
    BY <1>2, <1>3 DEF r

\* A call that waited gets its turn.
LEMMA StartTurnSound ==
  ASSUME IInv, NEW b \in Banks, StartTurn(b)
  PROVE  Good
  <1> DEFINE c == Head(queue[b])
             e == Effect(db, call[c], call[c].op)
             t == IF call[c].op = "feedback" THEN "body" ELSE "op"
             s == [e.call EXCEPT !.turn = t]
  <1>1. c \in Calls
    BY HeadTailProperties DEF IInv, StartTurn
  <1>2. call[c] \in CallRecord /\ Found(db, call[c])
        /\ (call[c].kind = "feedback" => call[c].op # "delete")
    BY <1>1 DEF IInv, CallsOK, CallOK
  <1>3. db' = e.db /\ call' = [call EXCEPT ![c] = s] /\ bank' = bank /\ queue' = queue
    BY DEF StartTurn
  <1> HIDE DEF c
  <1>4. Sound(db, call[c], e)
    BY <1>2, EffectSound DEF IInv, CallsOK
  <1> HIDE DEF e
  <1>5. t \in {"body", "op"}
    OBVIOUS
  <1> HIDE DEF t
  <1>6. /\ s \in CallRecord /\ s.pc = e.call.pc /\ s.kind = e.call.kind /\ s.op = e.call.op
        /\ s.query = e.call.query /\ s.strategy = e.call.strategy /\ s.tier = e.call.tier
        /\ s.id = e.call.id
    BY <1>4, <1>5 DEF Sound, CallOK, CallRecord
  <1> HIDE DEF s
  <1>7. CallOK(e.db, s)
    BY <1>4, <1>6 DEF Sound, CallOK, Found
  <1>8. CallsOK' /\ call'[c] = s /\ \A x \in Calls \ {c} : call'[x] = call[x]
    BY <1>1, <1>3, <1>4, <1>7, CallMoves DEF Sound
  <1>9. Answers(c)
    BY <1>3, <1>4, <1>6, <1>8 DEF Answers, Sound, Stored
  <1>10. \A x \in Calls \ {c} : Answers(x)
    BY <1>8 DEF Answers
  <1> QED
    BY <1>3, <1>8, <1>9, <1>10 DEF Good, IInv

\* Every step is good.
LEMMA NextGood ==
  ASSUME IInv, [Next]_vars
  PROVE  Good
  <1>1. ASSUME NEW c \in Calls, NEW q \in Queries, NEW s \in Reasons, NEW t \in Tiers,
               Feedback(c, q, s, t)
        PROVE  Good
    <2>1. call[c].kind # "feedback"
      BY <1>1 DEF Feedback, IInv, CallsOK, CallOK
    <2>2. RunSerialized(c, New("feedback", q, s, t, None), "feedback") /\ bank' = bank
      BY <1>1 DEF Feedback
    <2>3. /\ New("feedback", q, s, t, None) \in CallRecord
          /\ Found(db, New("feedback", q, s, t, None))
      BY NewCall
    <2> QED
      BY <2>1, <2>2, <2>3, RunSound
  <1>2. ASSUME NEW c \in Calls, NEW q \in Queries, NEW s \in Strategies, NEW t \in Tiers,
               Directive(c, q, s, t)
        PROVE  Good
    <2> DEFINE r == New("directive", q, s, t, None)
               u == [r EXCEPT !.pc = "embed"]
    <2>0. s \in Reasons
      BY DEF Reasons
    <2>1. r \in CallRecord /\ r.kind = "directive"
      BY <2>0, NewCall
    <2>2. call' = [call EXCEPT ![c] = u] /\ UNCHANGED <<db, bank, queue>>
      BY <1>2 DEF Directive
    <2> HIDE DEF r
    <2>3. CallOK(db, u) /\ u.pc = "embed"
      BY <2>1 DEF CallOK, CallRecord, Found
    <2> HIDE DEF u
    <2> QED
      BY <2>2, <2>3, MoveSound DEF IInv
  <1>3. ASSUME NEW c \in Calls, NEW id \in Ids, NEW t \in Tiers, Relabel(c, id, t)
        PROVE  Good
    <2>1. call[c].kind # "feedback"
      BY <1>3 DEF Relabel, IInv, CallsOK, CallOK
    <2>2. id \in Nat
      BY DEF Ids
    <2> DEFINE r == New("label", None, None, t, id)
    <2>3. RunSerialized(c, r, "update") /\ bank' = bank
      BY <1>3 DEF Relabel
    <2>0. None \in Reasons
      BY DEF Reasons
    <2>4. r \in CallRecord /\ Found(db, r) /\ r.kind = "label"
      BY <2>2, <2>0, NewCall
    <2> HIDE DEF r
    <2> QED
      BY <2>1, <2>3, <2>4, RunSound
  <1>4. ASSUME NEW c \in Calls, NEW id \in Ids, Remove(c, id)
        PROVE  Good
    <2>1. call[c].kind # "feedback"
      BY <1>4 DEF Remove, IInv, CallsOK, CallOK
    <2>2. id \in Nat
      BY DEF Ids
    <2> DEFINE r == New("delete", None, None, None, id)
    <2>3. RunSerialized(c, r, "delete") /\ bank' = bank
      BY <1>4 DEF Remove
    <2>0. None \in Reasons
      BY DEF Reasons
    <2>4. r \in CallRecord /\ Found(db, r) /\ r.kind = "delete"
      BY Z3, <2>2, <2>0, NewCall
    <2> HIDE DEF r
    <2> QED
      BY <2>1, <2>3, <2>4, RunSound
  <1>5. ASSUME NEW c \in Calls, NEW q \in Queries, Retrieve(c, q)
        PROVE  Good
    <2>1. call[c].kind # "feedback"
      BY <1>5 DEF Retrieve, IInv, CallsOK, CallOK
    <2> DEFINE r == New("retrieve", q, None, None, None)
    <2>3. RunSerialized(c, r, "search") /\ bank' = bank
      BY <1>5 DEF Retrieve
    <2>0. None \in Reasons
      BY DEF Reasons
    <2>4. r \in CallRecord /\ Found(db, r) /\ r.kind = "retrieve"
      BY <2>0, NewCall
    <2> HIDE DEF r
    <2> QED
      BY <2>1, <2>3, <2>4, RunSound
  <1>6. ASSUME NEW c \in Calls, Embedded(c) \/ Decide(c) \/ AddInstead(c)
        PROVE  Good
    <2>1. call[c] \in CallRecord /\ Found(db, call[c])
      BY DEF IInv, CallsOK, CallOK
    <2>2. PICK op \in {"search", "add", "update"} : RunSerialized(c, call[c], op)
      BY <1>6 DEF Embedded, Decide, AddInstead, Operation
    <2>3. bank' = bank
      BY <1>6 DEF Embedded, Decide, AddInstead
    <2> QED
      BY <2>1, <2>2, <2>3, RunSound
  <1>7. ASSUME NEW c \in Calls, NotEmbedded(c)
        PROVE  Good
    <2> DEFINE s == [call[c] EXCEPT !.pc = "null"]
    <2>1. CallOK(db, call[c])
      BY DEF IInv, CallsOK
    <2>2. call' = [call EXCEPT ![c] = s] /\ UNCHANGED <<db, bank, queue>>
      BY <1>7 DEF NotEmbedded
    <2>3. CallOK(db, s) /\ s.pc = "null"
      BY <2>1 DEF CallOK, CallRecord, Found
    <2> HIDE DEF s
    <2> QED
      BY <2>2, <2>3, MoveSound DEF IInv
  <1>8. ASSUME NEW c \in Calls, EndTurn(c)
        PROVE  Good
    <2> DEFINE s == [call[c] EXCEPT !.turn = "none"]
               b == call[c].bank
    <2>1. CallOK(db, call[c]) /\ b \in Banks
      BY DEF IInv, CallsOK, CallOK, CallRecord
    <2>2. call' = [call EXCEPT ![c] = s] /\ UNCHANGED <<db, bank>>
          /\ queue' = [queue EXCEPT ![b] = Tail(@)]
      BY <1>8 DEF EndTurn
    <2>3. CallOK(db, s) /\ s.pc = call[c].pc
      BY <2>1 DEF CallOK, CallRecord, Found
    <2>4. queue[b] \in Seq(Calls) /\ queue[b] # << >>
      BY <1>8, <2>1 DEF EndTurn, IInv
    <2> HIDE DEF s, b
    <2>5. Tail(queue[b]) \in Seq(Calls)
      BY <2>4, HeadTailProperties
    <2>6. queue' \in [Banks -> Seq(Calls)]
      BY <2>1, <2>2, <2>5 DEF IInv
    <2> QED
      BY <2>2, <2>3, <2>6, MoveSound
  <1>9. ASSUME NEW c \in Calls, Return(c)
        PROVE  Good
    <2>1. call' = [call EXCEPT ![c] = NoCall] /\ UNCHANGED <<db, bank, queue>>
      BY <1>9 DEF Return
    <2>2. CallOK(db, NoCall) /\ NoCall.pc # "stored"
      BY MemoryAssumption DEF NoCall, CallOK, CallRecord, Banks, Reasons, Found
    <2> QED
      BY <2>1, <2>2, MoveSound DEF IInv
  <1>10. ASSUME NEW b \in Banks, StartTurn(b)
         PROVE  Good
    BY <1>10, StartTurnSound
  <1>11. CASE Reload
    <2>1. UNCHANGED <<db, call, queue>> /\ bank' \in Banks
      BY <1>11, MemoryAssumption DEF Reload, IInv, Banks
    <2> QED
      BY <2>1 DEF Good, IInv, CallsOK, Answers
  <1>12. CASE UNCHANGED <<db, call, bank, queue>>
    BY <1>12 DEF Good, IInv, CallsOK, Answers
  <1>13. ASSUME NEW q \in Queries, NEW s \in Reasons, FeedbackOnly(q, s)
         PROVE  Good
    BY <1>12, <1>13 DEF FeedbackOnly
  <1>14. CASE ReloadFails \/ UNCHANGED vars
    BY <1>12, <1>14 DEF ReloadFails, vars
  <1> QED
    BY <1>1, <1>2, <1>3, <1>4, <1>5, <1>6, <1>7, <1>8, <1>9, <1>10, <1>11, <1>13, <1>14 DEF Next, Step

-----------------------------------------------------------------------------
(* The theorems.                                                           *)

\* The invariant holds at the start,
LEMMA InitIInv == Init => IInv
  <1> SUFFICES ASSUME Init PROVE IInv
    OBVIOUS
  <1>1. << >> \in Tables(ItemRecord) /\ << >> \in Tables(VectorRecord)
        /\ DOMAIN << >> = {}
    <2>1. << >> \in [1 .. 0 -> ItemRecord] /\ << >> \in [1 .. 0 -> VectorRecord] /\ 1 .. 0 = {}
      OBVIOUS
    <2> QED
      BY <2>1 DEF Tables
  <1>2. DbOK(db)
    BY <1>1 DEF Init, DbOK, Database
  <1>3. CallOK(db, NoCall)
    BY MemoryAssumption DEF NoCall, CallOK, CallRecord, Banks, Reasons, Found
  <1>4. bank \in Banks /\ queue \in [Banks -> Seq(Calls)]
    BY MemoryAssumption DEF Init, Banks
  <1>5. call \in [Calls -> CallRecord] /\ \A c \in Calls : CallOK(db, call[c])
    BY <1>3 DEF Init, CallOK
  <1> QED
    BY <1>2, <1>4, <1>5 DEF IInv, CallsOK

\* The inductive invariant holds throughout: the database is sound, and each feedback
\* has found an item of its prompt or one that is gone.
THEOREM InvariantHolds == Spec => []IInv
  <1>1. IInv /\ [Next]_vars => IInv'
    BY NextGood DEF Good
  <1> QED
    BY InitIInv, <1>1, PTL DEF Spec

\* Each item has its vector, with its tier and the width of the store.
THEOREM RowsPairedHolds == Spec => []RowsPaired
  <1>1. IInv => RowsPaired
    BY DEF IInv, CallsOK, DbOK, RowsPaired
  <1> QED
    BY <1>1, InvariantHolds, PTL

\* A feedback that comes to an item has stored its tier there, under its prompt,
\* whatever ran between its search and its update.
THEOREM FeedbackStoredHolds == Spec => FeedbackStored
  <1>1. IInv /\ [Next]_vars => [\A c \in Calls : Answers(c)]_vars
    BY NextGood DEF Good
  <1> QED
    BY <1>1, InvariantHolds, PTL DEF Spec, FeedbackStored, Answers

-----------------------------------------------------------------------------
(* The turns.                                                              *)

Inserting == {"feedback", "directive"}
Busy == {"feedback", "delete"}
Operations == {"feedback", "search", "update", "add", "delete"}

\* The calls in the queue q of the bank b wait there, once, but the first may have its turn.
Lined(q, f, b) ==
    /\ \A i, j \in DOMAIN q : q[i] = q[j] => i = j
    /\ \A i \in DOMAIN q :
        /\ q[i] \in Calls /\ f[q[i]].bank = b
        /\ f[q[i]].turn = "none" => f[q[i]].pc = "queued"
        /\ i > 1 => f[q[i]].turn = "none"

OnTurn(q, f) == q # << >> /\ f[Head(q)].turn # "none"

\* The depth is the turn that is on, and who waits or has it is in the queue.
TurnInv ==
    /\ \A b \in Banks : Lined(queue[b], call, b)
    /\ serialDepth \in [Banks -> 0 .. 1]
    /\ \A b \in Banks : serialDepth[b] = 1 <=> OnTurn(queue[b], call)
    /\ \A c \in Calls :
        /\ call[c].turn # "none" \/ call[c].pc = "queued" =>
              \E i \in DOMAIN queue[call[c].bank] : queue[call[c].bank][i] = c
        /\ call[c].pc = "queued" => call[c].turn = "none" /\ call[c].op \in Operations
        /\ call[c].pc = "idle" => call[c].turn = "none"

\* A call that neither waits nor has a turn is in no queue; one that has it is the first.
LEMMA PlaceInLine ==
  ASSUME IInv, TurnInv, NEW c \in Calls, call[c].pc # "queued", NEW b \in Banks
  PROVE  /\ call[c].turn = "none" => \A i \in DOMAIN queue[b] : queue[b][i] # c
         /\ call[c].turn # "none" => serialDepth[call[c].bank] = 1
  <1>1. call[c].turn = "none" => \A i \in DOMAIN queue[b] : queue[b][i] # c
    BY DEF TurnInv, Lined
  <1>2. ASSUME call[c].turn # "none"
        PROVE  serialDepth[call[c].bank] = 1
    <2> DEFINE k == call[c].bank
    <2>1. k \in Banks /\ queue[k] \in Seq(Calls) /\ Lined(queue[k], call, k)
      BY DEF IInv, CallsOK, CallRecord, TurnInv
    <2>2. PICK i \in DOMAIN queue[k] : queue[k][i] = c
      BY <1>2 DEF TurnInv
    <2>3. ~(i > 1)
      BY <1>2, <2>1, <2>2 DEF Lined
    <2>4. queue[k] # << >> /\ Head(queue[k]) = c
      BY <2>1, <2>2, <2>3
    <2> QED
      BY <1>2, <2>1, <2>4 DEF OnTurn, TurnInv
  <1> QED
    BY <1>1, <1>2

\* A call that goes on without queueing leaves the turns.
LEMMA TurnsStay ==
  ASSUME IInv, TurnInv, NEW c \in Calls, NEW r, call' = [call EXCEPT ![c] = r],
         queue' = queue, serialDepth' = serialDepth,
         call[c].pc # "queued", r.pc # "queued", r.turn = call[c].turn,
         r.turn # "none" => r.bank = call[c].bank /\ r.pc # "idle"
  PROVE  TurnInv'
  <1>1. call'[c] = r /\ \A x \in Calls \ {c} : call'[x] = call[x]
    BY DEF IInv, CallsOK
  <1>2. \A b \in Banks : Lined(queue'[b], call', b)
    <2> TAKE b \in Banks
    <2>1. Lined(queue[b], call, b)
      BY DEF TurnInv
    <2>2. call[c].turn = "none" => \A i \in DOMAIN queue[b] : queue[b][i] # c
      BY PlaceInLine
    <2> QED
      BY <1>1, <2>1, <2>2 DEF Lined
  <1>3. \A b \in Banks : OnTurn(queue'[b], call') <=> OnTurn(queue[b], call)
    <2> TAKE b \in Banks
    <2>1. queue[b] # << >> => Head(queue[b]) \in Calls
      BY DEF IInv
    <2> QED
      BY <1>1, <2>1 DEF OnTurn
  <1>4. \A x \in Calls :
        /\ call'[x].turn # "none" \/ call'[x].pc = "queued" =>
              \E i \in DOMAIN queue'[call'[x].bank] : queue'[call'[x].bank][i] = x
        /\ call'[x].pc = "queued" => call'[x].turn = "none" /\ call'[x].op \in Operations
        /\ call'[x].pc = "idle" => call'[x].turn = "none"
    BY <1>1 DEF TurnInv
  <1> QED
    BY <1>2, <1>3, <1>4 DEF TurnInv

\* A call without a turn may queue.
LEMMA TurnsQueue ==
  ASSUME IInv, TurnInv, NEW c \in Calls, NEW r, call' = [call EXCEPT ![c] = r],
         r.bank \in Banks, queue' = [queue EXCEPT ![r.bank] = Append(@, c)],
         serialDepth' = serialDepth, call[c].pc # "queued", call[c].turn = "none",
         r.pc = "queued", r.turn = "none", r.op \in Operations
  PROVE  TurnInv'
  <1>1. call'[c] = r /\ \A x \in Calls \ {c} : call'[x] = call[x]
    BY DEF IInv, CallsOK
  <1>2. \A b \in Banks :
          /\ queue[b] \in Seq(Calls) /\ Lined(queue[b], call, b)
          /\ \A i \in DOMAIN queue[b] : queue[b][i] # c
          /\ queue'[b] = IF b = r.bank THEN Append(queue[b], c) ELSE queue[b]
    BY PlaceInLine DEF IInv, TurnInv
  <1>3. \A b \in Banks : Lined(queue'[b], call', b)
    <2> TAKE b \in Banks
    <2>1. CASE b # r.bank
      BY <1>1, <1>2, <2>1 DEF Lined
    <2>2. CASE b = r.bank
      <3> DEFINE q == queue[b]
                 p == Append(q, c)
                 n == Len(q) + 1
      <3>1. /\ q \in Seq(Calls) /\ Lined(q, call, b) /\ queue'[b] = p
            /\ \A i \in DOMAIN q : q[i] # c
        BY <1>2, <2>2
      <3> HIDE DEF q
      <3>2. /\ n \in Nat /\ n >= 1 /\ n \notin DOMAIN q /\ DOMAIN p = DOMAIN q \cup {n}
            /\ p[n] = c /\ \A i \in DOMAIN q : p[i] = q[i]
            /\ n > 1 \/ DOMAIN q = {}
        BY <3>1
      <3> HIDE DEF p, n
      <3> QED
        BY <1>1, <2>2, <3>1, <3>2 DEF Lined
    <2> QED
      BY <2>1, <2>2
  <1>4. \A b \in Banks : OnTurn(queue'[b], call') <=> OnTurn(queue[b], call)
    <2> TAKE b \in Banks
    <2>1. queue[b] # << >> => Head(queue[b]) \in Calls /\ Head(queue[b]) # c
                              /\ Head(queue'[b]) = Head(queue[b]) /\ queue'[b] # << >>
      BY <1>2
    <2>2. queue[b] = << >> => queue'[b] = << >> \/ Head(queue'[b]) = c
      BY <1>2
    <2> QED
      BY <1>1, <2>1, <2>2 DEF OnTurn
  <1>5. \A x \in Calls :
          call'[x].turn # "none" \/ call'[x].pc = "queued" =>
              \E i \in DOMAIN queue'[call'[x].bank] : queue'[call'[x].bank][i] = x
    <2> TAKE x \in Calls
    <2>1. CASE x = c
      <3> DEFINE q == queue[r.bank]
                 n == Len(q) + 1
      <3>1. q \in Seq(Calls) /\ queue'[r.bank] = Append(q, c)
        BY <1>2
      <3> HIDE DEF q
      <3>2. n \in DOMAIN Append(q, c) /\ Append(q, c)[n] = c
        BY <3>1
      <3> QED
        BY <1>1, <2>1, <3>1, <3>2
    <2>2. CASE x # c /\ (call'[x].turn # "none" \/ call'[x].pc = "queued")
      <3>1. call'[x] = call[x] /\ call[x].bank \in Banks
        BY <1>1, <2>2 DEF IInv, CallsOK, CallRecord
      <3>2. PICK i \in DOMAIN queue[call[x].bank] : queue[call[x].bank][i] = x
        BY <2>2, <3>1 DEF TurnInv
      <3>3. i \in DOMAIN queue'[call[x].bank] /\ queue'[call[x].bank][i] = x
        BY <1>2, <3>1, <3>2
      <3> QED
        BY <3>1, <3>3
    <2> QED
      BY <2>1, <2>2
  <1>6. \A x \in Calls :
        /\ call'[x].pc = "queued" => call'[x].turn = "none" /\ call'[x].op \in Operations
        /\ call'[x].pc = "idle" => call'[x].turn = "none"
    BY <1>1 DEF TurnInv
  <1> QED
    BY <1>3, <1>4, <1>5, <1>6 DEF TurnInv

\* What runs does not queue, and its turn is as it was.
LEMMA EffectTurn ==
  ASSUME NEW d, NEW r \in CallRecord, NEW op
  PROVE  /\ Effect(d, r, op).call.pc \notin {"queued", "idle"}
         /\ Effect(d, r, op).call.turn = r.turn /\ Effect(d, r, op).call.bank = r.bank
  BY DEF Effect, Result, Search, Update, Add, Delete, CallRecord

\* It is still the call of its kind.
LEMMA EffectKind ==
  ASSUME NEW d, NEW r \in CallRecord, NEW op
  PROVE  /\ Effect(d, r, op).call.kind = r.kind /\ Effect(d, r, op).call.query = r.query
         /\ Effect(d, r, op).call.strategy = r.strategy /\ Effect(d, r, op).call.tier = r.tier
         /\ Effect(d, r, op).call.pc = "embed" => op = "feedback"
  BY DEF Effect, Result, Search, Update, Add, Delete, CallRecord

\* runSerialized keeps the turns.
LEMMA RunTurns ==
  ASSUME IInv, TurnInv, NEW c \in Calls, NEW r \in CallRecord, NEW op \in Operations,
         RunSerialized(c, r, op), serialDepth' = serialDepth, call[c].pc # "queued",
         r.turn = call[c].turn, r.turn # "none" => r.bank = call[c].bank
  PROVE  TurnInv'
  <1> DEFINE e == Effect(db, r, op).call
             s == [r EXCEPT !.pc = "queued", !.op = op]
  <1>1. CASE serialDepth[r.bank] > 0
    <2>1. call' = [call EXCEPT ![c] = e] /\ queue' = queue
      BY <1>1 DEF RunSerialized
    <2>2. e.pc \notin {"queued", "idle"} /\ e.turn = r.turn /\ e.bank = r.bank
      BY EffectTurn
    <2> HIDE DEF e
    <2> QED
      BY <2>1, <2>2, TurnsStay
  <1>2. CASE ~(serialDepth[r.bank] > 0)
    <2>1. call' = [call EXCEPT ![c] = s] /\ queue' = [queue EXCEPT ![r.bank] = Append(@, c)]
      BY <1>2 DEF RunSerialized
    <2>2. s.pc = "queued" /\ s.turn = r.turn /\ s.bank = r.bank /\ s.op = op /\ r.bank \in Banks
      BY DEF CallRecord
    <2>3. call[c].turn = "none"
      BY <1>2, <2>2, PlaceInLine
    <2> HIDE DEF s
    <2> QED
      BY <2>1, <2>2, <2>3, TurnsQueue
  <1> QED
    BY <1>1, <1>2

\* The first in the queue gets its turn,
LEMMA StartTurnTurns ==
  ASSUME IInv, TurnInv, NEW b \in Banks, StartTurn(b)
  PROVE  TurnInv'
  <1> DEFINE c == Head(queue[b])
             e == Effect(db, call[c], call[c].op).call
             t == IF call[c].op = "feedback" THEN "body" ELSE "op"
             s == [e EXCEPT !.turn = t]
  <1>1. /\ queue[b] \in Seq(Calls) /\ queue[b] # << >> /\ c = queue[b][1]
        /\ 1 \in DOMAIN queue[b] /\ c \in Calls /\ Lined(queue[b], call, b)
    BY DEF IInv, StartTurn, TurnInv
  <1>2. call[c].bank = b /\ call[c].pc = "queued" /\ call[c].turn = "none"
    BY <1>1 DEF Lined, StartTurn
  <1>3. call[c] \in CallRecord /\ CallOK(db, call[c]) /\ DbOK(db)
    BY <1>1 DEF IInv, CallsOK
  <1>4. /\ call' = [call EXCEPT ![c] = s] /\ queue' = queue
        /\ serialDepth' = [serialDepth EXCEPT ![b] = @ + 1]
    BY DEF StartTurn
  <1>5. e \in CallRecord /\ e.pc \notin {"queued", "idle"} /\ e.bank = b
    BY <1>2, <1>3, EffectTurn, EffectSound DEF CallOK, Sound
  <1>6. t # "none"
    OBVIOUS
  <1> HIDE DEF e, t, c
  <1>7. s.pc \notin {"queued", "idle"} /\ s.bank = b /\ s.turn = t
    BY <1>5 DEF CallRecord
  <1> HIDE DEF s
  <1>8. call'[c] = s /\ \A x \in Calls \ {c} : call'[x] = call[x]
    BY <1>1, <1>4 DEF IInv, CallsOK
  <1>9. \A k \in Banks : Lined(queue'[k], call', k)
    <2> TAKE k \in Banks
    <2>1. Lined(queue[k], call, k)
      BY DEF TurnInv
    <2>2. k # b => \A i \in DOMAIN queue[k] : queue[k][i] # c
      BY <1>2, <2>1 DEF Lined
    <2> QED
      BY <1>1, <1>4, <1>6, <1>7, <1>8, <2>1, <2>2 DEF Lined
  <1>10. \A k \in Banks \ {b} : OnTurn(queue'[k], call') <=> OnTurn(queue[k], call)
    <2> TAKE k \in Banks \ {b}
    <2>1. queue[k] # << >> => Head(queue[k]) \in Calls /\ Head(queue[k]) # c
      BY <1>2 DEF IInv, TurnInv, Lined
    <2> QED
      BY <1>4, <1>8, <2>1 DEF OnTurn
  <1>11. OnTurn(queue'[b], call') /\ ~OnTurn(queue[b], call)
    BY <1>1, <1>2, <1>4, <1>6, <1>7, <1>8 DEF OnTurn, c
  <1>12. serialDepth[b] = 0 /\ serialDepth' = [serialDepth EXCEPT ![b] = 1]
    <2> DEFINE n == serialDepth[b] + 1
    <2>1. serialDepth[b] \in 0 .. 1 /\ serialDepth[b] # 1
      BY <1>11 DEF TurnInv
    <2>2. serialDepth[b] = 0 /\ n = 1
      BY <2>1
    <2>3. serialDepth' = [serialDepth EXCEPT ![b] = n]
      BY <1>4
    <2> QED
      BY <2>2, <2>3
  <1>13. \A x \in Calls :
        /\ call'[x].turn # "none" \/ call'[x].pc = "queued" =>
              \E i \in DOMAIN queue'[call'[x].bank] : queue'[call'[x].bank][i] = x
        /\ call'[x].pc = "queued" => call'[x].turn = "none" /\ call'[x].op \in Operations
        /\ call'[x].pc = "idle" => call'[x].turn = "none"
    BY <1>1, <1>4, <1>7, <1>8 DEF TurnInv
  <1> QED
    BY <1>9, <1>10, <1>11, <1>12, <1>13 DEF TurnInv

\* and makes place when it is over.
LEMMA EndTurnTurns ==
  ASSUME IInv, TurnInv, NEW c \in Calls, EndTurn(c)
  PROVE  TurnInv'
  <1> DEFINE b == call[c].bank
             s == [call[c] EXCEPT !.turn = "none"]
             q == queue[b]
             p == Tail(queue[b])
  <1>1. call[c] \in CallRecord /\ b \in Banks
    BY DEF IInv, CallsOK, CallRecord
  <1>2. /\ q \in Seq(Calls) /\ q # << >> /\ c = Head(q) /\ call[c].turn # "none"
        /\ Lined(q, call, b)
    BY <1>1 DEF IInv, EndTurn, TurnInv
  <1>3. /\ call' = [call EXCEPT ![c] = s] /\ queue' = [queue EXCEPT ![b] = p]
        /\ serialDepth' = [serialDepth EXCEPT ![b] = @ - 1]
    BY DEF EndTurn
  <1>4. s.pc = call[c].pc /\ s.bank = b /\ s.turn = "none" /\ s.op = call[c].op
    BY <1>1 DEF CallRecord
  <1>5. s.pc # "queued"
    BY <1>2, <1>4 DEF TurnInv
  <1>6. call'[c] = s /\ \A x \in Calls \ {c} : call'[x] = call[x]
    BY <1>3 DEF IInv, CallsOK
  <1>7. \A k \in Banks : queue[k] \in Seq(Calls) /\ queue'[k] = IF k = b THEN p ELSE queue[k]
    BY <1>3 DEF IInv
  <1> HIDE DEF s, b, q
  <1>8. /\ \A i \in DOMAIN p : i + 1 \in DOMAIN q /\ p[i] = q[i + 1] /\ i + 1 > 1
        /\ \A i \in DOMAIN q : i = 1 \/ (i - 1 \in DOMAIN p /\ p[i - 1] = q[i])
        /\ 1 \in DOMAIN q /\ q[1] = c
    BY <1>2 DEF q
  <1>9. \A i \in DOMAIN p : p[i] # c
    <2> SUFFICES ASSUME NEW i \in DOMAIN p, p[i] = c
                 PROVE  FALSE
      OBVIOUS
    <2>1. i + 1 = 1
      BY <1>2, <1>8 DEF Lined
    <2> QED
      BY <1>8, <2>1
  <1>10. \A k \in Banks : Lined(queue'[k], call', k)
    <2> TAKE k \in Banks
    <2>1. CASE k # b
      <3>1. Lined(queue[k], call, k)
        BY DEF TurnInv
      <3>2. \A i \in DOMAIN queue[k] : queue[k][i] # c
        BY <2>1, <3>1 DEF Lined, b
      <3> QED
        BY <1>6, <1>7, <2>1, <3>1, <3>2 DEF Lined
    <2>2. CASE k = b
      <3>1. queue'[k] = p
        BY <1>7, <2>2
      <3>2. \A i \in DOMAIN p : p[i] \in Calls /\ call'[p[i]] = call[p[i]]
        BY <1>2, <1>6, <1>8, <1>9 DEF Lined
      <3>3. \A i, j \in DOMAIN p : p[i] = p[j] => i = j
        <4> SUFFICES ASSUME NEW i \in DOMAIN p, NEW j \in DOMAIN p, p[i] = p[j]
                     PROVE  i = j
          OBVIOUS
        <4>1. i + 1 = j + 1
          BY <1>2, <1>8 DEF Lined
        <4>2. DOMAIN p \subseteq Nat
          BY <1>2 DEF q
        <4> QED
          BY <4>1, <4>2
      <3>4. \A i \in DOMAIN p :
              call[p[i]].bank = b /\ call[p[i]].turn = "none" /\ call[p[i]].pc = "queued"
        BY <1>2, <1>8 DEF Lined
      <3> HIDE DEF p
      <3> QED
        BY <2>2, <3>1, <3>2, <3>3, <3>4 DEF Lined
    <2> QED
      BY <2>1, <2>2
  <1>11. \A k \in Banks \ {b} : OnTurn(queue'[k], call') <=> OnTurn(queue[k], call)
    <2> TAKE k \in Banks \ {b}
    <2>1. queue[k] # << >> => Head(queue[k]) \in Calls /\ Head(queue[k]) # c
      BY DEF IInv, TurnInv, Lined, b
    <2> QED
      BY <1>6, <1>7, <2>1 DEF OnTurn
  <1>12. ~OnTurn(queue'[b], call') /\ OnTurn(queue[b], call)
    <2>1. p # << >> => 1 \in DOMAIN p /\ Head(p) = p[1]
      BY <1>2 DEF q
    <2>2. p # << >> => call'[Head(p)].turn = "none"
      <3> SUFFICES ASSUME p # << >>
                   PROVE  call'[Head(p)].turn = "none"
        OBVIOUS
      <3> DEFINE k == 1 + 1
      <3>1. k \in DOMAIN q /\ Head(p) = q[k] /\ k > 1 /\ Head(p) # c
        BY <1>8, <1>9, <2>1
      <3> HIDE DEF p, k
      <3>2. q[k] \in Calls /\ call[q[k]].turn = "none"
        BY <1>2, <3>1 DEF Lined
      <3> QED
        BY <1>6, <3>1, <3>2
    <2>3. queue'[b] = p /\ queue[b] = q
      BY <1>1, <1>7 DEF q
    <2> HIDE DEF p
    <2> QED
      BY <1>2, <2>2, <2>3 DEF OnTurn
  <1>13. serialDepth[b] = 1 /\ serialDepth' = [serialDepth EXCEPT ![b] = 0]
    <2> DEFINE n == serialDepth[b] - 1
    <2>1. serialDepth[b] = 1
      BY <1>1, <1>12 DEF TurnInv
    <2>3. n = 0
      BY <2>1
    <2>2. serialDepth' = [serialDepth EXCEPT ![b] = n]
      BY <1>3
    <2> QED
      BY <2>1, <2>2, <2>3
  <1>14. \A x \in Calls :
          call'[x].turn # "none" \/ call'[x].pc = "queued" =>
              \E i \in DOMAIN queue'[call'[x].bank] : queue'[call'[x].bank][i] = x
    <2> SUFFICES ASSUME NEW x \in Calls, call'[x].turn # "none" \/ call'[x].pc = "queued"
                 PROVE  \E i \in DOMAIN queue'[call'[x].bank] : queue'[call'[x].bank][i] = x
      OBVIOUS
    <2>1. x # c /\ call'[x] = call[x]
      BY <1>4, <1>5, <1>6
    <2>2. call[x].bank \in Banks
      BY DEF IInv, CallsOK, CallRecord
    <2>3. PICK i \in DOMAIN queue[call[x].bank] : queue[call[x].bank][i] = x
      BY <2>1 DEF TurnInv
    <2>4. CASE call[x].bank = b
      <3>1. i \in DOMAIN q /\ q[i] = x /\ queue'[call'[x].bank] = p
        BY <1>7, <2>1, <2>2, <2>3, <2>4 DEF q
      <3>2. i - 1 \in DOMAIN p /\ p[i - 1] = x
        BY <1>8, <2>1, <3>1
      <3> QED
        BY <3>1, <3>2
    <2>5. CASE call[x].bank # b
      BY <1>7, <2>1, <2>2, <2>3, <2>5
    <2> QED
      BY <2>4, <2>5
  <1>15. \A x \in Calls :
        /\ call'[x].pc = "queued" => call'[x].turn = "none" /\ call'[x].op \in Operations
        /\ call'[x].pc = "idle" => call'[x].turn = "none"
    BY <1>4, <1>5, <1>6 DEF TurnInv
  <1> QED
    BY <1>1, <1>10, <1>11, <1>12, <1>13, <1>14, <1>15 DEF TurnInv

\* Every step keeps the turns.
LEMMA NextTurnInv ==
  ASSUME IInv, TurnInv, [Next]_vars
  PROVE  TurnInv'
  <1>1. /\ call \in [Calls -> CallRecord]
        /\ \A c \in Calls : call[c].pc = "idle" => call[c].turn = "none"
        /\ \A c \in Calls : call[c].pc = "queued" => call[c].turn = "none"
    BY DEF IInv, CallsOK, TurnInv
  <1>2. \A kind, q, s, t, id : New(kind, q, s, t, id).turn = "none"
    BY DEF New, NoCall
  <1>3. ASSUME NEW c \in Calls,
               NEW kind \in {"feedback", "label", "delete", "retrieve"},
               NEW q \in Queries \cup {None}, NEW s \in Reasons, NEW t \in Tiers \cup {None},
               NEW id \in Nat \cup {None}, NEW op \in Operations,
               kind = "feedback" => id = None,
               RunSerialized(c, New(kind, q, s, t, id), op),
               call[c].pc = "idle", serialDepth' = serialDepth
        PROVE  TurnInv'
    <2>1. New(kind, q, s, t, id) \in CallRecord
      BY <1>3, NewCall
    <2> QED
      BY <1>1, <1>2, <1>3, <2>1, RunTurns
  <1>9. ASSUME NEW c \in Calls, NEW q \in Queries, NEW s \in Reasons, NEW t \in Tiers,
               Feedback(c, q, s, t)
        PROVE  TurnInv'
    BY <1>3, <1>9 DEF Feedback, Operations, Reasons
  <1>10. ASSUME NEW c \in Calls, NEW id \in Ids, NEW t \in Tiers, Relabel(c, id, t)
         PROVE  TurnInv'
    BY <1>3, <1>10 DEF Relabel, Operations, Reasons, Ids
  <1>11. ASSUME NEW c \in Calls, NEW id \in Ids, Remove(c, id)
         PROVE  TurnInv'
    BY <1>3, <1>11 DEF Remove, Operations, Reasons, Ids
  <1>12. ASSUME NEW c \in Calls, NEW q \in Queries, Retrieve(c, q)
         PROVE  TurnInv'
    BY <1>3, <1>12 DEF Retrieve, Operations, Reasons
  <1>4. ASSUME NEW c \in Calls, NEW q \in Queries, NEW s \in Strategies, NEW t \in Tiers,
               Directive(c, q, s, t)
        PROVE  TurnInv'
    <2> DEFINE r == New("directive", q, s, t, None)
               u == [r EXCEPT !.pc = "embed"]
    <2>1. r \in CallRecord /\ r.turn = "none"
      BY <1>2, NewCall DEF Reasons
    <2>2. /\ call' = [call EXCEPT ![c] = u] /\ queue' = queue /\ serialDepth' = serialDepth
          /\ call[c].pc = "idle"
      BY <1>4 DEF Directive
    <2>3. u.pc = "embed" /\ u.turn = "none"
      BY <2>1 DEF CallRecord
    <2> HIDE DEF u
    <2> QED
      BY <1>1, <2>2, <2>3, TurnsStay
  <1>5. ASSUME NEW c \in Calls, Embedded(c) \/ Decide(c) \/ AddInstead(c)
        PROVE  TurnInv'
    <2>1. PICK op \in Operations : RunSerialized(c, call[c], op)
      BY <1>5 DEF Embedded, Decide, AddInstead, Operation, Operations
    <2>2. call[c].pc # "queued" /\ serialDepth' = serialDepth /\ call[c] \in CallRecord
      BY <1>1, <1>5 DEF Embedded, Decide, AddInstead
    <2> QED
      BY <2>1, <2>2, RunTurns
  <1>6. ASSUME NEW c \in Calls, NotEmbedded(c)
        PROVE  TurnInv'
    <2> DEFINE s == [call[c] EXCEPT !.pc = "null"]
    <2>1. /\ call' = [call EXCEPT ![c] = s] /\ queue' = queue /\ serialDepth' = serialDepth
          /\ call[c].pc = "embed"
      BY <1>6 DEF NotEmbedded
    <2>2. s.pc = "null" /\ s.turn = call[c].turn /\ s.bank = call[c].bank
      BY <1>1 DEF CallRecord
    <2> HIDE DEF s
    <2> QED
      BY <2>1, <2>2, TurnsStay
  <1>7. ASSUME NEW c \in Calls, Return(c)
        PROVE  TurnInv'
    <2>1. /\ call' = [call EXCEPT ![c] = NoCall] /\ queue' = queue /\ serialDepth' = serialDepth
          /\ call[c].pc # "queued" /\ call[c].turn = "none"
      BY <1>7 DEF Return, Finished
    <2>2. NoCall.pc = "idle" /\ NoCall.turn = "none"
      BY DEF NoCall
    <2> QED
      BY <2>1, <2>2, TurnsStay
  <1>8. CASE UNCHANGED <<queue, serialDepth, call>>
    BY <1>8 DEF TurnInv, OnTurn
  <1>13. ASSUME NEW q \in Queries, NEW s \in Reasons, FeedbackOnly(q, s)
         PROVE  TurnInv'
    BY <1>8, <1>13 DEF FeedbackOnly
  <1>14. CASE Reload \/ ReloadFails \/ UNCHANGED vars
    BY <1>8, <1>14 DEF Reload, ReloadFails, vars
  <1> QED
    BY <1>4, <1>5, <1>6, <1>7, <1>9, <1>10, <1>11, <1>12, <1>13, <1>14, StartTurnTurns, EndTurnTurns
       DEF Next, Step

-----------------------------------------------------------------------------
(* The steps, as what one call does.                                       *)

\* The operations are those of the kind of call.
OpFits(kind, op) ==
    /\ op = "add" => kind \in Inserting
    /\ op = "delete" => kind = "delete"
    /\ op = "update" => kind \in {"feedback", "label"}
    /\ op = "feedback" => kind = "feedback"

CallFits(r) ==
    /\ r.pc = "queued" => OpFits(r.kind, r.op)
    /\ r.pc = "embed" => r.kind \in Inserting

SameData(s, r) ==
    /\ s.kind = r.kind /\ s.query = r.query /\ s.strategy = r.strategy /\ s.tier = r.tier
    /\ s.id = r.id /\ s.bank = r.bank

\* They differ at most in whose turn it is.
Like(s, r) == SameData(s, r) /\ s.pc = r.pc /\ s.op = r.op

\* The call c, as the record r, runs op or queues for it.
Runs(c, r, op) ==
    \/ db' = Effect(db, r, op).db /\ Like(call'[c], Effect(db, r, op).call)
    \/ db' = db /\ SameData(call'[c], r) /\ call'[c].pc = "queued" /\ call'[c].op = op

\* A feedback or a delete is known to the others from its beginning.
Begins(c, r) ==
    /\ call[c].kind = "none" /\ r.bank = bank /\ r.kind # "none"
    /\ r.kind \in Inserting =>
          MayInsert /\ r.query \in Queries /\ r.tier \in Tiers /\ r.id = None
    /\ r.kind = "label" => r.tier \in Tiers
    /\ r.id \in Ids \cup {None}
    /\ overlap' = IF r.kind \in Busy THEN Overlaps(r) ELSE overlap

\* What a call that goes on has to run next.
Due(r, op) ==
    \/ r.pc = "queued" /\ op = r.op
    \/ r.pc = "embed" /\ op = IF r.kind = "feedback" THEN "search" ELSE "add"
    \/ r.pc = "decide" /\ r.kind = "feedback" /\ op = Operation(r)
    \/ r.pc = "missed" /\ r.kind = "feedback" /\ op = "add"

\* What a call does short of that: a directive begins, an embedding fails, a turn ends, the
\* caller has its answer.
Rests(c) ==
    /\ db' = db
    /\ \/ Begins(c, call'[c]) /\ call'[c].kind = "directive" /\ call'[c].pc = "embed"
       \/ overlap' = overlap /\ call[c].pc = "embed" /\ call'[c].pc = "null"
          /\ SameData(call'[c], call[c])
       \/ overlap' = overlap /\ Like(call'[c], call[c])
       \/ overlap' = overlap /\ call'[c] = NoCall

CallSteps(c) ==
    /\ \A x \in Calls \ {c} : call'[x] = call[x]
    /\ \/ Rests(c)
       \/ \E r \in CallRecord, op \in Operations :
            /\ Runs(c, r, op)
            /\ \/ Begins(c, r) /\ OpFits(r.kind, op) /\ (r.kind \in Inserting => op = "feedback")
               \/ r = call[c] /\ Due(r, op) /\ overlap' = overlap

\* runSerialized runs, or queues for, what it is given.
LEMMA RunIs ==
  ASSUME IInv, NEW c \in Calls, NEW r \in CallRecord, NEW op, RunSerialized(c, r, op)
  PROVE  (\A x \in Calls \ {c} : call'[x] = call[x]) /\ Runs(c, r, op)
  <1> DEFINE e == Effect(db, r, op)
             s == [r EXCEPT !.pc = "queued", !.op = op]
  <1>1. \/ db' = e.db /\ call' = [call EXCEPT ![c] = e.call]
        \/ db' = db /\ call' = [call EXCEPT ![c] = s]
    BY DEF RunSerialized
  <1>2. SameData(s, r) /\ s.pc = "queued" /\ s.op = op
    BY DEF SameData, CallRecord
  <1>3. Like(e.call, e.call)
    BY DEF Like, SameData
  <1> HIDE DEF s
  <1>4. CASE db' = e.db /\ call' = [call EXCEPT ![c] = e.call]
    <2> HIDE DEF e
    <2>1. /\ \A x \in Calls \ {c} : call'[x] = call[x]
          /\ db' = e.db /\ Like(call'[c], e.call)
      BY <1>3, <1>4 DEF IInv, CallsOK
    <2> QED
      BY <2>1 DEF e, Runs
  <1>5. CASE db' = db /\ call' = [call EXCEPT ![c] = s]
    BY <1>2, <1>5 DEF IInv, CallsOK, Runs
  <1> QED
    BY <1>1, <1>4, <1>5

\* A new call is of its kind.
LEMMA NewIs ==
  ASSUME NEW kind, NEW q, NEW s, NEW t, NEW id
  PROVE  /\ New(kind, q, s, t, id).kind = kind /\ New(kind, q, s, t, id).query = q
         /\ New(kind, q, s, t, id).tier = t /\ New(kind, q, s, t, id).id = id
         /\ New(kind, q, s, t, id).bank = bank
  BY DEF New, NoCall

\* Every step is one call's, or leaves the calls.
LEMMA StepIs ==
  ASSUME IInv, TurnInv, [Next]_vars
  PROVE  UNCHANGED <<db, call, overlap>> \/ \E c \in Calls : CallSteps(c)
  <1> DEFINE Goal == \E c \in Calls : CallSteps(c)
  <1>1. /\ call \in [Calls -> CallRecord] /\ None \notin Nat
        /\ \A c \in Calls : call[c].pc = "idle" => call[c].kind = "none"
    BY MemoryAssumption DEF IInv, CallsOK, CallOK
  <1>2. ASSUME NEW c \in Calls, NEW q \in Queries, NEW s \in Reasons, NEW t \in Tiers,
               Feedback(c, q, s, t)
        PROVE  Goal
    <2> DEFINE r == New("feedback", q, s, t, None)
    <2>1. r \in CallRecord
      BY NewCall DEF Reasons
    <2>2. Begins(c, r)
      BY <1>1, <1>2, NewIs DEF Feedback, Begins, Busy, Inserting
    <2>3. OpFits(r.kind, "feedback")
      BY NewIs DEF OpFits
    <2>4. RunSerialized(c, r, "feedback")
      BY <1>2 DEF Feedback
    <2> HIDE DEF r
    <2> QED
      BY <2>1, <2>2, <2>3, <2>4, RunIs DEF CallSteps, Operations
  <1>3. ASSUME NEW c \in Calls, NEW q \in Queries, NEW s \in Strategies, NEW t \in Tiers,
               Directive(c, q, s, t)
        PROVE  Goal
    <2> DEFINE r == New("directive", q, s, t, None)
               u == [r EXCEPT !.pc = "embed"]
    <2>1. r \in CallRecord
      BY NewCall DEF Reasons
    <2>2. /\ u.kind = "directive" /\ u.pc = "embed" /\ u.query = q /\ u.tier = t /\ u.id = None
          /\ u.bank = bank
      BY <2>1, NewIs DEF CallRecord
    <2>3. call' = [call EXCEPT ![c] = u] /\ db' = db
      BY <1>3 DEF Directive
    <2> HIDE DEF u
    <2>4. call'[c] = u /\ \A x \in Calls \ {c} : call'[x] = call[x]
      BY <1>1, <2>3
    <2>5. Begins(c, u)
      BY <1>1, <1>3, <2>2 DEF Directive, Begins, Busy, Inserting
    <2> QED
      BY <2>2, <2>3, <2>4, <2>5 DEF CallSteps, Rests
  <1>4. ASSUME NEW c \in Calls, NEW id \in Ids, NEW t \in Tiers, Relabel(c, id, t)
        PROVE  Goal
    <2> DEFINE r == New("label", None, None, t, id)
    <2>1. r \in CallRecord
      BY NewCall DEF Ids, Reasons
    <2>2. Begins(c, r)
      BY <1>1, <1>4, NewIs DEF Relabel, Begins, Busy, Inserting
    <2>3. OpFits(r.kind, "update") /\ r.kind \notin Inserting
      BY NewIs DEF OpFits, Inserting
    <2>4. RunSerialized(c, r, "update")
      BY <1>4 DEF Relabel
    <2> HIDE DEF r
    <2> QED
      BY <2>1, <2>2, <2>3, <2>4, RunIs DEF CallSteps, Operations
  <1>5. ASSUME NEW c \in Calls, NEW id \in Ids, Remove(c, id)
        PROVE  Goal
    <2> DEFINE r == New("delete", None, None, None, id)
    <2>1. r \in CallRecord
      BY Z3, NewCall DEF Ids, Reasons
    <2>2. Begins(c, r)
      BY <1>1, <1>5, NewIs DEF Remove, Begins, Busy, Inserting
    <2>3. OpFits(r.kind, "delete") /\ r.kind \notin Inserting
      BY NewIs DEF OpFits, Inserting
    <2>4. RunSerialized(c, r, "delete")
      BY <1>5 DEF Remove
    <2> HIDE DEF r
    <2> QED
      BY <2>1, <2>2, <2>3, <2>4, RunIs DEF CallSteps, Operations
  <1>6. ASSUME NEW c \in Calls, NEW q \in Queries, Retrieve(c, q)
        PROVE  Goal
    <2> DEFINE r == New("retrieve", q, None, None, None)
    <2>1. r \in CallRecord
      BY NewCall DEF Reasons
    <2>2. Begins(c, r)
      BY <1>1, <1>6, NewIs DEF Retrieve, Begins, Busy, Inserting
    <2>3. OpFits(r.kind, "search") /\ r.kind \notin Inserting
      BY NewIs DEF OpFits, Inserting
    <2>4. RunSerialized(c, r, "search")
      BY <1>6 DEF Retrieve
    <2> HIDE DEF r
    <2> QED
      BY <2>1, <2>2, <2>3, <2>4, RunIs DEF CallSteps, Operations
  <1>7. ASSUME NEW c \in Calls, Embedded(c) \/ Decide(c) \/ AddInstead(c)
        PROVE  Goal
    <2>1. PICK op \in {"search", "add", "update"} :
             RunSerialized(c, call[c], op) /\ Due(call[c], op)
      BY <1>7 DEF Embedded, Decide, AddInstead, Operation, Due
    <2>2. overlap' = overlap
      BY <1>7 DEF Embedded, Decide, AddInstead
    <2>3. call[c] \in CallRecord
      BY <1>1
    <2> QED
      BY <2>1, <2>2, <2>3, RunIs DEF CallSteps, Operations
  <1>8. ASSUME NEW c \in Calls, NotEmbedded(c)
        PROVE  Goal
    <2> DEFINE s == [call[c] EXCEPT !.pc = "null"]
    <2>1. SameData(s, call[c]) /\ s.pc = "null"
      BY <1>1 DEF SameData, CallRecord
    <2>2. /\ call' = [call EXCEPT ![c] = s] /\ db' = db /\ overlap' = overlap
          /\ call[c].pc = "embed"
      BY <1>8 DEF NotEmbedded
    <2> HIDE DEF s
    <2>3. call'[c] = s /\ \A x \in Calls \ {c} : call'[x] = call[x]
      BY <1>1, <2>2
    <2> QED
      BY <2>1, <2>2, <2>3 DEF CallSteps, Rests
  <1>9. ASSUME NEW c \in Calls, EndTurn(c)
        PROVE  Goal
    <2> DEFINE s == [call[c] EXCEPT !.turn = "none"]
    <2>1. Like(s, call[c])
      BY <1>1 DEF Like, SameData, CallRecord
    <2>2. call' = [call EXCEPT ![c] = s] /\ db' = db /\ overlap' = overlap
      BY <1>9 DEF EndTurn
    <2> HIDE DEF s
    <2>3. call'[c] = s /\ \A x \in Calls \ {c} : call'[x] = call[x]
      BY <1>1, <2>2
    <2> QED
      BY <2>1, <2>2, <2>3 DEF CallSteps, Rests
  <1>10. ASSUME NEW c \in Calls, Return(c)
         PROVE  Goal
    <2>1. call' = [call EXCEPT ![c] = NoCall] /\ db' = db /\ overlap' = overlap
      BY <1>10 DEF Return
    <2>2. call'[c] = NoCall /\ \A x \in Calls \ {c} : call'[x] = call[x]
      BY <1>1, <2>1
    <2> QED
      BY <2>1, <2>2 DEF CallSteps, Rests
  <1>11. ASSUME NEW b \in Banks, StartTurn(b)
         PROVE  Goal
    <2> DEFINE c == Head(queue[b])
               e == Effect(db, call[c], call[c].op)
               t == IF call[c].op = "feedback" THEN "body" ELSE "op"
               s == [e.call EXCEPT !.turn = t]
    <2>1. c \in Calls /\ Lined(queue[b], call, b) /\ call[c].turn = "none"
      BY <1>11, HeadTailProperties DEF IInv, StartTurn, TurnInv
    <2>2. call[c].pc = "queued"
      <3>1. c = queue[b][1] /\ 1 \in DOMAIN queue[b]
        BY <1>11 DEF StartTurn, IInv
      <3> QED
        BY <2>1, <3>1 DEF Lined
    <2>3. call[c] \in CallRecord /\ call[c].op \in Operations
      BY <1>1, <2>1, <2>2 DEF TurnInv
    <2>4. /\ call' = [call EXCEPT ![c] = s] /\ db' = e.db /\ overlap' = overlap
      BY <1>11 DEF StartTurn
    <2>5. e.call \in CallRecord
      BY <2>1, <2>3, EffectSound DEF IInv, CallsOK, CallOK, Sound
    <2> HIDE DEF t
    <2>6. Like(s, e.call)
      BY <2>5 DEF Like, SameData, CallRecord
    <2> HIDE DEF s
    <2>7. call'[c] = s /\ \A x \in Calls \ {c} : call'[x] = call[x]
      BY <1>1, <2>1, <2>4
    <2>8. Runs(c, call[c], call[c].op)
      BY <2>4, <2>6, <2>7 DEF Runs
    <2> HIDE DEF c
    <2> QED
      BY <2>1, <2>2, <2>3, <2>4, <2>7, <2>8 DEF CallSteps, Due
  <1>12. ASSUME NEW q \in Queries, NEW s \in Reasons, FeedbackOnly(q, s)
         PROVE  UNCHANGED <<db, call, overlap>>
    BY <1>12 DEF FeedbackOnly
  <1>13. CASE Reload \/ ReloadFails \/ UNCHANGED vars
    BY <1>13 DEF Reload, ReloadFails, vars
  <1> QED
    BY <1>2, <1>3, <1>4, <1>5, <1>6, <1>7, <1>8, <1>9, <1>10, <1>11, <1>12, <1>13 DEF Next, Step

-----------------------------------------------------------------------------
(* One slot for the feedbacks of a prompt and a strategy.                  *)

\* The items of these feedbacks.
Slot(d, q, s) ==
    {id \in DOMAIN d.items :
        d.items[id].by = "feedback" /\ d.items[id].query = q /\ d.items[id].strategy = s}

OneItem(d) == \A q, s : s # None => \A x, y \in Slot(d, q, s) : x = y

\* The bank of r may insert only where there is no item of its slot.
Fresh(d, r) == d.dim \in {None, Dim[r.bank]} => Slot(d, r.query, r.strategy) = {}

\* An update of what r has found makes no second item of its slot.
Owns(d, r) ==
    /\ r.id \in DOMAIN d.items
    /\ d.items[r.id].by = "feedback" => Slot(d, r.query, r.strategy) \subseteq {r.id}

Ready(d, r, op) == (op = "update" => Owns(d, r)) /\ (op = "add" => Fresh(d, r))

Named(r) == r.kind = "feedback" /\ r.strategy # None

\* What the feedback r has found is so until it acts on it.
Alone(d, r) ==
    Named(r) =>
        /\ r.pc # "missed"
        /\ (r.pc = "decide" /\ r.id # None) \/ (r.pc = "queued" /\ r.op = "update") => Owns(d, r)
        /\ (r.pc = "decide" /\ r.id = None) \/ (r.pc = "queued" /\ r.op = "add") => Fresh(d, r)

\* While no two feedbacks of a slot, and no feedback and a delete, are in progress together.
SlotInv ==
    /\ \A c \in Calls : CallFits(call[c])
    /\ ~overlap =>
        /\ \A c, x \in Calls : c # x => ~Interfere(call[c], call[x])
        /\ \A c \in Calls : Alone(db, call[c])
        /\ OneItem(db)

\* From d to e nothing of the slot is added, and nothing at all removed.
Spares(d, e, q, s) ==
    /\ d.dim \in {None, e.dim}
    /\ \A id \in DOMAIN d.items : id \in DOMAIN e.items /\ e.items[id].by = d.items[id].by
    /\ Slot(e, q, s) \subseteq Slot(d, q, s)

\* So does r with every slot but its own.
SparesOthers(d, e, r) ==
    \A q, s : (s # None /\ (r.kind = "feedback" => ~(q = r.query /\ s = r.strategy))) =>
        Spares(d, e, q, s)

LEMMA SparesItself ==
  ASSUME NEW d
  PROVE  \A r : SparesOthers(d, d, r)
  BY DEF SparesOthers, Spares

\* A feedback whose slot is spared still finds things as it left them.
LEMMA SparesAlone ==
  ASSUME NEW d, NEW e, NEW r, Named(r) => Spares(d, e, r.query, r.strategy), Alone(d, r)
  PROVE  Alone(e, r)
  <1> SUFFICES ASSUME Named(r) PROVE Alone(e, r)
    BY DEF Alone
  <1>1. Owns(d, r) => Owns(e, r)
    BY DEF Spares, Owns
  <1>2. Fresh(d, r) => Fresh(e, r)
    BY DEF Spares, Fresh
  <1> QED
    BY <1>1, <1>2 DEF Alone

\* A search finds what is there, or that the slot is fresh.
LEMMA SearchAlone ==
  ASSUME NEW d, DbOK(d), NEW r \in CallRecord
  PROVE  /\ Search(d, r).db = d /\ (OneItem(d) => Alone(d, Search(d, r).call))
         /\ Search(d, r).call.pc = "decide" /\ Search(d, r).call.id \in DOMAIN d.items \cup {None}
  <1>1. PICK found \in Matching(d, r) \cup {None} :
            /\ found = None => Matching(d, r) = {}
            /\ [r EXCEPT !.id = found] \in CallRecord
            /\ Search(d, r) = Result(d, [r EXCEPT !.id = found], "decide")
    BY SearchIs
  <1> DEFINE s == [r EXCEPT !.id = found]
             t == Search(d, r).call
  <1>2. /\ s \in CallRecord /\ s.id = found /\ s.query = r.query /\ s.strategy = r.strategy
        /\ s.bank = r.bank
    BY <1>1 DEF CallRecord
  <1>3. Search(d, r) = Result(d, s, "decide")
    BY <1>1
  <1> HIDE DEF s
  <1>4. /\ Search(d, r).db = d /\ t.pc = "decide" /\ t.id = found /\ t.query = r.query
        /\ t.strategy = r.strategy /\ t.bank = r.bank
    <2>1. LET u == Result(d, s, "decide")
          IN  /\ u.db = d /\ u.call.pc = "decide" /\ u.call.id = s.id /\ u.call.query = s.query
              /\ u.call.strategy = s.strategy /\ u.call.bank = s.bank
      BY <1>2, ResultIs
    <2> QED
      BY <1>2, <1>3, <2>1
  <1>5. found \in DOMAIN d.items \cup {None}
    BY DEF Matching
  <1> HIDE DEF t
  <1>6. ASSUME OneItem(d), t.strategy # None, found # None
        PROVE  Owns(d, t)
    <2>1. /\ found \in DOMAIN d.items /\ d.items[found].query = t.query
          /\ d.items[found].strategy = t.strategy
      BY <1>4, <1>6 DEF Matching
    <2>2. d.items[found].by = "feedback" => found \in Slot(d, t.query, t.strategy)
      BY <2>1 DEF Slot
    <2>3. d.items[found].by = "feedback" => Slot(d, t.query, t.strategy) \subseteq {found}
      BY <1>6, <2>2 DEF OneItem
    <2> QED
      BY <1>4, <2>1, <2>3 DEF Owns
  <1>7. ASSUME found = None, t.strategy # None
        PROVE  Fresh(d, t)
    <2>1. Matching(d, r) = {}
      BY <1>1, <1>7
    <2>2. d.dim = None => DOMAIN d.items = {}
      BY DEF DbOK
    <2> QED
      BY <1>4, <1>7, <2>1, <2>2 DEF Fresh, Slot, Matching
  <1>8. OneItem(d) => Alone(d, t)
    BY <1>4, <1>6, <1>7 DEF Alone, Named
  <1> QED
    BY <1>4, <1>5, <1>8 DEF t

\* An update that finds its item changes no other slot,
LEMMA UpdateAlone ==
  ASSUME NEW d, DbOK(d), NEW r \in CallRecord, Found(d, r), OneItem(d), Named(r) => Owns(d, r)
  PROVE  /\ OneItem(Update(d, r).db) /\ SparesOthers(d, Update(d, r).db, r)
         /\ Update(d, r).call.pc = IF r.id \in DOMAIN d.items THEN "stored" ELSE "missed"
  <1>1. CASE r.id \notin DOMAIN d.items
    BY <1>1, ResultIs, SparesItself DEF Update
  <1>2. CASE r.id \in DOMAIN d.items
    <2> DEFINE e == Updated(d, r)
    <2>1. Update(d, r) = Result(e, r, "stored")
      BY <1>2 DEF Update
    <2>2. Changes(d, e, r)
      BY <1>2, UpdatedIs
    <2> HIDE DEF e
    <2>3. r.kind = "feedback" => d.items[r.id].query = r.query
      <3>1. DOMAIN d.items \subseteq Nat
        BY TableIs DEF DbOK, Database
      <3> QED
        BY <1>2, <3>1, MemoryAssumption DEF Found
    <2>4. ASSUME NEW q, NEW s, r.kind = "feedback" => ~(q = r.query /\ s = r.strategy)
          PROVE  Slot(e, q, s) \subseteq Slot(d, q, s)
      BY <2>2, <2>3, <2>4 DEF Changes, Slot
    <2>5. SparesOthers(d, e, r)
      BY <2>2, <2>4 DEF Changes, SparesOthers, Spares
    <2>6. ASSUME Named(r)
          PROVE  \A x, y \in Slot(e, r.query, r.strategy) : x = y
      <3>1. Slot(e, r.query, r.strategy) \subseteq Slot(d, r.query, r.strategy) \cup {r.id}
        BY <2>2 DEF Changes, Slot
      <3>2. d.items[r.id].by # "feedback" =>
               Slot(e, r.query, r.strategy) \subseteq Slot(d, r.query, r.strategy)
        BY <2>2 DEF Changes, Slot
      <3>3. d.items[r.id].by = "feedback" => Slot(d, r.query, r.strategy) \subseteq {r.id}
        BY <2>6 DEF Owns
      <3>4. \A x, y \in Slot(d, r.query, r.strategy) : x = y
        BY <2>6 DEF OneItem, Named
      <3> QED
        BY <3>1, <3>2, <3>3, <3>4
    <2>7. OneItem(e)
      <3> SUFFICES ASSUME NEW q, NEW s, s # None
                   PROVE  \A x, y \in Slot(e, q, s) : x = y
        BY DEF OneItem
      <3>1. CASE r.kind = "feedback" /\ q = r.query /\ s = r.strategy
        BY <2>6, <3>1 DEF Named
      <3>2. CASE ~(r.kind = "feedback" /\ q = r.query /\ s = r.strategy)
        BY <2>4, <3>2 DEF OneItem
      <3> QED
        BY <3>1, <3>2
    <2> QED
      BY <1>2, <2>1, <2>5, <2>7, ResultIs
  <1> QED
    BY <1>1, <1>2

\* an insertion into a fresh slot is the only one there,
LEMMA AddAlone ==
  ASSUME NEW d, DbOK(d), NEW r \in CallRecord, OneItem(d), Named(r) => Fresh(d, r)
  PROVE  /\ OneItem(Add(d, r).db) /\ SparesOthers(d, Add(d, r).db, r)
         /\ Add(d, r).call.pc \in {"stored", "failed"}
  <1> DEFINE dim == Dim[r.bank]
             item == [query |-> r.query, strategy |-> r.strategy, tier |-> r.tier,
                      by |-> IF r.kind = "feedback" THEN "feedback" ELSE "directive"]
             items == With(d.items, d.next, item)
             e == [items |-> items,
                   vectors |-> With(d.vectors, d.next, [tier |-> r.tier, dim |-> dim]),
                   dim |-> dim, next |-> d.next + 1]
             s == [r EXCEPT !.id = d.next]
  <1>1. CASE d.dim \notin {None, dim}
    BY <1>1, ResultIs, SparesItself DEF Add
  <1>2. CASE d.dim \in {None, dim}
    <2>1. Add(d, r) = Result(e, s, "stored")
      BY <1>2 DEF Add
    <2>2. /\ item.query = r.query /\ item.strategy = r.strategy
          /\ item.by = IF r.kind = "feedback" THEN "feedback" ELSE "directive"
          /\ e.items = items /\ e.dim = dim
      OBVIOUS
    <2>3. d.next \in Nat /\ DOMAIN d.items \subseteq Nat /\ d.next \notin DOMAIN d.items
      BY TableIs DEF DbOK, Database
    <2>4. Result(e, s, "stored").db = e /\ Result(e, s, "stored").call.pc = "stored"
      <3>1. s \in CallRecord
        BY <2>3 DEF CallRecord
      <3> HIDE DEF e, s
      <3> QED
        BY <3>1, ResultIs
    <2> HIDE DEF item, e, s
    <2>5. /\ DOMAIN items = DOMAIN d.items \cup {d.next} /\ items[d.next] = item
          /\ \A id \in DOMAIN d.items : items[id] = d.items[id]
      BY <2>3 DEF With
    <2> HIDE DEF items
    <2>6. ASSUME NEW q, NEW t, r.kind = "feedback" => ~(q = r.query /\ t = r.strategy)
          PROVE  Slot(e, q, t) \subseteq Slot(d, q, t)
      BY <2>2, <2>5, <2>6 DEF Slot
    <2>7. SparesOthers(d, e, r)
      BY <1>2, <2>2, <2>3, <2>5, <2>6 DEF SparesOthers, Spares
    <2>8. Named(r) => \A x, y \in Slot(e, r.query, r.strategy) : x = y
      <3>1. Slot(e, r.query, r.strategy) \subseteq Slot(d, r.query, r.strategy) \cup {d.next}
        BY <2>2, <2>5 DEF Slot
      <3>2. Named(r) => Slot(d, r.query, r.strategy) = {}
        BY <1>2 DEF Fresh
      <3> QED
        BY <3>1, <3>2
    <2>9. OneItem(e)
      <3> SUFFICES ASSUME NEW q, NEW t, t # None
                   PROVE  \A x, y \in Slot(e, q, t) : x = y
        BY DEF OneItem
      <3>1. CASE r.kind = "feedback" /\ q = r.query /\ t = r.strategy
        BY <2>8, <3>1 DEF Named
      <3>2. CASE ~(r.kind = "feedback" /\ q = r.query /\ t = r.strategy)
        BY <2>6, <3>2 DEF OneItem
      <3> QED
        BY <3>1, <3>2
    <2> QED
      BY <2>1, <2>4, <2>7, <2>9
  <1> QED
    BY <1>1, <1>2

\* and a deletion leaves no more than there was.
LEMMA DeleteAlone ==
  ASSUME NEW d, DbOK(d), NEW r \in CallRecord, OneItem(d)
  PROVE  OneItem(Delete(d, r).db) /\ Delete(d, r).call.pc = "stored"
  <1> DEFINE items == Without(d.items, r.id)
             e == [d EXCEPT !.items = items, !.vectors = Without(d.vectors, r.id)]
  <1>1. Delete(d, r) = Result(e, r, "stored")
    BY DEF Delete
  <1>2. e.items = items
    BY DEF DbOK, Database
  <1>3. DOMAIN items \subseteq DOMAIN d.items /\ \A id \in DOMAIN items : items[id] = d.items[id]
    BY DEF Without
  <1> HIDE DEF items, e
  <1>4. \A q, s : Slot(e, q, s) \subseteq Slot(d, q, s)
    BY <1>2, <1>3 DEF Slot
  <1>5. OneItem(e)
    BY <1>4 DEF OneItem
  <1> QED
    BY <1>1, <1>5, ResultIs

\* So whatever runs spares the slots of others, or is a deletion.
LEMMA EffectAlone ==
  ASSUME NEW d, DbOK(d), NEW r \in CallRecord, Found(d, r), NEW op \in Operations,
         OpFits(r.kind, op), OneItem(d), Named(r) => Ready(d, r, op)
  PROVE  LET e == Effect(d, r, op)
         IN  /\ OneItem(e.db) /\ Alone(e.db, e.call)
             /\ r.kind # "delete" => SparesOthers(d, e.db, r)
  <1> DEFINE e == Effect(d, r, op)
  <1>1. e.call.pc # "queued" /\ e.call.kind = r.kind /\ e.call.strategy = r.strategy
    BY EffectTurn, EffectKind
  <1>2. SparesOthers(d, d, r)
    BY SparesItself
  <1>3. ASSUME e.call.pc \notin {"decide", "missed"}
        PROVE  Alone(e.db, e.call)
    BY <1>1, <1>3 DEF Alone
  <1>4. CASE op = "feedback" \/ ~Open(r)
    <2>1. e = Result(d, r, "embed") \/ e = Result(d, r, "failed")
      BY <1>4 DEF Effect
    <2> HIDE DEF e
    <2>2. e.db = d /\ e.call.pc \in {"embed", "failed"}
      BY <2>1, ResultIs
    <2> QED
      BY <1>2, <1>3, <2>2 DEF e
  <1>5. CASE op = "update" /\ Open(r)
    <2>1. e = Update(d, r)
      BY <1>5 DEF Effect
    <2>2. Named(r) => Owns(d, r)
      BY <1>5 DEF Ready
    <2>3. OneItem(e.db) /\ SparesOthers(d, e.db, r)
      BY <2>1, <2>2, UpdateAlone
    <2>4. e.call.pc = "stored" \/ (e.call.pc = "missed" /\ ~Named(r))
      BY <2>1, <2>2, UpdateAlone DEF Owns
    <2> HIDE DEF e
    <2>5. Alone(e.db, e.call)
      BY <1>1, <1>3, <2>4 DEF Alone, Named
    <2> QED
      BY <2>3, <2>5 DEF e
  <1>6. CASE op = "add" /\ Open(r)
    <2>1. e = Add(d, r)
      BY <1>6 DEF Effect
    <2>2. /\ OneItem(e.db) /\ SparesOthers(d, e.db, r) /\ e.call.pc \in {"stored", "failed"}
      BY <1>6, <2>1, AddAlone DEF Ready
    <2> QED
      BY <1>3, <2>2
  <1>7. CASE op = "delete" /\ Open(r)
    <2>1. e = Delete(d, r) /\ r.kind = "delete"
      BY <1>7 DEF Effect, OpFits
    <2>2. OneItem(e.db) /\ e.call.pc = "stored"
      BY <2>1, DeleteAlone
    <2> QED
      BY <1>3, <2>1, <2>2
  <1>8. CASE op = "search" /\ Open(r)
    <2>1. e = Search(d, r)
      BY <1>8 DEF Effect
    <2> QED
      BY <1>2, <2>1, SearchAlone
  <1> HIDE DEF e
  <1> QED
    BY <1>4, <1>5, <1>6, <1>7, <1>8 DEF Operations, e

\* While one call moves, the others find things as they left them.
LEMMA SlotStays ==
  ASSUME IInv, SlotInv, NEW c \in Calls, \A x \in Calls \ {c} : call'[x] = call[x],
         CallFits(call'[c]),
         ~overlap' =>
            /\ ~overlap /\ OneItem(db') /\ Alone(db', call'[c])
            /\ \A x \in Calls \ {c} : ~Interfere(call'[c], call[x])
            /\ call'[c].kind # "delete" \/ db' = db => SparesOthers(db, db', call'[c])
  PROVE  SlotInv'
  <1>1. \A x \in Calls : CallFits(call'[x])
    BY DEF SlotInv
  <1>2. \A r, s : Interfere(r, s) => Interfere(s, r)
    BY DEF Interfere
  <1>3. ASSUME ~overlap', NEW x \in Calls, NEW y \in Calls, x # y
        PROVE  ~Interfere(call'[x], call'[y])
    BY <1>2, <1>3 DEF SlotInv
  <1>4. ASSUME ~overlap', NEW x \in Calls \ {c}
        PROVE  Alone(db', call[x])
    <2>1. ~Interfere(call'[c], call[x]) /\ Alone(db, call[x])
      BY <1>4 DEF SlotInv
    <2>2. CASE ~Named(call[x])
      BY <2>2 DEF Alone
    <2>3. CASE Named(call[x])
      <3>1. call'[c].kind # "delete"
        BY <2>1, <2>3 DEF Interfere, Named
      <3>2. call'[c].kind = "feedback" =>
               ~(call[x].query = call'[c].query /\ call[x].strategy = call'[c].strategy)
        BY <2>1, <2>3 DEF Interfere, Named
      <3>3. Spares(db, db', call[x].query, call[x].strategy)
        BY <1>4, <2>3, <3>1, <3>2 DEF SparesOthers, Named
      <3> QED
        BY <2>1, <3>3, SparesAlone
    <2> QED
      BY <2>2, <2>3
  <1>5. ASSUME ~overlap', NEW x \in Calls
        PROVE  Alone(db', call'[x])
    BY <1>4, <1>5
  <1> QED
    BY <1>1, <1>3, <1>5 DEF SlotInv

\* A call that begins while it interferes with no other.
LEMMA BeginsAlone ==
  ASSUME SlotInv, NEW c \in Calls, NEW r, Begins(c, r), ~overlap'
  PROVE  ~overlap /\ \A x \in Calls : ~Interfere(r, call[x])
  <1>1. CASE r.kind \in Busy
    BY <1>1 DEF Begins, Overlaps
  <1>2. CASE r.kind \notin Busy
    BY <1>2 DEF Begins, Interfere, Busy
  <1> QED
    BY <1>1, <1>2

\* What is due fits, and what it relies on is so.
LEMMA DueFits ==
  ASSUME SlotInv, NEW c \in Calls, NEW op, Due(call[c], op)
  PROVE  /\ OpFits(call[c].kind, op)
         /\ ~overlap /\ Named(call[c]) => Ready(db, call[c], op)
  <1>1. OpFits(call[c].kind, op)
    BY DEF SlotInv, CallFits, OpFits, Due, Operation, Inserting
  <1>2. ~overlap /\ Named(call[c]) => Ready(db, call[c], op)
    BY DEF SlotInv, Due, Operation, Alone, Ready, Named
  <1> QED
    BY <1>1, <1>2

\* Calls of the same data interfere with the same others.
LEMMA SameInterfere ==
  ASSUME NEW s, NEW r, SameData(s, r)
  PROVE  \A x : Interfere(s, x) <=> Interfere(r, x)
  BY DEF SameData, Interfere

\* Every step keeps the slots.
LEMMA NextSlotInv ==
  ASSUME IInv, TurnInv, SlotInv, [Next]_vars
  PROVE  SlotInv'
  <1>1. CASE UNCHANGED <<db, call, overlap>>
    BY <1>1 DEF SlotInv
  <1>2. ASSUME NEW c \in Calls, \A x \in Calls \ {c} : call'[x] = call[x], Rests(c)
        PROVE  SlotInv'
    <2>1. db' = db /\ \A r : SparesOthers(db, db', r)
      BY <1>2, SparesItself DEF Rests
    <2>2. CASE /\ Begins(c, call'[c]) /\ call'[c].kind = "directive" /\ call'[c].pc = "embed"
      <3>1. CallFits(call'[c]) /\ Alone(db', call'[c])
        BY <2>2 DEF CallFits, Alone, Named, Inserting
      <3>2. ~overlap' => ~overlap /\ \A x \in Calls \ {c} : ~Interfere(call'[c], call[x])
        BY <2>2, BeginsAlone
      <3> QED
        BY <1>2, <2>1, <3>1, <3>2, SlotStays DEF SlotInv
    <2>3. CASE /\ overlap' = overlap /\ call[c].pc = "embed" /\ call'[c].pc = "null"
               /\ SameData(call'[c], call[c])
      <3>1. CallFits(call'[c]) /\ Alone(db', call'[c])
        BY <2>3 DEF CallFits, Alone, SameData
      <3>2. ~overlap => \A x \in Calls \ {c} : ~Interfere(call'[c], call[x])
        BY <2>3, SameInterfere DEF SlotInv
      <3> QED
        BY <1>2, <2>1, <2>3, <3>1, <3>2, SlotStays DEF SlotInv
    <2>4. CASE overlap' = overlap /\ Like(call'[c], call[c])
      <3>1. CallFits(call'[c])
        BY <2>4 DEF SlotInv, CallFits, OpFits, Like, SameData
      <3>2. ~overlap => Alone(db', call'[c])
        <4>1. ~overlap => Alone(db, call[c])
          BY DEF SlotInv
        <4> QED
          BY <2>1, <2>4, <4>1 DEF Alone, Named, Fresh, Owns, Like, SameData
      <3>3. ~overlap => \A x \in Calls \ {c} : ~Interfere(call'[c], call[x])
        BY <2>4, SameInterfere DEF SlotInv, Like
      <3> QED
        BY <1>2, <2>1, <2>4, <3>1, <3>2, <3>3, SlotStays DEF SlotInv
    <2>5. CASE overlap' = overlap /\ call'[c] = NoCall
      <3>1. /\ CallFits(call'[c]) /\ Alone(db', call'[c])
            /\ \A x \in Calls \ {c} : ~Interfere(call'[c], call[x])
        BY <2>5 DEF CallFits, Alone, Named, NoCall, Interfere
      <3> QED
        BY <1>2, <2>1, <2>5, <3>1, SlotStays DEF SlotInv
    <2> QED
      BY <1>2, <2>2, <2>3, <2>4, <2>5 DEF Rests
  <1>3. ASSUME NEW c \in Calls, \A x \in Calls \ {c} : call'[x] = call[x],
               NEW r \in CallRecord, NEW op \in Operations, Runs(c, r, op),
               \/ Begins(c, r) /\ OpFits(r.kind, op) /\ (r.kind \in Inserting => op = "feedback")
               \/ r = call[c] /\ Due(r, op) /\ overlap' = overlap
        PROVE  SlotInv'
    <2> DEFINE e == Effect(db, r, op)
    <2>1. OpFits(r.kind, op)
      BY <1>3, DueFits
    <2>2. ~overlap' =>
            /\ ~overlap /\ \A x \in Calls \ {c} : ~Interfere(r, call[x])
            /\ Named(r) => Ready(db, r, op)
      <3>1. CASE Begins(c, r) /\ (r.kind \in Inserting => op = "feedback")
        BY <3>1, BeginsAlone DEF Inserting, Named, Ready
      <3>2. CASE r = call[c] /\ Due(r, op) /\ overlap' = overlap
        BY <3>2, DueFits DEF SlotInv
      <3> QED
        BY <1>3, <3>1, <3>2
    <2>3. ~overlap => OneItem(db)
      BY DEF SlotInv
    <2>4. Found(db, r)
      BY <1>3 DEF Begins, Inserting, Found, IInv, CallsOK, CallOK
    <2>5. CASE db' = e.db /\ Like(call'[c], e.call)
      <3>1. ~overlap' => /\ OneItem(e.db) /\ Alone(e.db, e.call)
                         /\ r.kind # "delete" => SparesOthers(db, e.db, r)
        BY <1>3, <2>1, <2>2, <2>3, <2>4, EffectAlone DEF IInv, CallsOK
      <3>2. /\ e.call.kind = r.kind /\ e.call.query = r.query /\ e.call.strategy = r.strategy
            /\ e.call.pc # "queued" /\ (e.call.pc = "embed" => op = "feedback")
        BY EffectKind, EffectTurn
      <3> HIDE DEF e
      <3>3. ~overlap' => Alone(db', call'[c])
        BY <2>5, <3>1 DEF Alone, Named, Fresh, Owns, Like, SameData
      <3>4. /\ call'[c].kind = r.kind /\ call'[c].query = r.query
            /\ call'[c].strategy = r.strategy /\ CallFits(call'[c])
        BY <2>1, <2>5, <3>2 DEF Like, SameData, CallFits, OpFits, Inserting
      <3>5. ~overlap' => \A x \in Calls \ {c} : ~Interfere(call'[c], call[x])
        BY <2>2, <3>4 DEF Interfere
      <3>6. ~overlap' /\ (call'[c].kind # "delete" \/ db' = db) => SparesOthers(db, db', call'[c])
        <4>1. db' = db => SparesOthers(db, db', call'[c])
          BY SparesItself
        <4> QED
          BY <2>5, <3>1, <3>4, <4>1 DEF SparesOthers
      <3> QED
        BY <1>3, <2>2, <2>5, <3>1, <3>3, <3>4, <3>5, <3>6, SlotStays
    <2>6. CASE db' = db /\ SameData(call'[c], r) /\ call'[c].pc = "queued" /\ call'[c].op = op
      <3>1. call'[c].kind = r.kind /\ CallFits(call'[c])
        BY <2>1, <2>6 DEF SameData, CallFits, OpFits
      <3>2. ~overlap' => Alone(db', call'[c])
        BY <2>2, <2>6 DEF Alone, Named, Ready, Fresh, Owns, SameData
      <3>3. SparesOthers(db, db', call'[c])
        BY <2>6, SparesItself
      <3>4. ~overlap' => \A x \in Calls \ {c} : ~Interfere(call'[c], call[x])
        BY <2>2, <2>6, SameInterfere
      <3> QED
        BY <1>3, <2>2, <2>3, <2>6, <3>1, <3>2, <3>3, <3>4, SlotStays
    <2> QED
      BY <1>3, <2>5, <2>6 DEF Runs
  <1> QED
    BY <1>1, <1>2, <1>3, StepIs DEF CallSteps

\* At the start nothing is in progress.
LEMMA InitTurnsSlots == Init => TurnInv /\ SlotInv
  <1> SUFFICES ASSUME Init PROVE TurnInv /\ SlotInv
    OBVIOUS
  <1>1. /\ \A c \in Calls : call[c] = NoCall
        /\ queue = [b \in Banks |-> << >>] /\ serialDepth = [b \in Banks |-> 0]
        /\ DOMAIN db.items = {}
    BY DEF Init
  <1>2. TurnInv
    BY <1>1 DEF TurnInv, Lined, OnTurn, NoCall
  <1>3. SlotInv
    BY <1>1 DEF SlotInv, CallFits, Alone, Named, OneItem, Slot, NoCall, Interfere
  <1> QED
    BY <1>2, <1>3

\* As long as no two feedbacks of one prompt and strategy, and no feedback and a delete, were
\* in progress together, these feedbacks have inserted one item at most: a feedback comes to
\* an insertion only where its search would still find none, though it gives way to other
\* calls - feedbacks of other prompts and strategies, directives, labels, reloads - between
\* its search and its insertion.
THEOREM OneSlotHolds == Spec => []OneSlot
  <1>1. IInv /\ [Next]_vars => IInv'
    BY NextGood DEF Good
  <1>2. IInv /\ TurnInv /\ SlotInv /\ [Next]_vars => TurnInv' /\ SlotInv'
    BY NextTurnInv, NextSlotInv
  <1>3. SlotInv => OneSlot
    BY DEF SlotInv, OneSlot, OneItem, Slot
  <1> QED
    BY InitIInv, InitTurnsSlots, <1>1, <1>2, <1>3, PTL DEF Spec

-----------------------------------------------------------------------------
(* Type correctness within the bounds.                                     *)

DbTyped(d) ==
    /\ d.next \in 1 .. MaxId + 1
    /\ \A id \in DOMAIN d.items : id >= 1 /\ d.items[id] \in Item

CallTyped(r) ==
    /\ r.kind \in Inserting => r.query \in Queries /\ r.tier \in Tiers
    /\ r.kind = "label" => r.tier \in Tiers
    /\ r.id \in Ids \cup {None}

\* The calls that may still insert have ids left.
MayStillInsert(r) == r.kind \in Inserting /\ r.pc \notin {"stored", "null", "failed"}
Pending == {c \in Calls : MayStillInsert(call[c])}
Room == db.next + Cardinality(Pending) <= MaxId + 1

TypeInv == DbTyped(db) /\ (\A c \in Calls : CallTyped(call[c])) /\ Room

\* What runs keeps the types, and uses an id only where it inserts.
LEMMA EffectTyped ==
  ASSUME NEW d, DbOK(d), DbTyped(d), NEW r \in CallRecord, CallTyped(r), NEW op \in Operations,
         OpFits(r.kind, op), op = "add" => d.next <= MaxId
  PROVE  LET e == Effect(d, r, op)
         IN  /\ DbTyped(e.db) /\ CallTyped(e.call)
             /\ \/ e.db.next = d.next
                \/ op = "add" /\ e.db.next = d.next + 1 /\ e.call.pc = "stored"
  <1> DEFINE e == Effect(d, r, op)
             Goal == /\ DbTyped(e.db) /\ CallTyped(e.call)
                     /\ \/ e.db.next = d.next
                        \/ op = "add" /\ e.db.next = d.next + 1 /\ e.call.pc = "stored"
  <1>1. /\ MaxId \in Nat \ {0} /\ d.next \in Nat /\ DOMAIN d.items \subseteq Nat
        /\ d.items \in [DOMAIN d.items -> ItemRecord]
        /\ \A id \in DOMAIN d.items : id \in Ids /\ id < d.next
    BY MemoryAssumption, TableIs DEF DbOK, Database, DbTyped, Ids
  <1>2. SUFFICES Goal
    OBVIOUS
  <1>3. ASSUME NEW pc \in {"embed", "decide", "missed", "stored", "null", "failed"},
               e = Result(d, r, pc)
        PROVE  Goal
    <2>1. /\ e.db = d /\ e.call.kind = r.kind /\ e.call.query = r.query
          /\ e.call.tier = r.tier /\ e.call.id = r.id
      BY <1>3, ResultIs
    <2> QED
      BY <2>1 DEF CallTyped
  <1>4. CASE op = "feedback" \/ ~Open(r)
    BY <1>3, <1>4 DEF Effect
  <1>5. CASE op = "update" /\ Open(r)
    <2> DEFINE u == Updated(d, r)
    <2>1. e = IF r.id \in DOMAIN d.items THEN Result(u, r, "stored") ELSE Result(d, r, "missed")
      BY <1>5 DEF Effect, Update
    <2>2. r.tier \in Tiers /\ r.strategy \in Reasons
      BY <1>5 DEF CallTyped, OpFits, Inserting, CallRecord
    <2>3. ASSUME r.id \in DOMAIN d.items
          PROVE  DbTyped(u) /\ u.next = d.next
      <3>1. Changes(d, u, r)
        BY <2>3, UpdatedIs
      <3> HIDE DEF u
      <3>2. \A id \in DOMAIN d.items : u.items[id] \in ItemRecord
        BY <3>1, TableIs DEF Changes, Database
      <3>3. \A id \in DOMAIN d.items : u.items[id] \in Item
        BY <2>2, <3>1, <3>2 DEF Changes, DbTyped, Item, ItemRecord
      <3> QED
        BY <3>1, <3>3 DEF Changes, DbTyped
    <2> HIDE DEF u, e
    <2>4. /\ Result(u, r, "stored").db = u /\ CallTyped(Result(u, r, "stored").call)
      BY ResultIs DEF CallTyped
    <2>5. CASE r.id \in DOMAIN d.items
      BY <2>1, <2>3, <2>4, <2>5
    <2>6. CASE r.id \notin DOMAIN d.items
      BY <1>3, <2>1, <2>6 DEF e
    <2> QED
      BY <2>5, <2>6
  <1>6. CASE op = "add" /\ Open(r)
    <2> DEFINE dim == Dim[r.bank]
               item == [query |-> r.query, strategy |-> r.strategy, tier |-> r.tier,
                        by |-> IF r.kind = "feedback" THEN "feedback" ELSE "directive"]
               items == With(d.items, d.next, item)
               u == [items |-> items,
                     vectors |-> With(d.vectors, d.next, [tier |-> r.tier, dim |-> dim]),
                     dim |-> dim, next |-> d.next + 1]
               s == [r EXCEPT !.id = d.next]
    <2>1. e = IF d.dim \notin {None, dim} THEN Result(d, r, "failed") ELSE Result(u, s, "stored")
      BY <1>6 DEF Effect, Add
    <2>2. u.items = items /\ u.next = d.next + 1
      OBVIOUS
    <2>3. item \in Item
      BY <1>6 DEF CallTyped, OpFits, Inserting, Item, CallRecord
    <2>4. s \in CallRecord /\ s.kind = r.kind /\ s.query = r.query /\ s.tier = r.tier
          /\ s.id = d.next
      BY <1>1 DEF CallRecord
    <2>5. d.next \in Ids /\ d.next >= 1
      BY <1>1, <1>6 DEF DbTyped, Ids
    <2> HIDE DEF item, u, s, e
    <2>6. /\ DOMAIN items = DOMAIN d.items \cup {d.next} /\ items[d.next] = item
          /\ \A id \in DOMAIN d.items : items[id] = d.items[id]
      BY <1>1 DEF With
    <2> HIDE DEF items
    <2>7. d.next + 1 \in 1 .. MaxId + 1
      BY <1>1, <1>6
    <2>8. DbTyped(u)
      BY <2>2, <2>3, <2>5, <2>6, <2>7 DEF DbTyped
    <2>9. /\ Result(u, s, "stored").db = u /\ Result(u, s, "stored").call.pc = "stored"
          /\ CallTyped(Result(u, s, "stored").call)
      <3>1. CallTyped(s)
        BY <2>4, <2>5 DEF CallTyped
      <3> QED
        BY <2>4, <3>1, ResultIs DEF CallTyped
    <2>10. CASE e = Result(u, s, "stored")
      BY <1>6, <2>2, <2>8, <2>9, <2>10
    <2> QED
      BY <1>3, <2>1, <2>10 DEF e
  <1>7. CASE op = "delete" /\ Open(r)
    <2> DEFINE items == Without(d.items, r.id)
               u == [d EXCEPT !.items = items, !.vectors = Without(d.vectors, r.id)]
    <2>1. e = Result(u, r, "stored")
      BY <1>7 DEF Effect, Delete
    <2>2. u.items = items /\ u.next = d.next
      BY DEF DbOK, Database
    <2>3. DOMAIN items \subseteq DOMAIN d.items /\ \A id \in DOMAIN items : items[id] = d.items[id]
      BY DEF Without
    <2> HIDE DEF items, u, e
    <2>4. DbTyped(u)
      BY <2>2, <2>3 DEF DbTyped
    <2>5. Result(u, r, "stored").db = u /\ CallTyped(Result(u, r, "stored").call)
      BY ResultIs DEF CallTyped
    <2> QED
      BY <2>1, <2>2, <2>4, <2>5
  <1>8. CASE op = "search" /\ Open(r)
    <2>1. e = Search(d, r)
      BY <1>8 DEF Effect
    <2>2. /\ e.db = d /\ e.call.kind = r.kind /\ e.call.query = r.query /\ e.call.tier = r.tier
      BY <2>1, SearchAlone, EffectKind
    <2>3. e.call.id \in DOMAIN d.items \cup {None}
      BY <2>1, SearchAlone
    <2> HIDE DEF e
    <2> QED
      BY <1>1, <2>2, <2>3 DEF CallTyped
  <1> QED
    BY <1>4, <1>5, <1>6, <1>7, <1>8 DEF Operations

\* The room there is: a call that ends its insertion gives its place to the new id,
LEMMA RoomStays ==
  ASSUME IInv, Room, NEW c \in Calls, \A x \in Calls \ {c} : call'[x] = call[x],
         db'.next \in Nat, MayStillInsert(call'[c]) => MayStillInsert(call[c]),
         \/ db'.next = db.next
         \/ /\ db'.next = db.next + 1
            /\ MayStillInsert(call[c]) /\ ~MayStillInsert(call'[c])
  PROVE  Room'
  <1>1. IsFiniteSet(Calls) /\ MaxId \in Nat /\ db.next \in Nat
    BY MemoryAssumption DEF IInv, CallsOK, DbOK, Database
  <1>2. IsFiniteSet(Pending) /\ IsFiniteSet(Pending')
    BY <1>1, FS_Subset DEF Pending
  <1>3. Pending' \subseteq Pending
    BY DEF Pending
  <1>4. /\ Cardinality(Pending) \in Nat /\ Cardinality(Pending') \in Nat
        /\ Cardinality(Pending') <= Cardinality(Pending)
    BY <1>2, <1>3, FS_CardinalityType, FS_Subset
  <1>5. ASSUME MayStillInsert(call[c]), ~MayStillInsert(call'[c])
        PROVE  Cardinality(Pending') + 1 <= Cardinality(Pending)
    <2>1. c \in Pending /\ c \notin Pending'
      BY <1>5 DEF Pending
    <2>2. Pending' \subseteq Pending \ {c}
      BY <1>3, <2>1
    <2>3. Cardinality(Pending \ {c}) = Cardinality(Pending) - 1 /\ IsFiniteSet(Pending \ {c})
      BY <1>2, <2>1, FS_RemoveElement, FS_Subset
    <2>4. Cardinality(Pending') <= Cardinality(Pending \ {c})
      BY <2>2, <2>3, FS_Subset
    <2> QED
      BY <1>4, <2>3, <2>4
  <1> HIDE DEF Pending
  <1> QED
    BY <1>1, <1>4, <1>5 DEF Room

\* and one may begin where there is a place for it.
LEMMA RoomBegins ==
  ASSUME IInv, NEW c \in Calls, \A x \in Calls \ {c} : call'[x] = call[x], db'.next = db.next,
         MayInsert
  PROVE  Room'
  <1> DEFINE K == {x \in Calls : call[x].kind \in Inserting}
  <1>1. IsFiniteSet(Calls) /\ MaxId \in Nat /\ db.next \in Nat
    BY MemoryAssumption DEF IInv, CallsOK, DbOK, Database
  <1>2. db.next + Cardinality(K) <= MaxId
    BY DEF MayInsert, Inserting
  <1>3. Pending' \subseteq K \cup {c}
    BY DEF Pending, MayStillInsert
  <1>4. IsFiniteSet(K)
    BY <1>1, FS_Subset
  <1> HIDE DEF K
  <1>5. /\ IsFiniteSet(K \cup {c}) /\ Cardinality(K) \in Nat
        /\ Cardinality(K \cup {c}) \in Nat /\ Cardinality(K \cup {c}) <= Cardinality(K) + 1
    <2>1. /\ IsFiniteSet(K \cup {c})
          /\ Cardinality(K \cup {c}) = IF c \in K THEN Cardinality(K) ELSE Cardinality(K) + 1
      BY <1>4, FS_AddElement
    <2>2. Cardinality(K) \in Nat
      BY <1>4, FS_CardinalityType
    <2> QED
      BY <2>1, <2>2
  <1>6. Cardinality(Pending') <= Cardinality(K \cup {c}) /\ Cardinality(Pending') \in Nat
    BY <1>3, <1>5, FS_Subset, FS_CardinalityType
  <1> HIDE DEF Pending
  <1> QED
    BY <1>1, <1>2, <1>5, <1>6 DEF Room

\* A step keeps the room it has, whether the call goes on or begins.
LEMMA RoomKept ==
  ASSUME IInv, Room, NEW c \in Calls, \A x \in Calls \ {c} : call'[x] = call[x],
         db'.next = db.next,
         MayStillInsert(call'[c]) => MayStillInsert(call[c]) \/ MayInsert
  PROVE  Room'
  <1>1. db.next \in Nat
    BY DEF IInv, CallsOK, DbOK, Database
  <1>2. CASE MayInsert
    BY <1>2, RoomBegins
  <1>3. CASE MayStillInsert(call'[c]) => MayStillInsert(call[c])
    BY <1>1, <1>3, RoomStays
  <1> QED
    BY <1>2, <1>3

\* Every step keeps the types.
LEMMA NextTypeInv ==
  ASSUME IInv, TurnInv, SlotInv, TypeInv, [Next]_vars
  PROVE  TypeInv'
  <1>1. CASE UNCHANGED <<db, call, overlap>>
    BY <1>1 DEF TypeInv, Room, Pending
  <1>2. ASSUME NEW c \in Calls, \A x \in Calls \ {c} : call'[x] = call[x],
               DbTyped(db'), CallTyped(call'[c]), Room'
        PROVE  TypeInv'
    BY <1>2 DEF TypeInv
  <1>3. ASSUME NEW c \in Calls, \A x \in Calls \ {c} : call'[x] = call[x], Rests(c)
        PROVE  TypeInv'
    <2>1. DbTyped(db') /\ db'.next = db.next
      BY <1>3 DEF Rests, TypeInv
    <2>2. CallTyped(call[c])
      BY DEF TypeInv
    <2>3. CASE Begins(c, call'[c])
      <3>1. CallTyped(call'[c])
        BY <2>3 DEF Begins, CallTyped
      <3>2. MayStillInsert(call'[c]) => MayInsert
        BY <2>3 DEF Begins, MayStillInsert
      <3> QED
        BY <1>2, <1>3, <2>1, <3>1, <3>2, RoomKept DEF TypeInv
    <2>4. CASE SameData(call'[c], call[c]) /\ (call'[c].pc = call[c].pc \/ call'[c].pc = "null")
      <3>1. CallTyped(call'[c])
        BY <2>2, <2>4 DEF SameData, CallTyped
      <3>2. MayStillInsert(call'[c]) => MayStillInsert(call[c])
        BY <2>4 DEF SameData, MayStillInsert
      <3> QED
        BY <1>2, <1>3, <2>1, <3>1, <3>2, RoomKept DEF TypeInv
    <2>5. CASE call'[c] = NoCall
      <3>1. CallTyped(call'[c]) /\ ~MayStillInsert(call'[c])
        BY <2>5 DEF NoCall, CallTyped, MayStillInsert, Inserting
      <3> QED
        BY <1>2, <1>3, <2>1, <3>1, RoomKept DEF TypeInv
    <2> QED
      BY <1>3, <2>3, <2>4, <2>5 DEF Rests, Like
  <1>4. ASSUME NEW c \in Calls, \A x \in Calls \ {c} : call'[x] = call[x],
               NEW r \in CallRecord, NEW op \in Operations, Runs(c, r, op),
               \/ Begins(c, r) /\ OpFits(r.kind, op) /\ (r.kind \in Inserting => op = "feedback")
               \/ r = call[c] /\ Due(r, op) /\ overlap' = overlap
        PROVE  TypeInv'
    <2> DEFINE e == Effect(db, r, op)
    <2>1. OpFits(r.kind, op) /\ CallTyped(r)
      BY <1>4, DueFits DEF Begins, CallTyped, TypeInv
    <2>2. MayStillInsert(r) => MayStillInsert(call[c]) \/ MayInsert
      BY <1>4 DEF Begins, MayStillInsert
    <2>3. op = "add" => r = call[c] /\ MayStillInsert(call[c])
      BY <1>4, <2>1 DEF OpFits, Due, MayStillInsert
    <2>4. op = "add" => db.next <= MaxId
      <3>1. IsFiniteSet(Calls) /\ MaxId \in Nat /\ db.next \in Nat
        BY MemoryAssumption DEF IInv, CallsOK, DbOK, Database
      <3>2. IsFiniteSet(Pending)
        BY <3>1, FS_Subset DEF Pending
      <3>3. op = "add" => Pending # {}
        BY <2>3 DEF Pending
      <3>4. Cardinality(Pending) \in Nat /\ (Cardinality(Pending) = 0 => Pending = {})
        BY <3>2, FS_CardinalityType, FS_EmptySet
      <3>5. db.next + Cardinality(Pending) <= MaxId + 1
        BY DEF TypeInv, Room
      <3> HIDE DEF Pending
      <3> QED
        BY <3>1, <3>3, <3>4, <3>5
    <2>5. Due(r, op) => r.pc \notin {"stored", "null", "failed"}
      BY DEF Due
    <2>6. CASE db' = e.db /\ Like(call'[c], e.call)
      <3>1. /\ DbTyped(e.db) /\ CallTyped(e.call)
            /\ \/ e.db.next = db.next
               \/ op = "add" /\ e.db.next = db.next + 1 /\ e.call.pc = "stored"
        BY <2>1, <2>4, EffectTyped DEF IInv, CallsOK, TypeInv
      <3>2. e.call.kind = r.kind
        BY EffectKind
      <3> HIDE DEF e
      <3>3. CallTyped(call'[c]) /\ call'[c].kind = r.kind /\ call'[c].pc = e.call.pc
        BY <2>6, <3>1, <3>2 DEF Like, SameData, CallTyped
      <3>4. MayStillInsert(call'[c]) => MayStillInsert(call[c]) \/ MayInsert
        BY <1>4, <2>2, <2>5, <3>3 DEF MayStillInsert, Begins
      <3>5. db.next \in Nat
        BY DEF IInv, CallsOK, DbOK, Database
      <3>6. CASE e.db.next = db.next
        <4>1. Room'
          BY <1>4, <2>6, <3>4, <3>6, RoomKept DEF TypeInv
        <4> QED
          BY <1>2, <1>4, <2>6, <3>1, <3>3, <4>1
      <3>7. CASE op = "add" /\ e.db.next = db.next + 1 /\ e.call.pc = "stored"
        <4>1. MayStillInsert(call[c]) /\ ~MayStillInsert(call'[c])
          BY <2>3, <3>3, <3>7 DEF MayStillInsert
        <4>2. Room'
          BY <1>4, <2>6, <3>5, <3>7, <4>1, RoomStays DEF TypeInv
        <4> QED
          BY <1>2, <1>4, <2>6, <3>1, <3>3, <4>2
      <3> QED
        BY <3>1, <3>6, <3>7
    <2>7. CASE db' = db /\ SameData(call'[c], r) /\ call'[c].pc = "queued" /\ call'[c].op = op
      <3>1. CallTyped(call'[c])
        BY <2>1, <2>7 DEF SameData, CallTyped
      <3>2. MayStillInsert(call'[c]) => MayStillInsert(call[c]) \/ MayInsert
        BY <1>4, <2>5, <2>7 DEF MayStillInsert, SameData, Begins
      <3>3. Room'
        BY <1>4, <2>7, <3>2, RoomKept DEF TypeInv
      <3> QED
        BY <1>2, <1>4, <2>7, <3>1, <3>3 DEF TypeInv
    <2> QED
      BY <1>4, <2>6, <2>7 DEF Runs
  <1> QED
    BY <1>1, <1>3, <1>4, StepIs DEF CallSteps

\* No call waits twice in a queue.
LEMMA QueueLength ==
  ASSUME IInv, TurnInv, NEW b \in Banks
  PROVE  Len(queue[b]) <= Cardinality(Calls)
  <1> DEFINE q == queue[b]
             n == Len(q)
             m == Cardinality(1 .. n)
  <1>1. /\ q \in Seq(Calls) /\ n \in Nat /\ DOMAIN q = 1 .. n
        /\ \A i, j \in 1 .. n : q[i] = q[j] => i = j
    BY DEF IInv, TurnInv, Lined
  <1>2. q \in [1 .. n -> Calls]
    BY <1>1
  <1> HIDE DEF q, n
  <1>3. q \in Injection(1 .. n, Calls)
    BY <1>1, <1>2 DEF Injection, IsInjective
  <1>4. m <= Cardinality(Calls)
    BY <1>3, FS_Injection, MemoryAssumption
  <1>5. m = n
    BY <1>1, FS_Interval
  <1> QED
    BY <1>4, <1>5 DEF n, q

StatusTyped ==
    status \in [Queries \X Reasons -> {"pending", "settled"}]

\* A status is of a prompt that was asked about.
LEMMA NextStatus ==
  ASSUME IInv, TypeInv, StatusTyped, [Next]_vars
  PROVE  StatusTyped'
  <1>1. ASSUME NEW c \in Calls, NEW q \in Queries, NEW s \in Reasons, NEW t \in Tiers,
               Feedback(c, q, s, t)
        PROVE  StatusTyped'
    BY <1>1 DEF Feedback, StatusTyped
  <1>2. ASSUME NEW c \in Calls, Return(c)
        PROVE  StatusTyped'
    BY <1>2 DEF Return, StatusTyped
  <1>3. ASSUME status' = status
        PROVE  StatusTyped'
    BY <1>3 DEF StatusTyped
  <1>4. ASSUME NEW q \in Queries, NEW s \in Reasons, FeedbackOnly(q, s)
        PROVE  StatusTyped'
    BY <1>4 DEF FeedbackOnly, StatusTyped
  <1> QED
    BY <1>1, <1>2, <1>3, <1>4
       DEF Next, vars, Step, Directive, Relabel, Remove, Retrieve, EndTurn, Embedded,
           NotEmbedded, Decide, AddInstead, StartTurn, Reload,
           ReloadFails

BankTyped == memory \in {"on", "off", "closed"} /\ storage \in {"open", "away", "closed"}

\* Only a reload opens or closes.
LEMMA NextBank ==
  ASSUME BankTyped, [Next]_vars
  PROVE  BankTyped'
  <1>1. CASE Reload \/ ReloadFails
    BY <1>1 DEF BankTyped, Reload, ReloadFails
  <1>2. CASE UNCHANGED <<memory, storage>>
    BY <1>2 DEF BankTyped
  <1> QED
    BY <1>1, <1>2
       DEF Next, vars, Step, Feedback, FeedbackOnly, Directive, Relabel, Remove, Retrieve, EndTurn,
           Embedded, NotEmbedded, Decide, AddInstead, Return, StartTurn

\* The variables have their types: no call takes an id beyond the bound, the turns are never
\* nested, and no call waits twice in a queue.
THEOREM TypeCorrect == Spec => []TypeOK
  <1>1. IInv /\ [Next]_vars => IInv'
    BY NextGood DEF Good
  <1>2. IInv /\ TurnInv /\ SlotInv /\ [Next]_vars => TurnInv' /\ SlotInv'
    BY NextTurnInv, NextSlotInv
  <1>3. IInv /\ TurnInv /\ SlotInv /\ TypeInv /\ [Next]_vars => TypeInv'
    BY NextTypeInv
  <1>4. IInv /\ TypeInv /\ StatusTyped /\ [Next]_vars => StatusTyped'
    BY NextStatus
  <1>7. BankTyped /\ [Next]_vars => BankTyped'
    BY NextBank
  <1>5. Init => TypeInv /\ StatusTyped /\ BankTyped
    <2> SUFFICES ASSUME Init PROVE TypeInv /\ StatusTyped /\ BankTyped
      OBVIOUS
    <2>1. /\ MaxId \in Nat \ {0} /\ db.next = 1 /\ DOMAIN db.items = {}
          /\ \A c \in Calls : call[c] = NoCall
      BY MemoryAssumption DEF Init
    <2>2. Pending = {}
      BY <2>1 DEF Pending, MayStillInsert, NoCall, Inserting
    <2>3. Cardinality(Pending) = 0
      BY <2>2, FS_EmptySet
    <2> HIDE DEF Pending
    <2>4. Room
      BY <2>1, <2>3 DEF Room
    <2>5. DbTyped(db)
      BY <2>1 DEF DbTyped
    <2>6. \A c \in Calls : CallTyped(call[c])
      BY <2>1 DEF CallTyped, NoCall, Inserting
    <2> QED
      BY <2>4, <2>5, <2>6 DEF TypeInv, StatusTyped, BankTyped, Init
  <1>6. IInv /\ TurnInv /\ TypeInv /\ StatusTyped /\ BankTyped => TypeOK
    <2> SUFFICES ASSUME IInv, TurnInv, TypeInv, StatusTyped, BankTyped PROVE TypeOK
      OBVIOUS
    <2>1. \A c \in Calls :
            /\ call[c] \in CallRecord /\ call[c].id \in Ids \cup {None}
      BY DEF IInv, CallsOK, TypeInv, CallTyped
    <2>2. \A c \in Calls :
            /\ call[c].pc \in {"idle", "queued", "embed", "decide", "missed", "stored", "null",
                               "failed"}
            /\ call[c].kind \in {"none", "feedback", "label", "delete", "directive", "retrieve"}
            /\ call[c].turn \in {"none", "op", "body"}
      BY <2>1 DEF CallRecord
    <2>3. \A id \in DOMAIN db.items : id \in Nat /\ id < db.next /\ id >= 1 /\ db.items[id] \in Item
      BY TableIs DEF IInv, CallsOK, DbOK, Database, TypeInv, DbTyped
    <2>4. DOMAIN db.items \subseteq 1 .. db.next - 1 /\ db.next \in 1 .. MaxId + 1
      BY <2>3, MemoryAssumption DEF TypeInv, DbTyped
    <2>5. \A b \in Banks : queue[b] \in Seq(Calls) /\ Len(queue[b]) <= Cardinality(Calls)
      BY QueueLength DEF IInv
    <2>6. bank \in Banks /\ serialDepth \in [Banks -> 0 .. 1]
      BY DEF IInv, TurnInv
    <2> QED
      BY <2>1, <2>2, <2>3, <2>4, <2>5, <2>6 DEF TypeOK, StatusTyped, BankTyped
  <1> QED
    BY InitIInv, InitTurnsSlots, <1>1, <1>2, <1>3, <1>4, <1>5, <1>6, <1>7, PTL DEF Spec
=============================================================================
