---------------------------- MODULE MemoryIndex ----------------------------
(***************************************************************************)
(* The store of remembered facts (pkg/memory/sqlite/store.go): objects, a  *)
(* full-text index and a vector index; Put writes all three, Search asks   *)
(* both indexes, fuses the two rankings and fetches the objects.  Embedding *)
(* is a call to a service with a timeout; it may be switched off in one    *)
(* process and on in the next (runtime.go initMemoryStore).                *)
(***************************************************************************)
EXTENDS Integers, Sequences, FiniteSets, SequencesExt

CONSTANTS
  Ids,        \* numbers, so that they have an order
  Contents,   \* what an object may say
  Queries,
  MatchesOf,  \* the contents with a word that starts like one of a query's
  Limit,      \* of Search
  Absent

ASSUME IndexAssumption ==
  /\ Ids \subseteq Int /\ IsFiniteSet(Ids) /\ Absent \notin Contents
  /\ MatchesOf \in [Queries -> SUBSET Contents] /\ Limit \in Nat

VARIABLES
  objects,    \* memory_objects: the content of each id, or Absent
  fts,        \* memory_objects_fts: rows of an id and a content
  vecs,       \* memory_objects_vec: the content each vector was made of, or Absent
  embedder,   \* the process has one
  everOff,    \* some process had none
  put,        \* a Put on its way: its object, and what was embedded
  search      \* a Search on its way: its rankings and its result

indexVars == <<objects, fts, vecs, embedder, everOff, put, search>>

NoPut    == [pc |-> "idle", id |-> 0, content |-> Absent, vec |-> Absent]
NoSearch == [pc |-> "idle", query |-> Absent, text |-> <<>>, near |-> <<>>, result |-> <<>>]

IndexInit ==
  /\ objects = [i \in Ids |-> Absent] /\ fts = {} /\ vecs = [i \in Ids |-> Absent]
  /\ embedder \in BOOLEAN /\ everOff = ~embedder
  /\ put = NoPut /\ search = NoSearch

-----------------------------------------------------------------------------
(* Put.                                                                       *)

\* embedWithTimeout: without an embedder there is no vector; with one, an error
\* or the timeout fails the Put before anything is written.
EmbedForPut(i, c) ==
  /\ put.pc = "idle"
  /\ put' \in {[pc |-> "write", id |-> i, content |-> c, vec |-> IF embedder THEN c ELSE Absent]}
                \union (IF embedder THEN {NoPut} ELSE {})
  /\ UNCHANGED <<objects, fts, vecs, embedder, everOff, search>>

\* A plausible bug: the row of the earlier content stays in the full-text index.
AddRow(i, c) == fts \union {<<i, c>>}

\* DELETE and INSERT.
ReplaceRow(i, c) == {r \in fts : r[1] # i} \union {<<i, c>>}

\* The transaction commits, or nothing of it remains.
WritePut ==
  /\ put.pc = "write"
  /\ put' = NoPut
  /\ \/ /\ objects' = [objects EXCEPT ![put.id] = put.content]
        /\ fts' = ReplaceRow(put.id, put.content)
        /\ vecs' = IF put.vec = Absent THEN vecs ELSE [vecs EXCEPT ![put.id] = put.vec]
     \/ UNCHANGED <<objects, fts, vecs>>
  /\ UNCHANGED <<embedder, everOff, search>>

-----------------------------------------------------------------------------
(* Search.                                                                    *)

\* The rankings of S cut off at n.
Rankings(S, n) ==
  LET k == IF Cardinality(S) < n THEN Cardinality(S) ELSE n
  IN  {f \in [1..k -> S] : \A i, j \in 1..k : f[i] = f[j] => i = j}

\* overfetchMult
Fetch == 2 * Limit

\* ftsSearch.
SearchText(q) ==
  /\ search.pc = "idle"
  /\ \E r \in Rankings({x[1] : x \in {y \in fts : y[2] \in MatchesOf[q]}}, Fetch) :
       search' = [NoSearch EXCEPT !.pc = "near", !.query = q, !.text = r]
  /\ UNCHANGED <<objects, fts, vecs, embedder, everOff, put>>

\* embedWithTimeout and vecSearch: the nearest vectors, or none if either fails.
SearchNear ==
  /\ search.pc = "near"
  /\ \E r \in (IF embedder THEN Rankings({i \in Ids : vecs[i] # Absent}, Fetch) ELSE {})
              \union {<<>>} :
       search' = [search EXCEPT !.pc = "fetch", !.near = r]
  /\ UNCHANGED <<objects, fts, vecs, embedder, everOff, put>>

rrfK == 60

\* 1 / (rrfK + rank + 1), rank counted from 0, as a fraction; 0 for an id that is
\* not in the list.
Share(list, id) ==
  IF id \notin ToSet(list) THEN <<0, 1>>
  ELSE <<1, rrfK + (CHOOSE i \in DOMAIN list : list[i] = id)>>

Plus(x, y) == <<x[1] * y[2] + y[1] * x[2], x[2] * y[2]>>
Above(x, y) == x[1] * y[2] > y[1] * x[2]

\* A plausible bug: the share of the second list replaces that of the first.
ScoreOfLast(text, near, id) ==
  IF id \in ToSet(near) THEN Share(near, id) ELSE Share(text, id)

Score(text, near, id) == Plus(Share(text, id), Share(near, id))

\* In front of each other: by score, ties by id.
Outranks(text, near, x, y) ==
  LET a == Score(text, near, x)
      b == Score(text, near, y)
  IN  Above(a, b) \/ (~Above(b, a) /\ x < y)

\* rrf: all that is in a list, in this order, and no more than the limit.  In the
\* k-th place is the id that has k - 1 others in front of it.
rrf(text, near, limit) ==
  LET found    == ToSet(text) \union ToSet(near)
      front(x) == {y \in found : Outranks(text, near, y, x)}
      n        == Cardinality(found)
  IN  [k \in 1..(IF n < limit THEN n ELSE limit) |->
         CHOOSE x \in found : Cardinality(front(x)) = k - 1]

\* The objects of a list of ids, in their order; an id without an object is left out.
ObjectsOf(ids) ==
  LET kept == {k \in DOMAIN ids : objects[ids[k]] # Absent}
  IN  [n \in 1..Cardinality(kept) |->
         ids[CHOOSE k \in kept : Cardinality(kept \intersect 1..k) = n]]

FetchObjects ==
  /\ search.pc = "fetch"
  /\ search' = [search EXCEPT !.pc = "done",
                  !.result = ObjectsOf(rrf(search.text, search.near, Limit))]
  /\ UNCHANGED <<objects, fts, vecs, embedder, everOff, put>>

\* The caller goes on; or a query of the Search fails and with it the Search.
SearchEnds ==
  /\ search.pc # "idle"
  /\ search' = NoSearch
  /\ UNCHANGED <<objects, fts, vecs, embedder, everOff, put>>

\* The process ends, the next one has an embedder or has none.
Restart ==
  /\ embedder' \in BOOLEAN /\ everOff' = (everOff \/ ~embedder')
  /\ put' = NoPut /\ search' = NoSearch
  /\ UNCHANGED <<objects, fts, vecs>>

IndexNext ==
  \/ \E i \in Ids, c \in Contents : EmbedForPut(i, c)
  \/ WritePut
  \/ \E q \in Queries : SearchText(q)
  \/ SearchNear \/ FetchObjects \/ SearchEnds
  \/ Restart

IndexSpec == IndexInit /\ [][IndexNext]_indexVars

-----------------------------------------------------------------------------
(* Properties.                                                                *)

\* "keeps the FTS and vector indexes in sync" (store.go Put): one row for each
\* object, of its content; vectors only of objects, and of their content as long
\* as no process was without an embedder.
IndexesInSync ==
  /\ fts = {<<i, objects[i]>> : i \in {j \in Ids : objects[j] # Absent}}
  /\ \A i \in Ids : vecs[i] # Absent =>
       objects[i] # Absent /\ (vecs[i] = objects[i] \/ everOff)

Place(s, x) == CHOOSE i \in DOMAIN s : s[i] = x
Ahead(s, x, y) == x \in ToSet(s) /\ (y \in ToSet(s) => Place(s, x) < Place(s, y))

\* got is a fusion of two rankings: at most limit ids, each once, none left out
\* while there is room, and none before one that is ahead of it in both.
IsFusion(got, text, near, limit) ==
  LET found == ToSet(text) \union ToSet(near)
  IN  /\ Len(got) <= limit /\ Cardinality(ToSet(got)) = Len(got)
      /\ Len(got) < limit => ToSet(got) = found
      /\ \A x, y \in found :
           x # y /\ Ahead(text, x, y) /\ Ahead(near, x, y)
           => Ahead(got, x, y) \/ (x \notin ToSet(got) /\ y \notin ToSet(got))

\* A Search returns the objects of such a fusion, all of them, although the lists
\* were read at different times than the objects (store.go Search, rrf).
FusionSound ==
  search.pc = "done" => IsFusion(search.result, search.text, search.near, Limit)

\* What is remembered can be recalled.
MemorySound == IndexesInSync /\ FusionSound

=============================================================================
