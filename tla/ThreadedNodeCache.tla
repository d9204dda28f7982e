--------------------------- MODULE ThreadedNodeCache ---------------------------
(***************************************************************************)
(* ThreadedNodeCache: the deduplication store shared by every builder.     *)
(*                                                                         *)
(*   nodes    DashMap<GreenNodeHead, GreenNode>: head -> shared node       *)
(*   tokens   DashMap<GreenTokenData, GreenToken>: data -> shared token    *)
(*   interner the text interner the cache owns or borrows (TokenKey per    *)
(*            text, NoKey while a text has not been interned)              *)
(*   nextId   the next fresh allocation; every Arc the cache creates gets  *)
(*            a new id, so identity of shared instances is observable      *)
(*                                                                         *)
(* Each DashMap operation is `entry(key).or_insert_with(f).clone()`, which *)
(* holds the shard's write lock from lookup to clone: it is one atomic     *)
(* step.  The cache operations below are pure functions of the current    *)
(* cache state returning the element handed back and the cache after the  *)
(* call; the builder's actions apply them.                                *)
(***************************************************************************)
EXTENDS GreenTree, FiniteSets

VARIABLES nodes, tokens, interner, nextId

cacheVars == <<nodes, tokens, interner, nextId>>

\* const CHILDREN_CACHE_THRESHOLD: usize = 3;
CHILDREN_CACHE_THRESHOLD == 3

CacheInit ==
    /\ nodes = <<>>
    /\ tokens = <<>>
    /\ interner = [x \in Texts |-> NoKey]
    /\ nextId = 1

-----------------------------------------------------------------------------
(* Interner::get_or_intern (the interner is outside this crate's source:   *)
(* the same text always gets the same key, a new text the next free key). *)

\* Mutation: new keys counted from 0, so the first text gets NoKey.
InternFromZero(text) ==
    IF interner[text] # NoKey
    THEN interner[text]
    ELSE Cardinality({x \in Texts : interner[x] # NoKey})

Intern(text) ==
    IF interner[text] # NoKey
    THEN interner[text]
    ELSE Cardinality({x \in Texts : interner[x] # NoKey}) + 1

InternStep(text) == interner' = [interner EXCEPT ![text] = Intern(text)]

\* The text a key stands for (Interner::resolve).
Resolve(key) == CHOOSE x \in Texts : interner[x] = key

-----------------------------------------------------------------------------
(* ThreadedNodeCache::token: get or insert the token for (kind, text, len).*)

\* Mutation: a miss allocates without advancing the allocation counter.
CacheTokenReusesId(kind, key, len) ==
    LET data == [kind |-> kind, text |-> key, len |-> len]
    IN  IF data \in DOMAIN tokens
        THEN [elem |-> tokens[data], tokens |-> tokens, next |-> nextId]
        ELSE LET tok == MkToken(kind, key, len, nextId)
             IN  [elem |-> tok, tokens |-> tokens @@ (data :> tok), next |-> nextId]

\* Mutation: a miss builds the token but never stores it (a `get` where
\* `entry().or_insert_with()` belongs).
CacheTokenNoInsert(kind, key, len) ==
    LET data == [kind |-> kind, text |-> key, len |-> len]
    IN  IF data \in DOMAIN tokens
        THEN [elem |-> tokens[data], tokens |-> tokens, next |-> nextId]
        ELSE [elem |-> MkToken(kind, key, len, nextId), tokens |-> tokens,
              next |-> nextId + 1]

CacheToken(kind, key, len) ==
    LET data == [kind |-> kind, text |-> key, len |-> len]
    IN  IF data \in DOMAIN tokens
        THEN [elem |-> tokens[data], tokens |-> tokens, next |-> nextId]
        ELSE LET tok == MkToken(kind, key, len, nextId)
             IN  [elem |-> tok, tokens |-> tokens @@ (data :> tok),
                  next |-> nextId + 1]

\* Mutation: a miss builds the node but never stores it.
GetCachedNodeNoInsert(head, kids) ==
    IF head \in DOMAIN nodes
    THEN [elem |-> nodes[head], nodes |-> nodes, next |-> nextId]
    ELSE [elem |-> MkNode(head.kind, head.len, head.hash, kids, nextId),
          nodes |-> nodes, next |-> nextId + 1]

(* ThreadedNodeCache::get_cached_node: look the head up, and on a miss     *)
(* insert a node made of the drained children.  The key is the head alone *)
(* (kind, text_len, child_hash); a hit is returned without comparing its   *)
(* children with the ones drained.                                         *)
GetCachedNode(head, kids) ==
    IF head \in DOMAIN nodes
    THEN [elem |-> nodes[head], nodes |-> nodes, next |-> nextId]
    ELSE LET n == MkNode(head.kind, head.len, head.hash, kids, nextId)
         IN  [elem |-> n, nodes |-> nodes @@ (head :> n), next |-> nextId + 1]

\* Mutation: off by one at the threshold (`<` for `<=`), so nodes with
\* exactly CHILDREN_CACHE_THRESHOLD children are never deduplicated.
CacheNodeBelowThreshold(kind, kids) ==
    LET head == [kind |-> kind, len |-> ChildrenLen(kids),
                 hash |-> ChildrenHash(kids)]
    IN  IF Len(kids) < CHILDREN_CACHE_THRESHOLD
        THEN GetCachedNode(head, kids)
        ELSE [elem |-> MkNode(kind, head.len, head.hash, kids, nextId),
              nodes |-> nodes, next |-> nextId + 1]

(* ThreadedNodeCache::node over the children drained from the builder:     *)
(* length and hash over the direct children, then the cache for at most   *)
(* CHILDREN_CACHE_THRESHOLD children, a fresh node otherwise.  The        *)
(* `text_len +=` of the loop cannot overflow where doc_len did not: the    *)
(* drained children are part of the pending list doc_len sums.            *)
CacheNode(kind, kids) ==
    LET head == [kind |-> kind, len |-> ChildrenLen(kids),
                 hash |-> ChildrenHash(kids)]
    IN  IF Len(kids) <= CHILDREN_CACHE_THRESHOLD
        THEN GetCachedNode(head, kids)
        ELSE [elem |-> MkNode(kind, head.len, head.hash, kids, nextId),
              nodes |-> nodes, next |-> nextId + 1]

=============================================================================
