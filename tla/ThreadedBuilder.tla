---------------------------- MODULE ThreadedBuilder ----------------------------
(***************************************************************************)
(* ThreadedGreenNodeBuilder: several threads, each driving its own builder *)
(* (`with_cache(&cache)`), all sharing one ThreadedNodeCache.              *)
(*                                                                         *)
(* Per thread t:                                                           *)
(*   parents[t]   Vec<(S, usize)>: open frames [kind, first]               *)
(*   children[t]  Vec<GreenElement>: the flat list of pending children     *)
(*   docLen[t]    doc_len                                                  *)
(*   status[t]    "building", "finished" (finish() consumed the builder)   *)
(*                or "panicked" (an assert or unwrap failed)               *)
(*   cps[t]       the Checkpoints (child-list indices) the caller holds    *)
(*   roots[t]     the roots finish() has returned (ghost)                  *)
(*   ops[t]       calls made so far, bounded by MaxOps                     *)
(*                                                                         *)
(* Every builder method is one atomic step: its only access to shared      *)
(* state is through DashMap entries and the interner, each a get-or-insert *)
(* under a lock whose result never changes once set, so where another      *)
(* thread's step falls inside the method cannot be observed.               *)
(***************************************************************************)
EXTENDS ThreadedNodeCache

CONSTANTS
    Threads,
    MaxOps,        \* calls per thread
    BalancedCaller, \* the caller honours finish()'s documented precondition
    DebugAssertions \* debug build: debug_assert! and integer overflow checks

ASSUME MaxOps \in Nat /\ BalancedCaller \in BOOLEAN /\ DebugAssertions \in BOOLEAN

VARIABLES parents, children, docLen, status, cps, roots, ops

builderVars == <<parents, children, docLen, status, cps, roots, ops>>
vars == <<cacheVars, builderVars>>

Building(t) == status[t] = "building" /\ ops[t] < MaxOps

CountOp(t) == ops' = [ops EXCEPT ![t] = @ + 1]

\* A failed assert!/unwrap: the builder is abandoned mid-call.
Panic(t) ==
    /\ status' = [status EXCEPT ![t] = "panicked"]
    /\ CountOp(t)
    /\ UNCHANGED <<cacheVars, parents, children, docLen, cps, roots>>

FreshBuilder == [parents |-> <<>>, children |-> <<>>, docLen |-> 0, cps |-> {}]

Init ==
    /\ CacheInit
    /\ parents = [t \in Threads |-> <<>>]
    /\ children = [t \in Threads |-> <<>>]
    /\ docLen = [t \in Threads |-> 0]
    /\ status = [t \in Threads |-> "building"]
    /\ cps = [t \in Threads |-> {}]
    /\ roots = [t \in Threads |-> <<>>]
    /\ ops = [t \in Threads |-> 0]

-----------------------------------------------------------------------------
(* Adding tokens: `self.children.push(token); self.doc_len += text_len`.   *)

PushToken(t, r) ==
    /\ tokens' = r.tokens
    /\ nextId' = r.next
    /\ CountOp(t)
    /\ IF DebugAssertions /\ TextSizeOverflows(docLen[t], r.elem.len)
       THEN \* `doc_len += text_len` overflows after the token was cached
            /\ status' = [status EXCEPT ![t] = "panicked"]
            /\ UNCHANGED <<nodes, parents, children, docLen, cps, roots>>
       ELSE /\ children' = [children EXCEPT ![t] = Append(@, r.elem)]
            /\ docLen' = [docLen EXCEPT ![t] = TextSizeAdd(@, r.elem.len)]
            /\ UNCHANGED <<nodes, parents, status, cps, roots>>

\* Mutation: S::static_text is not consulted; every token's text is interned.
TokenAlwaysInterns(t, kind, text) ==
    /\ Building(t)
    /\ PushToken(t, CacheToken(kind, Intern(text), AsU32(TextLen[text])))
    /\ InternStep(text)

\* Mutation: the static branch takes the length of the text given instead
\* of the static text's (`text.len()` for `static_text.len()`).
TokenGivenLen(t, kind, text) ==
    /\ Building(t)
    /\ IF IsStatic(kind)
       THEN IF DebugAssertions /\ text # StaticText[kind]
            THEN Panic(t)
            ELSE /\ PushToken(t, CacheToken(kind, NoKey, AsU32(TextLen[text])))
                 /\ UNCHANGED interner
       ELSE /\ PushToken(t, CacheToken(kind, Intern(text), AsU32(TextLen[text])))
            /\ InternStep(text)

\* token(kind, text): static-text kinds store no key and the static length
\* (debug_assert_eq! on the text, compiled out of release builds); other
\* kinds intern the text.  Both lengths go through `len() as u32`.
Token(t, kind, text) ==
    /\ Building(t)
    /\ IF IsStatic(kind)
       THEN IF DebugAssertions /\ text # StaticText[kind]
            THEN Panic(t)
            ELSE /\ PushToken(t, CacheToken(kind, NoKey, AsU32(TextLen[StaticText[kind]])))
                 /\ UNCHANGED interner
       ELSE /\ PushToken(t, CacheToken(kind, Intern(text), AsU32(TextLen[text])))
            /\ InternStep(text)

\* static_token(kind): panics when the kind has no static text.
StaticToken(t, kind) ==
    /\ Building(t)
    /\ IF ~IsStatic(kind)
       THEN Panic(t)
       ELSE /\ PushToken(t, CacheToken(kind, NoKey, AsU32(TextLen[StaticText[kind]])))
            /\ UNCHANGED interner

-----------------------------------------------------------------------------
(* Opening and closing nodes.                                              *)

OpenFrame(t, kind, first) ==
    /\ parents' = [parents EXCEPT ![t] = Append(@, [kind |-> kind, first |-> first])]
    /\ CountOp(t)
    /\ UNCHANGED <<cacheVars, children, docLen, status, cps, roots>>

StartNode(t, kind) ==
    /\ Building(t)
    /\ OpenFrame(t, kind, Len(children[t]))

\* finish_node: pop the frame (unwrap panics on an empty stack), let the
\* cache drain children[first..] (slicing panics past the end) and push the
\* node it returns.
FinishNode(t) ==
    /\ Building(t)
    /\ IF parents[t] = <<>>
       THEN Panic(t)
       ELSE LET fr == Last(parents[t])
                all == children[t]
            IN  IF fr.first > Len(all)
                THEN Panic(t)
                ELSE LET r == CacheNode(fr.kind, SubSeq(all, fr.first + 1, Len(all)))
                     IN  /\ nodes' = r.nodes
                         /\ nextId' = r.next
                         /\ parents' = [parents EXCEPT ![t] = Front(@)]
                         /\ children' = [children EXCEPT ![t] =
                                           Append(SubSeq(all, 1, fr.first), r.elem)]
                         /\ CountOp(t)
                         /\ UNCHANGED <<tokens, interner, docLen, status, cps, roots>>

\* checkpoint(): Checkpoint(self.children.len()), kept by the caller.
Checkpoint(t) ==
    /\ Building(t)
    /\ cps' = [cps EXCEPT ![t] = @ \cup {Len(children[t])}]
    /\ CountOp(t)
    /\ UNCHANGED <<cacheVars, parents, children, docLen, status, roots>>

\* The two asserts of start_node_at.
\* Mutation: only the first assert (checkpoint <= children.len()).
StartNodeAtRejectsPastEnd(t, pos) == pos > Len(children[t])

StartNodeAtRejects(t, pos) ==
    \/ pos > Len(children[t])
    \/ parents[t] # <<>> /\ pos < Last(parents[t]).first

StartNodeAt(t, cp, kind) ==
    /\ Building(t)
    /\ cp \in cps[t]
    /\ IF StartNodeAtRejects(t, cp)
       THEN Panic(t)
       ELSE OpenFrame(t, kind, cp)

-----------------------------------------------------------------------------
(* Introspection that changes state, and completion.                       *)

\* pop_last_child: assert the current node has a child, pop it and take its
\* length off doc_len (`-=` cannot underflow in a debug build, where doc_len
\* is the exact pending length; a release build wraps).
\* Mutation: the child is popped but doc_len is left as it was.
PopLastChildKeepsLen(t) ==
    LET first == IF parents[t] = <<>> THEN 0 ELSE Last(parents[t]).first
        all == children[t]
    IN  /\ Building(t)
        /\ IF Len(all) <= first
           THEN Panic(t)
           ELSE /\ children' = [children EXCEPT ![t] = Front(all)]
                /\ CountOp(t)
                /\ UNCHANGED <<cacheVars, parents, docLen, status, cps, roots>>

PopLastChild(t) ==
    LET first == IF parents[t] = <<>> THEN 0 ELSE Last(parents[t]).first
        all == children[t]
    IN  /\ Building(t)
        /\ IF Len(all) <= first
           THEN Panic(t)
           ELSE /\ children' = [children EXCEPT ![t] = Front(all)]
                /\ docLen' = [docLen EXCEPT ![t] = TextSizeSub(@, Last(all).len)]
                /\ CountOp(t)
                /\ UNCHANGED <<cacheVars, parents, status, cps, roots>>

\* finish: assert_eq!(children.len(), 1), then the single child must be a
\* node.  The open frames are not looked at.
Finish(t) ==
    /\ Building(t)
    /\ BalancedCaller => parents[t] = <<>>
    /\ IF Len(children[t]) # 1 \/ ~IsNode(children[t][1])
       THEN Panic(t)
       ELSE /\ roots' = [roots EXCEPT ![t] = Append(@, children[t][1])]
            /\ status' = [status EXCEPT ![t] = "finished"]
            /\ parents' = [parents EXCEPT ![t] = FreshBuilder.parents]
            /\ children' = [children EXCEPT ![t] = FreshBuilder.children]
            /\ docLen' = [docLen EXCEPT ![t] = FreshBuilder.docLen]
            /\ cps' = [cps EXCEPT ![t] = FreshBuilder.cps]
            /\ CountOp(t)
            /\ UNCHANGED cacheVars

\* ThreadedGreenNodeBuilder::with_cache(&cache): the thread starts its next
\* tree on the same cache.
WithCache(t) ==
    /\ status[t] = "finished"
    /\ ops[t] < MaxOps
    /\ status' = [status EXCEPT ![t] = "building"]
    /\ CountOp(t)
    /\ UNCHANGED <<cacheVars, parents, children, docLen, cps, roots>>

Next ==
    \E t \in Threads :
        \/ \E k \in Kinds, x \in Texts : Token(t, k, x)
        \/ \E k \in Kinds : StaticToken(t, k)
        \/ \E k \in Kinds : StartNode(t, k)
        \/ FinishNode(t)
        \/ Checkpoint(t)
        \/ \E cp \in cps[t], k \in Kinds : StartNodeAt(t, cp, k)
        \/ PopLastChild(t)
        \/ Finish(t)
        \/ WithCache(t)

Spec == Init /\ [][Next]_vars

-----------------------------------------------------------------------------
(* Refinement: the flat list plus frame indices is a nested frame stack.   *)

\* The value a green element stands for: the token's text, resolved through
\* the interner (static text for keyless tokens), or the node's children.
RECURSIVE AbsElem(_)
AbsElem(e) ==
    IF IsNode(e)
    THEN [tag |-> "node", kind |-> e.kind, text |-> NoStatic,
          kids |-> [i \in DOMAIN e.children |-> AbsElem(e.children[i])]]
    ELSE [tag |-> "token", kind |-> e.kind,
          text |-> IF e.text = NoKey THEN StaticText[e.kind] ELSE Resolve(e.text),
          kids |-> <<>>]

AbsSeq(s) == [i \in DOMAIN s |-> AbsElem(s[i])]

\* Frame i+1 owns children[parents[i].first + 1 .. parents[i+1].first]; the
\* document level owns everything before the first open frame.
AbsFrames(t) ==
    LET ps == parents[t]
        all == children[t]
        start(i) == IF i = 1 THEN 0 ELSE ps[i - 1].first
        end(i) == IF i > Len(ps) THEN Len(all) ELSE ps[i].first
    IN  [i \in 1..Len(ps) + 1 |->
            [kind |-> IF i = 1 THEN NoStatic ELSE ps[i - 1].kind,
             kids |-> AbsSeq(SubSeq(all, start(i) + 1, end(i)))]]

Abstract == INSTANCE NestedBuilder WITH
    frames <- [t \in Threads |-> AbsFrames(t)],
    astatus <- status,
    aroots <- [t \in Threads |-> AbsSeq(roots[t])],
    NoText <- NoStatic,
    MaxWrap <- MaxOps,
    StaticTextChecked <- DebugAssertions

\* Every run of the builders over the shared cache is a run of the nested
\* builder: finish_node's drain range, start_node_at's retroactive frame,
\* pop_last_child and the nodes the cache hands back all keep the tree the
\* caller described.
Refinement == Abstract!Spec

-----------------------------------------------------------------------------
(* Invariants.                                                             *)

Frame == [kind : Kinds, first : Nat]

\* Everything a builder, a returned root or the cache refers to.
Live ==
    Reachable(UNION {ToSet(children[t]) \cup ToSet(roots[t]) : t \in Threads}
              \cup Range(nodes) \cup Range(tokens))

TypeOK ==
    /\ parents \in [Threads -> Seq(Frame)]
    /\ \A e \in Live :
          /\ e.tag \in {"node", "token"}
          /\ e.kind \in Kinds
          /\ e.text \in 0..Cardinality(Texts)
          /\ e.len \in 0..LenMod - 1
          /\ e.hash \in 0..HashMod - 1
          /\ e.id \in 1..nextId - 1
    /\ docLen \in [Threads -> 0..LenMod - 1]
    /\ status \in [Threads -> {"building", "finished", "panicked"}]
    /\ cps \in [Threads -> SUBSET Nat]
    /\ ops \in [Threads -> 0..MaxOps]
    /\ interner \in [Texts -> 0..Cardinality(Texts)]


-----------------------------------------------------------------------------
(* Safety properties.                                                      *)

\* The open frames of a builder start at non-decreasing indices, none past
\* the end of the pending list.  finish_node drains from the top frame's
\* index and start_node_at pushes a caller-supplied index: if this broke,
\* closing an inner node would swallow children of its parent, or the
\* parent's drain would start past the end of the list.
StackWellFormed ==
    \A t \in Threads : status[t] = "building" =>
        LET ps == parents[t]
        IN  /\ \A i \in 1..Len(ps) - 1 : ps[i].first <= ps[i + 1].first
            /\ \A i \in DOMAIN ps : ps[i].first <= Len(children[t])

\* document_len() is the text length of everything pending: the running
\* doc_len that token/static_token add to and pop_last_child subtracts from
\* agrees with the text_len the cache computed for every finished node.
DocLenMatches ==
    \A t \in Threads : status[t] = "building" =>
        docLen[t] = ChildrenLen(children[t])

\* Shared instances: across every tree every thread has built or is
\* building and everything in the cache, two distinct allocations with
\* equal content are only ever nodes above CHILDREN_CACHE_THRESHOLD.  An
\* insert race on a DashMap entry therefore has one winner that everybody
\* sees, and cache hits across threads and across trees return it.
SharedInstancesUnique ==
    \A a, b \in Live :
        (a # b /\ SameContent(a, b)) =>
            IsNode(a) /\ Len(a.children) > CHILDREN_CACHE_THRESHOLD

\* The byte length of the source text an abstract element stands for.
RECURSIVE SourceLen(_)
SourceLen(a) ==
    IF a.tag = "token" THEN TextLen[a.text]
    ELSE FoldLeft(LAMBDA n, c : n + SourceLen(c), 0, a.kids)

\* Every TextSize the builder and the cache keep is exact: a token's and a
\* node's text_len, and doc_len, equal the byte length of the text they
\* stand for (the spec's node invariant).  Lengths pass through
\* `len() as u32` in token/static_token and are summed with TextSize adds in
\* node() and in `doc_len +=`, all on a 32-bit word.
LengthsExact ==
    /\ \A e \in Live : e.len = SourceLen(AbsElem(e))
    /\ \A t \in Threads : status[t] = "building" =>
          docLen[t] = FoldLeft(LAMBDA n, a : n + SourceLen(a), 0, AbsSeq(children[t]))

\* finish() only returns a root once every started node has been finished:
\* an unbalanced start_node/start_node_at is a fatal error.
FinishRequiresBalanced ==
    [][\A t \in Threads :
          (status[t] = "building" /\ status'[t] = "finished") => parents[t] = <<>>
      ]_vars

=============================================================================
