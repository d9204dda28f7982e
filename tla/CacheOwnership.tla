--------------------------- MODULE CacheOwnership ---------------------------
(***************************************************************************)
(* Who owns what: interners, ThreadedNodeCaches and builders, and the      *)
(* MaybeOwnedRef each of them stores.  The trees themselves are left to    *)
(* ThreadedBuilder; here a tree is only the interner its token keys came   *)
(* from.  Objects are slots that start "free" and are allocated by a      *)
(* constructor.                                                            *)
(*                                                                         *)
(*   iHolder[i]  who holds interner i: "free", the "user", the cache that  *)
(*               owns it (MaybeOwnedRef::Owned), or "gone" (dropped)       *)
(*   cache[c]    holder ("free", "user", the builder that owns it, or      *)
(*               "gone"), and its `interner: MaybeOwnedRef<I>` as a tag    *)
(*               and the interner it refers to; `unique` marks a borrow    *)
(*               taken from an `&mut I` (builder with_interner)            *)
(*   builder[b]  state ("free", "building", "done", "panicked") and its    *)
(*               `cache: MaybeOwnedRef<ThreadedNodeCache>`; `keys` records *)
(*               that its pending tree holds an interned TokenKey          *)
(*   rootKeys    the interners some finished root has token keys of (a     *)
(*               root keeps the keys, never the interner)                  *)
(*                                                                         *)
(* The caller is written in safe Rust: the borrow checker's rules appear   *)
(* as guards (nothing borrowed is moved, nothing borrowed through `&mut`   *)
(* is borrowed again).  The caller never drops a cache or an interner it   *)
(* holds; a cache is released only through into_interner.                  *)
(***************************************************************************)
EXTENDS FiniteSets

CONSTANTS
    Interners, Caches, Builders, NoInterner, NoCache,
    MayPanic  \* the caller may misuse the builder so that one of its methods panics

ASSUME NoInterner \notin Interners /\ NoCache \notin Caches
ASSUME MayPanic \in BOOLEAN

VARIABLES iHolder, cache, builder, rootKeys

vars == <<iHolder, cache, builder, rootKeys>>

Live(c) == cache[c].holder \notin {"free", "gone"}

\* Caches that borrow interner i (MaybeOwnedRef::Borrowed) and are alive.
Borrowers(i) ==
    {c \in Caches : Live(c) /\ cache[c].tag = "Borrowed" /\ cache[c].ref = i}

\* Builders alive that borrow cache c (with_cache).
CacheBorrowers(c) ==
    {b \in Builders : builder[b].state = "building"
                      /\ builder[b].tag = "Borrowed" /\ builder[b].ref = c}

\* The user holds i and may move it or borrow it mutably.
InternerFree(i) == iHolder[i] = "user" /\ Borrowers(i) = {}

\* The user holds c and may move it or borrow it mutably.
CacheFree(c) == cache[c].holder = "user" /\ CacheBorrowers(c) = {}

\* The interner a builder's tokens are interned into: `self.cache.interner`.
InternerOf(b) == cache[builder[b].ref].ref

Init ==
    /\ iHolder = [i \in Interners |-> "free"]
    /\ cache = [c \in Caches |->
                  [holder |-> "free", tag |-> "Owned", ref |-> NoInterner,
                   unique |-> FALSE]]
    /\ builder = [b \in Builders |->
                    [state |-> "free", tag |-> "Owned", ref |-> NoCache,
                     keys |-> FALSE]]
    /\ rootKeys = {}

NewCache(tag, i, unique, holder) ==
    [holder |-> holder, tag |-> tag, ref |-> i, unique |-> unique]

NewBuilder(tag, c) == [state |-> "building", tag |-> tag, ref |-> c, keys |-> FALSE]

-----------------------------------------------------------------------------
(* The user's own interner (new_threaded_interner(), outside this file).   *)

InternerNew(i) ==
    /\ iHolder[i] = "free"
    /\ iHolder' = [iHolder EXCEPT ![i] = "user"]
    /\ UNCHANGED <<cache, builder, rootKeys>>

-----------------------------------------------------------------------------
(* ThreadedNodeCache constructors, the cache ends up with the user.        *)

\* new(): empty maps and a fresh interner it owns.
CacheNew(c, i) ==
    /\ cache[c].holder = "free" /\ iHolder[i] = "free"
    /\ cache' = [cache EXCEPT ![c] = NewCache("Owned", i, FALSE, "user")]
    /\ iHolder' = [iHolder EXCEPT ![i] = c]
    /\ UNCHANGED <<builder, rootKeys>>

\* with_interner(&i): borrows the interner; shared borrows may coexist.
CacheWithInterner(c, i) ==
    /\ cache[c].holder = "free" /\ iHolder[i] = "user"
    /\ \A d \in Borrowers(i) : ~cache[d].unique
    /\ cache' = [cache EXCEPT ![c] = NewCache("Borrowed", i, FALSE, "user")]
    /\ UNCHANGED <<iHolder, builder, rootKeys>>

\* from_interner(i): moves the interner in.
CacheFromInterner(c, i) ==
    /\ cache[c].holder = "free" /\ InternerFree(i)
    /\ cache' = [cache EXCEPT ![c] = NewCache("Owned", i, FALSE, "user")]
    /\ iHolder' = [iHolder EXCEPT ![i] = c]
    /\ UNCHANGED <<builder, rootKeys>>

\* into_interner(self) = self.interner.into_owned(): the cache is dropped;
\* an owned interner goes back to the user, a borrowed one is released.
\* Mutation: into_owned answers None for an owned interner too.
CacheIntoInternerDrops(c) ==
    /\ CacheFree(c)
    /\ cache' = [cache EXCEPT ![c].holder = "gone"]
    /\ iHolder' = IF cache[c].tag = "Owned"
                  THEN [iHolder EXCEPT ![cache[c].ref] = "gone"]
                  ELSE iHolder
    /\ UNCHANGED <<builder, rootKeys>>

CacheIntoInterner(c) ==
    /\ CacheFree(c)
    /\ cache' = [cache EXCEPT ![c].holder = "gone"]
    /\ iHolder' = IF cache[c].tag = "Owned"
                  THEN [iHolder EXCEPT ![cache[c].ref] = "user"]
                  ELSE iHolder
    /\ UNCHANGED <<builder, rootKeys>>

-----------------------------------------------------------------------------
(* ThreadedGreenNodeBuilder constructors.                                  *)

\* new(): owns a ThreadedNodeCache::new(), which owns a fresh interner.
BuilderNew(b, c, i) ==
    /\ builder[b].state = "free"
    /\ cache[c].holder = "free" /\ iHolder[i] = "free"
    /\ builder' = [builder EXCEPT ![b] = NewBuilder("Owned", c)]
    /\ cache' = [cache EXCEPT ![c] = NewCache("Owned", i, FALSE, b)]
    /\ iHolder' = [iHolder EXCEPT ![i] = c]
    /\ UNCHANGED rootKeys

\* with_cache(&cache): borrows a cache the user holds; any number of
\* builders, on any threads, may borrow the same cache.
BuilderWithCache(b, c) ==
    /\ builder[b].state = "free"
    /\ cache[c].holder = "user"
    /\ builder' = [builder EXCEPT ![b] = NewBuilder("Borrowed", c)]
    /\ UNCHANGED <<iHolder, cache, rootKeys>>

\* from_cache(cache): moves the cache in.
BuilderFromCache(b, c) ==
    /\ builder[b].state = "free"
    /\ CacheFree(c)
    /\ builder' = [builder EXCEPT ![b] = NewBuilder("Owned", c)]
    /\ cache' = [cache EXCEPT ![c].holder = b]
    /\ UNCHANGED <<iHolder, rootKeys>>

\* with_interner(&mut i) = from_cache(ThreadedNodeCache::with_interner(i)):
\* the `&mut` borrow keeps every other use of i out while the cache lives.
BuilderWithInterner(b, c, i) ==
    /\ builder[b].state = "free"
    /\ cache[c].holder = "free" /\ InternerFree(i)
    /\ builder' = [builder EXCEPT ![b] = NewBuilder("Owned", c)]
    /\ cache' = [cache EXCEPT ![c] = NewCache("Borrowed", i, TRUE, b)]
    /\ UNCHANGED <<iHolder, rootKeys>>

\* from_interner(i) = from_cache(ThreadedNodeCache::from_interner(i)).
BuilderFromInterner(b, c, i) ==
    /\ builder[b].state = "free"
    /\ cache[c].holder = "free" /\ InternerFree(i)
    /\ builder' = [builder EXCEPT ![b] = NewBuilder("Owned", c)]
    /\ cache' = [cache EXCEPT ![c] = NewCache("Owned", i, FALSE, b)]
    /\ iHolder' = [iHolder EXCEPT ![i] = c]
    /\ UNCHANGED rootKeys

-----------------------------------------------------------------------------
(* Builder methods that touch ownership.                                   *)

\* token(kind, text) for a kind without static text: `self.cache.intern`
\* puts a key of the cache's interner into the pending tree.
BuilderToken(b) ==
    /\ builder[b].state = "building"
    /\ builder' = [builder EXCEPT ![b].keys = TRUE]
    /\ UNCHANGED <<iHolder, cache, rootKeys>>

\* A panic unwinds the caller's frame, which drops the builder: an owned
\* cache goes with it (still in self, or already moved out by finish), and
\* so does an interner that cache owns.  A borrowed cache is left alone.
Unwind(b) ==
    LET c == builder[b].ref
        owned == builder[b].tag = "Owned"
    IN  /\ builder' = [builder EXCEPT ![b].state = "panicked"]
        /\ cache' = IF owned THEN [cache EXCEPT ![c].holder = "gone"] ELSE cache
        /\ iHolder' = IF owned /\ cache[c].tag = "Owned"
                      THEN [iHolder EXCEPT ![cache[c].ref] = "gone"]
                      ELSE iHolder
        /\ UNCHANGED rootKeys

\* A method other than finish panics on a misuse: token's debug_assert and
\* doc_len overflow, static_token without static text, finish_node's
\* pop().unwrap() on an empty stack, start_node_at's asserts,
\* pop_last_child's assert.  Which call panics depends on the pending tree,
\* which this module leaves out.
BuilderPanic(b) ==
    /\ MayPanic
    /\ builder[b].state = "building"
    /\ Unwind(b)

\* finish(self) on the success path, mutated: into_owned answers None for
\* an owned cache too, which drops it.
BuilderFinishDropsCache(b) ==
    LET c == builder[b].ref
    IN  /\ builder[b].state = "building"
        /\ builder' = [builder EXCEPT ![b].state = "done"]
        /\ rootKeys' = IF builder[b].keys THEN rootKeys \cup {InternerOf(b)}
                       ELSE rootKeys
        /\ IF builder[b].tag = "Owned"
           THEN /\ cache' = [cache EXCEPT ![c].holder = "gone"]
                /\ iHolder' = IF cache[c].tag = "Owned"
                              THEN [iHolder EXCEPT ![cache[c].ref] = "gone"]
                              ELSE iHolder
           ELSE UNCHANGED <<cache, iHolder>>

\* finish(self): assert_eq!(children.len(), 1), `self.cache.into_owned()`,
\* then the root must be a node.  Whether it panics depends on the pending
\* children, which this module leaves out, so with MayPanic either outcome
\* may happen.  On success the root (the interner its keys belong to) and
\* an owned cache go to the caller; a panic unwinds.
BuilderFinish(b) ==
    LET c == builder[b].ref
    IN  /\ builder[b].state = "building"
        /\ \/ /\ builder' = [builder EXCEPT ![b].state = "done"]
              /\ rootKeys' = IF builder[b].keys THEN rootKeys \cup {InternerOf(b)}
                             ELSE rootKeys
              /\ cache' = IF builder[b].tag = "Owned"
                          THEN [cache EXCEPT ![c].holder = "user"]
                          ELSE cache
              /\ UNCHANGED iHolder
           \/ MayPanic /\ Unwind(b)

Next ==
    \/ \E i \in Interners : InternerNew(i)
    \/ \E c \in Caches :
          \/ \E i \in Interners :
                \/ CacheNew(c, i)
                \/ CacheWithInterner(c, i)
                \/ CacheFromInterner(c, i)
          \/ CacheIntoInterner(c)
    \/ \E b \in Builders :
          \/ \E c \in Caches :
                \/ BuilderWithCache(b, c)
                \/ BuilderFromCache(b, c)
                \/ \E i \in Interners :
                      \/ BuilderNew(b, c, i)
                      \/ BuilderWithInterner(b, c, i)
                      \/ BuilderFromInterner(b, c, i)
          \/ BuilderToken(b)
          \/ BuilderPanic(b)
          \/ BuilderFinish(b)

Spec == Init /\ [][Next]_vars

-----------------------------------------------------------------------------
(* Safety properties.                                                      *)

\* The interner i went down with a builder that owned it and panicked.
LostToPanic(i) ==
    \E b \in Builders :
        builder[b].state = "panicked" /\ builder[b].tag = "Owned" /\ InternerOf(b) = i

\* Spec 5: a root's token keys stay resolvable, up to panics.  The library
\* drops an interner a finished root needs only while unwinding a panic in
\* a builder that had the interner's cache moved into it.  finish's success path,
\* into_interner and every borrowed reference keep it alive, and a panic of
\* a builder that only borrowed the cache (with_cache) loses nothing.
KeysLostOnlyToPanics ==
    \A i \in rootKeys : iHolder[i] = "gone" => LostToPanic(i)

====
