# TLA+ models of cstree's threaded green-tree builder

These modules model `src/cstree/src/green/threaded_builder.rs`: the node/token
deduplication cache (`ThreadedNodeCache`) and the builder that drives it
(`ThreadedGreenNodeBuilder`). TLC checks them under several threads sharing one
cache.

## 1. Inventory

### Components

| Component | State it keeps | Operations that change state |
|---|---|---|
| Tree element model (`GreenElement` = `NodeOrToken<GreenNode, GreenToken>`, `GreenNodeHead`, `GreenTokenData`) | Immutable. A token is (kind, `Option<TokenKey>`, len). A node is (kind, len, child_hash, children). Both are shared through `Arc`. | None after construction. The fingerprint (length and FxHasher32 hash over the direct children) is computed in `ThreadedNodeCache::node`. |
| `ThreadedNodeCache` | `nodes: DashMap<GreenNodeHead, GreenNode>`, `tokens: DashMap<GreenTokenData, GreenToken>`, `interner: MaybeOwnedRef<I>` | `node` (hash and length, then `get_cached_node` for at most `CHILDREN_CACHE_THRESHOLD` = 3 children, otherwise a fresh node), `token`, `intern` |
| Interner (external, consumed) | text → key | `get_or_intern`, `resolve` |
| `ThreadedGreenNodeBuilder` | `parents: Vec<(S, usize)>` (open frames and the index where each frame's children begin), `children: Vec<GreenElement>` (one flat pending list), `doc_len`, and the cache (owned or borrowed) | `token`, `static_token`, `start_node`, `finish_node`, `checkpoint`, `start_node_at`, `pop_last_child`, `finish`. `current_children`, `document_len` and `interner` only read. |
| Ownership wrappers (`MaybeOwnedRef`, `into_interner`, the constructors) | Whether each builder owns or borrows its cache, and each cache its interner | The constructors (`new`, `with_interner`, `from_interner`, `with_cache`, `from_cache`), `into_interner`, `finish` handing an owned cache back, and a panicking builder dropping one. `interner_mut` changes no ownership. |

### How the components interact

- Each builder calls its cache synchronously:
  - `token`/`static_token` call `intern`, then `token`.
  - `finish_node` calls `node`, which drains `children[first..]` out of the builder's own vector.
- Several builders, one per thread, can share one cache with `with_cache(&cache)`. The shared state is the two DashMaps and the interner.
- Each DashMap access is `entry(key).or_insert_with(f).clone()`. It holds the shard's write lock from the lookup to the clone, so it is atomic.
- Nothing is ever removed from the cache.
- A cache is either lent to any number of builders (`with_cache`) or moved into one (`new`, `from_cache`, `with_interner`, `from_interner`). `finish` hands a moved-in cache back, so it and its interner can serve the next tree. `into_interner` finally gives back an interner the cache owns.

### What is hard

- **Concurrent get-or-insert.** Two threads race to insert the same node or token. All racers must see one winner, and the loser's allocation must disappear.
- **Content addressing.** A node is found by `(kind, text_len, child_hash)`. Nothing compares children on a hit.
- **Flat list plus index stack.** The nested tree exists only implicitly: frame *i* owns `children[first_i .. first_{i+1}]`. It depends on:
  - `finish_node` draining exactly the top frame's range, on a hit as well as a miss;
  - `start_node_at` pushing an index taken earlier (a checkpoint);
  - `pop_last_child` respecting the current frame;
  - `doc_len` being a cached sum.
- **Checkpoint validity.** A checkpoint is just an index. `start_node_at` checks it against the current length and the current frame's start (spec §4.2 lists exactly these two checks).
- **Misuse handling.** Every contract violation is a panic, and `finish` checks only the number of root-level children.

### Properties that make each component correct

- **Cache.**
  - Equal content within the threshold means the same instance, across threads and across trees.
  - A cache hit never returns a structurally different node.
  - Entries are never replaced, and each map operation is linearizable per key and always returns.
- **Ownership.**
  - No interner that a finished tree's keys belong to is dropped by the library, except while a panic unwinds.
- **Builder.**
  - The frame stack is ordered and within bounds.
  - `doc_len` equals the length of what is pending, and every stored length is the exact length of its text.
  - Every builder run produces the tree the caller described (refinement of a nested-frame builder).
  - `finish` requires balanced calls.

The hazards these properties target are listed, with their lines, under `hazards` in `PROJECT.json`.

## 2. Modules

| Module | Models | Notes |
|---|---|---|
| `GreenTree` | The element records, `ChildrenLen`/`ChildrenHash` (the loop in `node`, lines 186–192), FxHasher32's `write`, and `TextSize` arithmetic (`AsU32`, `TextSizeAdd`, `TextSizeSub`, `TextSizeOverflows`) | The hash state is `HashBits` wide instead of 32, and `TextSize` is `LenBits` wide instead of 32. The `Hash` impls of the elements are in `node.rs`/`token.rs`, which are not in this tree, so they are modelled from the spec (`ElemWords`). Every element has an `id` so that "the same `Arc`" differs from "an equal value". |
| `ThreadedNodeCache` | `nodes`, `tokens`, `interner`, `nextId`. `CacheToken` (`token`), `GetCachedNode` (`get_cached_node`), `CacheNode` (`node`), `Intern` | Each operation is a pure function of the cache state. It returns the element handed back and the cache after the call, and the builder's action applies it in the same step. |
| `ThreadedBuilder` | One builder per thread in `Threads`: `parents`, `children`, `docLen`, `status`. One action per method, each with its panic paths. `WithCache` starts the thread's next tree on the same cache. | Ghost state: `cps` (the checkpoints the caller holds) and `roots` (what `finish` returned). `ops` counts calls, bounded by `MaxOps`. |
| `NestedBuilder` | The abstract specification: each thread has a stack of frames `[kind, kids]`, and elements are plain values (a token is kind and text, a node is kind and children) | `ThreadedBuilder` refines it. Under the mapping, frame *i* is the slice of `children` between consecutive frame indices, and a token's key is resolved through the interner. |
| `CacheOwnership` | Interners, caches and builders as slots, each with its holder and its `MaybeOwnedRef` tag. One action per constructor, `into_interner`, `token`'s interning, `finish`'s `into_owned`, and `BuilderPanic` for a panic in any other method. | A tree is reduced to the interner its keys came from (`rootKeys`). The caller is safe Rust: the borrow checker's rules are guards (a borrowed value is not moved or mutably borrowed, and an `&mut` borrow excludes others). The caller never drops what it holds. `interner_mut` is not an action: it changes no ownership, and its `Borrowed => None` arms are forced by the types (a `&I` or a `&ThreadedNodeCache` cannot give out `&mut`). |
| `GetOrInsert` | The abstract contract of each DashMap (spec §4.1): a get-or-insert that takes effect in one step between call and return, with fresh values for new keys | Weak fairness on the effect and the return: a call once made completes. |
| `DashMapEntry` | `entry(k).or_insert_with(f).clone()` at the grain of the shard lock: `Call`, `Entry` (wait for the shard's write lock, look up), `OrInsertWith` (insert if vacant, clone), `Unlock` (the temporary `RefMut` dropped) | Refines `GetOrInsert`, with the effect at `OrInsertWith`. DashMap is outside this tree, so its locking follows its documented behaviour. |
| `MCThreadedBuilder` | Model values and small alphabets | Kind 1 has no static text. Kind 2 has static text `+`. Texts are `ab` (2 bytes) and `+` (1 byte). `huge` is a text exactly `2^LenBits` bytes long. |
| `MCCacheOwnership`, `MCDashMapEntry` | Model values for the two modules above | Two of each object, with a symmetry set for each kind. Three keys, two of them in one shard. |

### Atomicity

Each builder method is one TLA+ step. The method's only accesses to shared state are a DashMap entry operation and possibly an interner call. Each of these is a locked get-or-insert whose result never changes once set. So another thread's step falling inside the method (for example between `intern` and the token insert) commutes with it.

The `dashmap_entry` run checks the premise: at the grain of the shard lock, the statement implements the atomic `GetOrInsert`, so `ThreadedNodeCache` may take each map operation as one step.

### Panics

A failed `assert!`/`unwrap` sets `status` to `"panicked"`, and that thread does nothing more.

### Build profile (`DebugAssertions`) and lengths (`LenBits`)

`DebugAssertions` selects the build. With `TRUE` (a debug build):
- `token` with a static-text kind and other text panics (`debug_assert_eq!`, line 407);
- `doc_len += text_len` panics on `u32` overflow (overflow checks are on exactly when debug assertions are, in Cargo's default profiles). The panic comes after the token was inserted into the shared cache, and the model keeps that order.

With `FALSE` (release) both are compiled out: the token gets the static text and length, and the sum wraps.

The overflow checks in `node`'s `text_len +=` (line 189) and `pop_last_child`'s `doc_len -=` (line 544) cannot fire in a debug build: the drained children are part of what `doc_len` sums, and `doc_len` is the exact pending length. The model therefore only wraps them.

`text.len() as u32` and `static_text.len() as u32` (`AsU32`) keep the low `LenBits` bits in every build.

`NestedBuilder` has a matching constant, `StaticTextChecked`, mapped from `DebugAssertions`: with `FALSE`, a static-text kind's token carries its static text whatever text was given.

### `MayPanic`

Every builder method but `start_node` can panic on a misuse. Examples are `finish` with more than one element pending (`assert_eq!`, line 521) or with a token as the root (line 525), and `finish_node` with no open node (`pop().unwrap()`, line 452). A panic unwinds the caller's frame and drops the builder, and an owned cache goes with it. In `finish` the cache has already been moved out of `self` (line 522) when the second panic fires, and it is dropped all the same.

In `CacheOwnership`, enabled by `MayPanic`:
- the panic is the second alternative of `BuilderFinish`, and `BuilderPanic` for every other method;
- both run `Unwind`: the builder becomes `"panicked"`, and a cache it owned is dropped together with any interner that cache owns.

A panic ends its thread, not the process, so the caller may survive it, for example when it joins a worker thread. `ownership` sets `MayPanic = TRUE`. An interner that an earlier root's keys still need can then be dropped. One way is `new()`, a token, and a `finish` that hands the cache back, followed by a second builder, built with `from_cache`, that panics. `KeysLostOnlyToPanics` states that this is the only way such an interner is lost.

### `BalancedCaller`

`finish`'s documentation requires balanced start/finish calls. With `BalancedCaller = TRUE` the caller honours that precondition: it calls `finish` only with no frame open. All other misuse is still explored. With `FALSE` the caller may call `finish` at any time.

## 3. Runs

| Run | cfg | Expect | What it shows |
|---|---|---|---|
| `builder` | `builder.cfg` | pass | Covers one thread, 7 calls, and every method, misuse and panic path, with static and interned tokens. Checks `TypeOK`, `StackWellFormed`, `DocLenMatches`, `SharedInstancesUnique` and `Refinement` (the builder implements `NestedBuilder`). About 580k states, 1.5 min. |
| `shared_cache` | `shared_cache.cfg` | pass | Two threads, 4 calls each, one kind and one text, interleaved call by call on one cache. `SharedInstancesUnique` and `Refinement`; the stack and `doc_len` belong to one thread and are left to `builder`. Cross-thread races on one entry leave one shared instance, and both trees stay as described. About 53k states. |
| `shared_cache_mixed` | `shared_cache_mixed.cfg` | pass | Two threads, both kinds and both texts, 3 calls each. Interner keys are handed out in either order, and static and interned tokens race on the token map. `SharedInstancesUnique` and `Refinement`. About 216k states, 1.5 min. |
| `length_overflow` | `length_overflow.cfg` | pass | Debug build with `LenBits = 2`. Two `ab` tokens overflow `doc_len`, and the builder panics. `LengthsExact`: every length kept is the exact length of its text (the type invariant is left to `builder`). About 52k states. |
| `release_build` | `release_build.cfg` | pass | Release build, 6 calls. `token(2, "ab")` is accepted as a `+` token. `Refinement` against the nested builder with unchecked static text, and `LengthsExact`. About 90k states. |
| `threshold_boundary` | `threshold_boundary.cfg` | pass | One kind, one text, 10 calls: two structurally equal 3-child nodes are built, and `SharedInstancesUnique` requires them to be one instance (spec §8, threshold boundary). About 227k states, 20 s. |
| `ownership` | `ownership.cfg` | pass | Two interners, two caches and two builders, through every constructor, `into_interner`, `finish`, and a panic in any builder method. `KeysLostOnlyToPanics`: an interner a finished root took keys from is dropped only by unwinding a panic in a builder that owned its cache. `MayPanic = TRUE`. About 5.3k states. |
| `dashmap_entry` | `dashmap_entry.cfg` | pass | Three threads make two calls each on three keys, two of which share a shard. `Agreement`: racers on one key return one value. `Linearizable`: the statement implements `GetOrInsert`. `CallsReturn`: every call returns. About 216k states, 45 s. |
| `hash_collision` | `hash_collision.cfg` | violation of `Refinement` | With a 6-bit hash state, `P(X(a, b, c))` hashes `[X]` to the same head as `[a, b, c]`. `finish_node` for `P` returns `X`, and the tree loses a level. The code never compares children on a hit (finding 1). |
| `unbalanced_finish` | `unbalanced_finish.cfg` | violation of `FinishRequiresBalanced` | `start_node(A)`, `start_node(B)`, `finish_node`, `finish` returns `B`, and `A` is dropped without a panic (finding 2). |
| `text_len_truncation` | `text_len_truncation.cfg` | violation of `LengthsExact` | `token(1, huge)`, with `huge` exactly as long as `TextSize` is wide, stores a token of length 0, and `doc_len` stays 0. `as u32` truncates without a check in every build (finding 3). |

### Bounds, and why they are enough

- **`MaxOps = 7` with one thread.** This reaches:
  - two structurally equal small nodes built in sequence (dedup within a tree);
  - a node with 4 children (above the threshold);
  - nested frames with a checkpoint used inside and outside its frame;
  - `pop_last_child` of a finished node;
  - `finish` followed by `with_cache` and a second tree.

  At 8 calls the run takes 13 minutes.
- **`MaxOps = 4` with two threads.** Each thread can complete `start_node`, `token`, `finish_node`, so the two race to insert the same node and token. 5 calls take over 3 minutes.
- **`MaxOps = 3` with two threads and the full alphabet** (`shared_cache_mixed`). Each thread can intern a text or add a static token and close a node around it. 4 calls with even one kind and two texts take 3 minutes.
- **`MaxOps = 10` with one kind and one text** (`threshold_boundary`). 10 calls is the least that builds two equal 3-child nodes (`start_node`, three tokens, `finish_node`, twice). The other half of the spec's boundary test, two equal 4-child nodes, needs 12 calls: 3.1M states and 3.4 minutes, too slow for a run that also has a mutant.
- **`LenBits = 2`** (`length_overflow`). Two tokens already reach the overflow. The other runs use `LenBits = 16`, where no sum overflows within their bounds.
- **Ownership: two of each object.** Two builders can borrow one cache while the other cache borrows or owns the second interner. A cache can also pass from one builder to the next through `finish` and `from_cache`. Every violation of `KeysLostOnlyToPanics` that the mutants introduce needs at most one builder, one cache and one interner besides the shared ones.
- **DashMap: three threads, two calls each, three keys in two shards.** Two threads race on one key while a third waits on the same shard for another key, or proceeds on the other shard. Symmetry is not used, because the run checks liveness.
- **Hash width.** `HashBits = 15` in the passing runs, and no collision occurs within these bounds: `Refinement` would catch one. `HashBits = 6` in `hash_collision`.

### Properties

- `StackWellFormed`: frame start indices never decrease up the stack and never exceed the pending length.
- `DocLenMatches`: `doc_len` equals the sum of the pending children's lengths.
- `SharedInstancesUnique`: two distinct allocations with equal content must be nodes above the threshold. This is checked over everything reachable from every thread's pending list, every returned root and the cache.
- `LengthsExact`: every token's and node's `text_len`, and `doc_len`, equal the byte length of the source text they stand for, computed from the abstract elements.
- `FinishRequiresBalanced`: an action property. `finish` succeeds only with no open frame.
- `Refinement`: `NestedBuilder!Spec`.
- `KeysLostOnlyToPanics`: an interner that a finished root's keys belong to (spec §5, the cache returned for reuse) is dropped only while unwinding a panic in a builder the interner's cache had been moved into.
- `Agreement`: every call on a key returns the same value (spec §4.1).
- `Linearizable`: `GetOrInsert!Spec`, with its fairness.
- `CallsReturn`: every started map call returns (`~>`).

Every property of a passing run has a mutant in `PROJECT.json`, a plausible bug that TLC shows the property catches:
- a token allocation that does not advance the id;
- a cache miss that is never stored;
- interner keys counted from 0;
- `start_node_at` without its second assert;
- `pop_last_child` that forgets `doc_len`;
- an unchecked (wrapping) `TextSize` add;
- `static_text` ignored by `token`, or the given text's length used for a static token;
- `<` for `<=` at `CHILDREN_CACHE_THRESHOLD`, which only `threshold_boundary` is deep enough to catch;
- `into_owned` answering `None` for an owned cache in `finish`, or for an owned interner in `into_interner`;
- the lookup of `entry()` made without the shard lock (get, then insert);
- the `RefMut` guard kept past the statement, so the shard stays locked.

### Fairness and liveness

The builder and ownership modules assume no fairness. Every operation is a synchronous call made at the caller's discretion, and a parser may stop calling at any time. Their runs therefore set `CHECK_DEADLOCK FALSE`, because a thread that has used its call budget, finished, or panicked legitimately stops.

The one place the code can block is DashMap's shard lock. `DashMapEntry` assumes weak fairness for each thread's `Entry`, `OrInsertWith` and `Unlock`, and none for `Call`. This is justified as follows:
- threads are scheduled by the OS;
- the holder of a shard lock runs a lookup, an allocation and a clone, with no nested locking, then drops the guard;
- a thread can take its step whenever the lock is free.

The lock is not fair, so strong fairness is not assumed. `CallsReturn` holds because every caller makes finitely many calls: a thread could be starved only by others that keep calling forever. `dashmap_entry` also sets `CHECK_DEADLOCK FALSE`, since all threads stop once their calls are made; `CallsReturn` is what rules out a thread stuck on a lock.

## 4. Not modelled

- **The tree behind an ownership step.** `CacheOwnership` does not know the pending children, so with `MayPanic` it lets `finish` and every other method either succeed or panic. `ThreadedBuilder` decides which from the children, but it has one borrowed cache and no ownership.
- **Dedup across several caches.** `ThreadedBuilder` has one shared cache. With several caches, trees built through different caches share nothing. Only the ownership side of several caches is modelled, in `CacheOwnership`.
- **Out-of-scope parts.** The red tree layer, the parser, syntax-kind definitions and serialization are out of the spec's scope and absent from the source.

## 5. Plan for later sittings

Items are listed in order of importance. The ownership model, the DashMap refinement and `finish`'s panic paths are done (sections 2 and 3).

1. **Above-threshold half of the boundary.** Two equal 4-child nodes must be separate allocations. This needs 12 calls, or a cheaper way to reach the state.
2. **Out-of-band interning.** `interner_mut` lets the caller intern text between builder calls. `ThreadedBuilder` could take such a step, when its thread owns the cache, to check that tokens still resolve to their text.
