---------------------------- MODULE DashMapEntry ----------------------------
(***************************************************************************)
(* One of ThreadedNodeCache's DashMaps, at the grain of the shard lock:    *)
(*                                                                         *)
(*   self.nodes.entry(head.clone())                       lock, look up    *)
(*       .or_insert_with(|| GreenNode::from_head_...)     insert if vacant *)
(*       .clone()                                         clone the Arc    *)
(*   (end of statement: the RefMut is dropped)            unlock           *)
(*                                                                         *)
(* get_cached_node (lines 229-232) and token (lines 239-242) use the same  *)
(* statement on the node map and on the token map.  entry() takes the      *)
(* key's shard write lock, blocking while another thread holds it, and the *)
(* Entry it returns (Occupied or Vacant) holds the guard until the         *)
(* temporary is dropped.                                                   *)
(*                                                                         *)
(*   lock[s]    the thread holding shard s's write lock, NoThread if none  *)
(*   pc[t]      "idle", "entry" (waiting for the lock), "locked" (holds an *)
(*              Entry), "cloned" (holds the RefMut, result cloned)         *)
(*   found[t]   what the Entry saw under the key: Occupied's value or      *)
(*              NoValue for Vacant                                         *)
(* and the variables of GetOrInsert, which this module implements.         *)
(***************************************************************************)
EXTENDS Naturals

CONSTANTS Threads, Keys, Shards, ShardOf, MaxCalls, NoThread

ASSUME ShardOf \in [Keys -> Shards] /\ NoThread \notin Threads

NoValue == 0

VARIABLES store, lock, pc, key, found, result, nextId, calls, seen

vars == <<store, lock, pc, key, found, result, nextId, calls, seen>>

Init ==
    /\ store = [k \in Keys |-> NoValue]
    /\ lock = [s \in Shards |-> NoThread]
    /\ pc = [t \in Threads |-> "idle"]
    /\ key = [t \in Threads |-> CHOOSE k \in Keys : TRUE]
    /\ found = [t \in Threads |-> NoValue]
    /\ result = [t \in Threads |-> NoValue]
    /\ nextId = 1
    /\ calls = [t \in Threads |-> 0]
    /\ seen = {}

\* The builder reaches the statement with a key (the head or token data).
Call(t, k) ==
    /\ pc[t] = "idle" /\ calls[t] < MaxCalls
    /\ pc' = [pc EXCEPT ![t] = "entry"]
    /\ key' = [key EXCEPT ![t] = k]
    /\ calls' = [calls EXCEPT ![t] = @ + 1]
    /\ UNCHANGED <<store, lock, found, result, nextId, seen>>

\* Mutation: the lookup runs without the write lock (a `get` followed by an
\* `insert`, or a read guard where entry() takes a write guard).
EntryUnlocked(t) ==
    /\ pc[t] = "entry"
    /\ pc' = [pc EXCEPT ![t] = "locked"]
    /\ found' = [found EXCEPT ![t] = store[key[t]]]
    /\ UNCHANGED <<store, lock, key, result, nextId, calls, seen>>

\* entry(key): wait for the shard's write lock, then look the key up.
Entry(t) ==
    /\ pc[t] = "entry"
    /\ lock[ShardOf[key[t]]] = NoThread
    /\ lock' = [lock EXCEPT ![ShardOf[key[t]]] = t]
    /\ pc' = [pc EXCEPT ![t] = "locked"]
    /\ found' = [found EXCEPT ![t] = store[key[t]]]
    /\ UNCHANGED <<store, key, result, nextId, calls, seen>>

\* or_insert_with(f).clone(): an Occupied entry yields its value; a Vacant
\* one stores f()'s fresh Arc.  The value is cloned under the guard.
OrInsertWith(t) ==
    /\ pc[t] = "locked"
    /\ pc' = [pc EXCEPT ![t] = "cloned"]
    /\ IF found[t] # NoValue
       THEN /\ result' = [result EXCEPT ![t] = found[t]]
            /\ UNCHANGED <<store, nextId>>
       ELSE /\ store' = [store EXCEPT ![key[t]] = nextId]
            /\ result' = [result EXCEPT ![t] = nextId]
            /\ nextId' = nextId + 1
    /\ UNCHANGED <<lock, key, found, calls, seen>>

\* Mutation: the guard outlives the statement (the RefMut is kept, e.g.
\* bound to a variable), so the shard stays locked after the call returns.
UnlockLeaks(t) ==
    /\ pc[t] = "cloned"
    /\ pc' = [pc EXCEPT ![t] = "idle"]
    /\ seen' = seen \cup {<<key[t], result[t]>>}
    /\ UNCHANGED <<store, lock, key, found, result, nextId, calls>>

\* The temporary RefMut is dropped: the shard is unlocked and the clone
\* returned to the builder.
Unlock(t) ==
    /\ pc[t] = "cloned"
    /\ lock' = [lock EXCEPT ![ShardOf[key[t]]] = NoThread]
    /\ pc' = [pc EXCEPT ![t] = "idle"]
    /\ seen' = seen \cup {<<key[t], result[t]>>}
    /\ UNCHANGED <<store, key, found, result, nextId, calls>>

Next ==
    \E t \in Threads :
        \/ \E k \in Keys : Call(t, k)
        \/ Entry(t)
        \/ OrInsertWith(t)
        \/ Unlock(t)

\* Threads are scheduled by the OS, and none blocks inside the statement
\* except on the shard lock, so a thread that can take a step eventually
\* does.  The lock is not fair: only weak fairness is assumed for Entry,
\* which suffices because every caller makes finitely many calls.
Spec ==
    /\ Init /\ [][Next]_vars
    /\ \A t \in Threads :
          WF_vars(Entry(t)) /\ WF_vars(OrInsertWith(t)) /\ WF_vars(Unlock(t))

-----------------------------------------------------------------------------
(* Refinement: the effect of a call happens at or_insert_with.             *)

Atomic == INSTANCE GetOrInsert WITH
    phase <- [t \in Threads |->
                 CASE pc[t] = "idle" -> "idle"
                   [] pc[t] \in {"entry", "locked"} -> "called"
                   [] pc[t] = "cloned" -> "applied"]

\* Every run of the locked statement is a run of the atomic get-or-insert,
\* with its fairness: racing inserts on one key leave one stored Arc that
\* every racer returns, and no entry is ever replaced.  This is what lets
\* ThreadedNodeCache treat each map operation as one step.
Linearizable == Atomic!Spec

\* Spec 4.1: all calls on a key return the same shared instance.  Two
\* builders finishing equal small nodes, or pushing equal tokens, at the
\* same moment get one Arc between them.
Agreement ==
    \A p, q \in seen : p[1] = q[1] => p[2] = q[2]

\* Every call to get_cached_node or token returns: no thread waits for a
\* shard lock forever.
CallsReturn ==
    \A t \in Threads : pc[t] # "idle" ~> pc[t] = "idle"

=============================================================================
