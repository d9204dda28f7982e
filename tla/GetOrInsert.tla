----------------------------- MODULE GetOrInsert -----------------------------
(***************************************************************************)
(* The contract of the cache's two maps (spec 4.1): a per-key linearizable *)
(* get-or-insert.  A call takes effect in one step, somewhere between its  *)
(* invocation and its return: it returns the value stored under the key,  *)
(* or stores a fresh one and returns that.  Entries are never replaced or  *)
(* removed.                                                                *)
(*                                                                         *)
(*   store[k]   the value stored under k, NoValue while k is absent        *)
(*   phase[t]   "idle", "called" (invoked, not yet in effect) or "applied" *)
(*              (in effect, not yet returned)                              *)
(*   key[t], result[t]  the call's key and the value it will return        *)
(*   nextId     the next fresh value (a new Arc)                           *)
(*   calls[t]   calls made so far, bounded by MaxCalls                     *)
(*   seen       the <<key, value>> pairs returned so far                   *)
(***************************************************************************)
EXTENDS Naturals

CONSTANTS Threads, Keys, MaxCalls

NoValue == 0

VARIABLES store, phase, key, result, nextId, calls, seen

vars == <<store, phase, key, result, nextId, calls, seen>>

Init ==
    /\ store = [k \in Keys |-> NoValue]
    /\ phase = [t \in Threads |-> "idle"]
    /\ key = [t \in Threads |-> CHOOSE k \in Keys : TRUE]
    /\ result = [t \in Threads |-> NoValue]
    /\ nextId = 1
    /\ calls = [t \in Threads |-> 0]
    /\ seen = {}

Call(t, k) ==
    /\ phase[t] = "idle" /\ calls[t] < MaxCalls
    /\ phase' = [phase EXCEPT ![t] = "called"]
    /\ key' = [key EXCEPT ![t] = k]
    /\ calls' = [calls EXCEPT ![t] = @ + 1]
    /\ UNCHANGED <<store, result, nextId, seen>>

Apply(t) ==
    /\ phase[t] = "called"
    /\ phase' = [phase EXCEPT ![t] = "applied"]
    /\ IF store[key[t]] # NoValue
       THEN /\ result' = [result EXCEPT ![t] = store[key[t]]]
            /\ UNCHANGED <<store, nextId>>
       ELSE /\ store' = [store EXCEPT ![key[t]] = nextId]
            /\ result' = [result EXCEPT ![t] = nextId]
            /\ nextId' = nextId + 1
    /\ UNCHANGED <<key, calls, seen>>

Return(t) ==
    /\ phase[t] = "applied"
    /\ phase' = [phase EXCEPT ![t] = "idle"]
    /\ seen' = seen \cup {<<key[t], result[t]>>}
    /\ UNCHANGED <<store, key, result, nextId, calls>>

Next ==
    \E t \in Threads :
        \/ \E k \in Keys : Call(t, k)
        \/ Apply(t)
        \/ Return(t)

\* A caller need not call again, but a call once made completes.
Spec ==
    /\ Init /\ [][Next]_vars
    /\ \A t \in Threads : WF_vars(Apply(t)) /\ WF_vars(Return(t))

=============================================================================
