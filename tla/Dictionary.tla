----------------------------- MODULE Dictionary -----------------------------
(***************************************************************************)
(* What a map from keys to non-null values promises: put binds, del        *)
(* unbinds, get answers with the binding, and each says what it did.       *)
(* HashMap.tla (stdlib/utils/hashmap.h) is checked to implement it.        *)
(***************************************************************************)
CONSTANTS Keys, Vals, NoVal

VARIABLES
    dict,   \* the value of every key, NoVal when it has none
    call,   \* the last call and its arguments
    ret     \* what it returned

vars == <<dict, call, ret>>

Nothing == [k \in Keys |-> NoVal]

Init == dict = Nothing /\ call = <<"init">> /\ ret = "ok"

Put(k, v) ==
    /\ call' = <<"put", k, v>>
    /\ dict' = [dict EXCEPT ![k] = v]
    /\ ret' = "ok"

\* A put may fail (out of memory) and then changes nothing.
PutFail(k, v) ==
    /\ call' = <<"put", k, v>>
    /\ ret' = "fail"
    /\ UNCHANGED dict

Get(k) ==
    /\ call' = <<"get", k>>
    /\ ret' = dict[k]
    /\ UNCHANGED dict

Del(k) ==
    /\ call' = <<"del", k>>
    /\ ret' = IF dict[k] = NoVal THEN "fail" ELSE "ok"
    /\ dict' = [dict EXCEPT ![k] = NoVal]

\* A new map, also one that could not be had, and a freed one hold nothing.
Clear ==
    /\ call' \in {<<"init">>, <<"free">>}
    /\ dict' = Nothing
    /\ ret' \in {"ok", "fail"}

Next ==
    \/ \E k \in Keys, v \in Vals : Put(k, v) \/ PutFail(k, v)
    \/ \E k \in Keys : Get(k) \/ Del(k)
    \/ Clear

Spec == Init /\ [][Next]_vars
=============================================================================
