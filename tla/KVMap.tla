------------------------------- MODULE KVMap -------------------------------
(***************************************************************************)
(* What include/kv_api.h promises its callers while the power stays on: a  *)
(* finite map.  A call changes only the keys it names, to the value it     *)
(* brings; when it returns success all of them have it, and when it fails  *)
(* none of them was touched.  A collection never changes the map.  Nothing *)
(* is promised here from the first power failure on.                       *)
(***************************************************************************)
CONSTANTS Keys, Vals, NoVal

VARIABLES
  dict,   \* the value kv_item_get returns for each key
  req,    \* the keys the call in progress may still change, and their new value
  up      \* the power has not failed yet

vars == <<dict, req, up>>

Idle == [keys |-> {}, val |-> NoVal]

Init == dict = [k \in Keys |-> NoVal] /\ req = Idle /\ up = TRUE

Call(K, v) == req = Idle /\ req' = [keys |-> K, val |-> v] /\ UNCHANGED dict

Apply(k) == k \in req.keys /\ dict' = [dict EXCEPT ![k] = req.val] /\ UNCHANGED req

Succeed == (\A k \in req.keys : dict[k] = req.val) /\ req' = Idle /\ UNCHANGED dict

Fail == (\A k \in req.keys : dict[k] # req.val) /\ req' = Idle /\ UNCHANGED dict

Serve ==
  \/ \E K \in SUBSET Keys : Call(K, NoVal)
  \/ \E k \in Keys, v \in Vals : Call({k}, v)
  \/ \E k \in Keys : Apply(k)
  \/ Succeed \/ Fail

PowerFail == up' = FALSE

Next == (up' = TRUE /\ Serve) \/ PowerFail

Spec == Init /\ [][Next]_vars
============================================================================
