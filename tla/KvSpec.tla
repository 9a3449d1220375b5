------------------------------- MODULE KvSpec -------------------------------
(***************************************************************************)
(* What the key-value store promises its callers (components/kv/README.md, *)
(* "power-loss protection"): a set either happens or does not, a failed    *)
(* set leaves the old value, and a power loss at any moment leaves every   *)
(* key with the value it had or, for the key being set or deleted, with    *)
(* the new one.                                                            *)
(***************************************************************************)
CONSTANTS Key, Val,
          NULL,     \* the value of a key that does not exist
          Default   \* the factory value of every key, or NULL

VARIABLES store,    \* the value a reader of each key would get
          req       \* the call in progress

Idle == [call |-> "none"]
Off  == [call |-> "off"]

Init == store = Default /\ req = Off

CallSet(k, v) ==
    /\ req = Idle
    /\ req' = [call |-> "set", key |-> k, val |-> v, was |-> store[k]]
    /\ UNCHANGED store

CallRm(k) ==
    /\ req = Idle
    /\ req' = [call |-> "rm", key |-> k, was |-> store[k]]
    /\ UNCHANGED store

CallReset ==
    /\ req = Idle
    /\ req' = [call |-> "reset"]
    /\ UNCHANGED store

(* The one moment a call takes effect; a reset takes one for each key. *)
Effect ==
    /\ CASE req.call = "set" -> store' = [store EXCEPT ![req.key] = req.val]
         [] req.call = "rm"  -> store' = [store EXCEPT ![req.key] = Default[req.key]]
         [] req.call = "reset"
              -> \E k \in Key : store' = [store EXCEPT ![k] = Default[k]]
         [] OTHER -> FALSE
    /\ UNCHANGED req

(* kv_set reports success exactly when the value is there, and failure     *)
(* only when nothing changed; kv_rm reports whether there was a value.     *)
Return(ok) ==
    /\ CASE req.call = "set" -> IF ok THEN store[req.key] = req.val
                                      ELSE store[req.key] = req.was
         [] req.call = "rm"  -> /\ store[req.key] = Default[req.key]
                                /\ ok = (req.was # NULL)
         [] req.call = "reset" -> ok /\ store = Default
         [] OTHER -> FALSE
    /\ req' = Idle
    /\ UNCHANGED store

PowerLoss == req' = Off /\ UNCHANGED store

PowerOn == req = Off /\ req' = Idle /\ UNCHANGED store

Next ==
    \/ \E k \in Key, v \in Val : CallSet(k, v)
    \/ \E k \in Key : CallRm(k)
    \/ CallReset
    \/ Effect
    \/ \E ok \in BOOLEAN : Return(ok)
    \/ PowerLoss
    \/ PowerOn

Spec == Init /\ [][Next]_<<store, req>>
=============================================================================
