------------------------------- MODULE NvdmKv -------------------------------
(***************************************************************************)
(* What the NVDM data store promises its callers, independent of flash:    *)
(* a key-value map that survives power loss.  A write takes effect at one  *)
(* instant or not at all, also when the power fails in the middle of it;   *)
(* the deletion of a group of items takes effect one item at a time; a     *)
(* call that reports an error has changed nothing.                         *)
(* A key stands for a <group name, data item name> pair.                   *)
(***************************************************************************)
EXTENDS Naturals

CONSTANTS
    Keys,      \* the data item names in use
    Values,    \* the values a client may write
    KeySets,   \* the sets of keys one delete call removes: an item, a group, all
    Missing,   \* marks a key that has no value
    NoReq      \* no call is executing

VARIABLES
    kv,        \* the durable contents
    req,       \* the call being executed
    done,      \* the call has taken (some) effect
    ret        \* the status the last completed call returned

vars == <<kv, req, done, ret>>

WriteReq == [op : {"write"}, key : Keys, val : Values]
DeleteReq == [op : {"delete"}, keys : KeySets]
Status == {"NONE", "OK", "ERROR", "INSUFFICIENT_SPACE", "ITEM_NOT_FOUND"}

TypeOK ==
    /\ kv \in [Keys -> Values \cup {Missing}]
    /\ req \in WriteReq \cup DeleteReq \cup {NoReq}
    /\ done \in BOOLEAN
    /\ ret \in Status

Init ==
    /\ kv = [k \in Keys |-> Missing]
    /\ req = NoReq
    /\ done = FALSE
    /\ ret = "NONE"

Request ==
    /\ req = NoReq
    /\ req' \in WriteReq \cup DeleteReq
    /\ done' = FALSE
    /\ ret' = "NONE"
    /\ UNCHANGED kv

Write ==
    /\ req # NoReq /\ req.op = "write" /\ ~done
    /\ kv' = [kv EXCEPT ![req.key] = req.val]
    /\ done' = TRUE
    /\ UNCHANGED <<req, ret>>

Remove ==
    /\ req # NoReq /\ req.op = "delete"
    /\ \E k \in req.keys :
          /\ kv[k] # Missing
          /\ kv' = [kv EXCEPT ![k] = Missing]
    /\ done' = TRUE
    /\ UNCHANGED <<req, ret>>

Reply(status) ==
    /\ ret' = status
    /\ req' = NoReq
    /\ done' = FALSE
    /\ UNCHANGED kv

ReplyOK ==
    /\ req # NoReq /\ done
    /\ req.op = "delete" => \A k \in req.keys : kv[k] = Missing
    /\ Reply("OK")

ReplyNotFound ==
    /\ req # NoReq /\ req.op = "delete" /\ ~done
    /\ \A k \in req.keys : kv[k] = Missing
    /\ Reply("ITEM_NOT_FOUND")

ReplyRefused ==
    /\ req # NoReq /\ req.op = "write" /\ ~done
    /\ \E status \in {"ERROR", "INSUFFICIENT_SPACE"} : Reply(status)

PowerLoss == Reply("NONE")

Next ==
    \/ Request \/ Write \/ Remove
    \/ ReplyOK \/ ReplyNotFound \/ ReplyRefused
    \/ PowerLoss

Spec == Init /\ [][Next]_vars
=============================================================================
