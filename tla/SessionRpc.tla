----------------------------- MODULE SessionRpc -----------------------------
(***************************************************************************)
(* What the hub promises its callers, with no connection in sight: a call  *)
(* is submitted, begins, and ends once, with its own answer or with an     *)
(* error; two calls that drive the same tab are never in progress          *)
(* together; a crash of the service ends every unfinished call.            *)
(***************************************************************************)
CONSTANTS
    Calls,
    Keys,        \* tabs
    KeyOf,       \* [Calls -> Keys]
    Shared       \* calls that drive no tab and need no exclusion

VARIABLES
    status,      \* idle, submitted, running, done
    result       \* none, own answer, or failed

rpcVars == <<status, result>>

RpcTypeOK ==
    /\ status \in [Calls -> {"idle", "submitted", "running", "done"}]
    /\ result \in [Calls -> {"none", "own", "failed"}]

RpcInit ==
    /\ status = [c \in Calls |-> "idle"]
    /\ result = [c \in Calls |-> "none"]

Submit(c) ==
    /\ status[c] = "idle"
    /\ status' = [status EXCEPT ![c] = "submitted"]
    /\ UNCHANGED result

\* The tab of the call is free.
Free(c) == \A d \in Calls \ Shared :
               KeyOf[d] = KeyOf[c] => status[d] # "running"

Begin(c) ==
    /\ status[c] \in {"idle", "submitted"}
    /\ c \in Shared \/ Free(c)
    /\ status' = [status EXCEPT ![c] = "running"]
    /\ UNCHANGED result

\* A submitted call that never began can only fail.
End(c) ==
    /\ \/ /\ status[c] = "running"
          /\ \E r \in {"own", "failed"} : result' = [result EXCEPT ![c] = r]
       \/ /\ status[c] = "submitted"
          /\ result' = [result EXCEPT ![c] = "failed"]
    /\ status' = [status EXCEPT ![c] = "done"]

Crash ==
    /\ status' = [c \in Calls |-> IF status[c] = "idle" THEN "idle" ELSE "done"]
    /\ result' = [c \in Calls |-> IF status[c] \in {"submitted", "running"}
                                  THEN "failed" ELSE result[c]]

RpcNext == Crash \/ \E c \in Calls : Submit(c) \/ Begin(c) \/ End(c)

RpcSpec == RpcInit /\ [][RpcNext]_rpcVars
=============================================================================
