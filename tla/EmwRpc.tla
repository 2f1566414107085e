------------------------------- MODULE EmwRpc -------------------------------
(***************************************************************************)
(* What EmwCoreIpc::request() promises to the tasks that call it: calls to *)
(* the Wi-Fi module are served one at a time, and a call that returns      *)
(* eSUCCESS returns with the answer to its own command.                    *)
(*                                                                         *)
(* The promise has one exception, stated here rather than left out: when   *)
(* an answer lands after a call has timed out but before the call has      *)
(* withdrawn its request, the call fails although it was answered, and     *)
(* from then on (spoilt) the promise is void.                              *)
(***************************************************************************)
CONSTANTS Tasks

VARIABLES
    call,     \* call[t]: "idle", "asking" or "answered"
    result,   \* result[t]: how the last call of t ended
    spoilt    \* an answered call has failed

vars == <<call, result, spoilt>>

Phase == {"idle", "asking", "answered"}
Result == {"none", "success", "error"}

Init ==
    /\ call = [t \in Tasks |-> "idle"]
    /\ result = [t \in Tasks |-> "none"]
    /\ spoilt = FALSE

(* A task makes a call, which waits for its turn. *)
Begin(t) ==
    /\ call[t] = "idle"
    /\ result' = [result EXCEPT ![t] = "none"]
    /\ UNCHANGED <<call, spoilt>>

(* The command is sent, only when no other call is in progress. *)
Ask(t) ==
    /\ \A u \in Tasks : call[u] = "idle"
    /\ call' = [call EXCEPT ![t] = "asking"]
    /\ UNCHANGED <<result, spoilt>>

(* A call that is refused locally: its command is too large to be sent. *)
Refuse(t) ==
    /\ call[t] = "idle"
    /\ result' = [result EXCEPT ![t] = "error"]
    /\ UNCHANGED <<call, spoilt>>

Answer(t) ==
    /\ call[t] = "asking"
    /\ call' = [call EXCEPT ![t] = "answered"]
    /\ UNCHANGED <<result, spoilt>>

Succeed(t) ==
    /\ call[t] = "answered"
    /\ call' = [call EXCEPT ![t] = "idle"]
    /\ result' = [result EXCEPT ![t] = "success"]
    /\ UNCHANGED spoilt

(* A call fails by timeout; one that fails although answered spoils the rest. *)
Fail(t) ==
    /\ call[t] # "idle"
    /\ call' = [call EXCEPT ![t] = "idle"]
    /\ result' = [result EXCEPT ![t] = "error"]
    /\ spoilt' = (call[t] = "answered")

(* Once spoilt, calls may end in any way. *)
Anything ==
    /\ spoilt
    /\ call' \in [Tasks -> Phase]
    /\ result' \in [Tasks -> Result]
    /\ UNCHANGED spoilt

Next ==
    \/ \E t \in Tasks : Begin(t) \/ Refuse(t) \/ Ask(t)
    \/ \E t \in Tasks : Answer(t) \/ Succeed(t) \/ Fail(t)
    \/ Anything

Spec == Init /\ [][Next]_vars
=============================================================================
