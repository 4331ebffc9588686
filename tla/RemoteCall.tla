------------------------------ MODULE RemoteCall ------------------------------
(***************************************************************************)
(* What POST /api/devices/commands promises, whatever the hub, the network *)
(* and the device do: every call is executed at most once and returns at   *)
(* most once; a refused call is never executed; a returned result is the   *)
(* device's own; "no acknowledgement in time" promises nothing.            *)
(***************************************************************************)
CONSTANTS Reqs,      \* calls
          Outcomes,  \* what a device answers
          Refusals,  \* replies that say the command was not delivered
          Unknown,   \* the reply that says nothing about the execution
          None

VARIABLES result,  \* the outcome of the execution, None before
          reply    \* what the caller was told, None before

callVars == <<result, reply>>

Init == /\ result = [r \in Reqs |-> None]
        /\ reply = [r \in Reqs |-> None]

Execute(r) == /\ result[r] = None
              /\ reply[r] \notin Refusals
              /\ \E o \in Outcomes : result' = [result EXCEPT ![r] = o]
              /\ UNCHANGED reply

Refuse(r) == /\ result[r] = None
             /\ \E why \in Refusals : reply' = [reply EXCEPT ![r] = why]

Return(r) == \E o \in {Unknown, result[r]} \ {None} :
                reply' = [reply EXCEPT ![r] = o]

Reply(r) == /\ reply[r] = None
            /\ Refuse(r) \/ Return(r)
            /\ UNCHANGED result

Next == \E r \in Reqs : Execute(r) \/ Reply(r)

Spec == Init /\ [][Next]_callVars
=============================================================================
