--------------------------- MODULE CommandDispatch ---------------------------
(***************************************************************************)
(* One operator command on its way to the device and back                  *)
(* (SomNet.API/Services/HardwareCommandDispatcher.cs, the pending          *)
(* acknowledgements of DeviceConnectionRegistry.cs, HardwareHub.AckCommand)*)
(* over connections that come and go (HubConnections).  Requests run       *)
(* concurrently, each a chain of awaits; the hub handles acknowledgements  *)
(* on other threads.  The device answers when its firmware does            *)
(* (DeviceCore), on whatever connection it holds then.                     *)
(***************************************************************************)
EXTENDS HubConnections

CONSTANTS Reqs   \* requests, each with its own correlation id

Outcomes == {"ok", "fail"}                  \* HardwareCommandAckDto.Success
Refusals == {"undelivered", "canceled"}     \* Delivered = false; an exception
Replies  == Outcomes \cup Refusals \cup {"timeout"}

Steps == {"idle", "registered", "found", "sent", "waiting", "expired", "done"}

ASSUME NoneAssumption == None \notin Replies \cup Steps

VARIABLES active,    \* the device has a registration that is not revoked
          at,        \* where each request is in SendCommandAsync
          to,        \* the connection id it read from the registry
          pending,   \* _pendingAcks: per id "absent", "open", or the result set
          commands,  \* ExecuteCommand messages on their way to the device
          acks,      \* AckCommand messages on their way to the hub
          device,    \* per request: "unseen", "running", or what it answered
          reply,     \* the HTTP response, None before
          told,      \* CommandAcknowledged broadcast to operators, None before
          heard      \* history: where the request was when its answer came in

reqVars == <<active, at, to, pending, commands, acks, device, reply, told, heard>>
vars    == <<linkVars, reqVars>>

TypeOK == /\ LinkTypeOK
          /\ active \in BOOLEAN
          /\ at \in [Reqs -> Steps]
          /\ to \in [Reqs -> Conns \cup {None}]
          /\ pending \in [Reqs -> {"absent", "open"} \cup Outcomes]
          /\ commands \subseteq [req : Reqs, conn : Conns]
          /\ acks \subseteq [req : Reqs, conn : Conns, outcome : Outcomes]
          /\ device \in [Reqs -> {"unseen", "running"} \cup Outcomes]
          /\ reply \in [Reqs -> Replies \cup {None}]
          /\ told \in [Reqs -> Outcomes \cup {None}]
          /\ heard \in [Reqs -> Steps \cup {None}]

Init == /\ LinkInit
        /\ active = TRUE
        /\ at = [r \in Reqs |-> "idle"]
        /\ to = [r \in Reqs |-> None]
        /\ pending = [r \in Reqs |-> "absent"]
        /\ commands = {}
        /\ acks = {}
        /\ device = [r \in Reqs |-> "unseen"]
        /\ reply = [r \in Reqs |-> None]
        /\ told = [r \in Reqs |-> None]
        /\ heard = [r \in Reqs |-> None]

-----------------------------------------------------------------------------
(* SendCommandAsync, one action between two awaits or shared accesses      *)

Return(r, what) == /\ at' = [at EXCEPT ![r] = "done"]
                   /\ reply' = [reply EXCEPT ![r] = what]

Goto(r, step) == /\ at' = [at EXCEPT ![r] = step]
                 /\ UNCHANGED reply

(* Seeded fault: a command for a revoked device goes on.                   *)
ResolveAny(r) == /\ at[r] = "idle"
                 /\ Goto(r, "registered")
                 /\ UNCHANGED <<linkVars, active, to, pending, commands, acks,
                                device, told, heard>>

(* The registration is read from the database.                             *)
Resolve(r) == /\ at[r] = "idle"
              /\ IF active THEN Goto(r, "registered") ELSE Return(r, "undelivered")
              /\ UNCHANGED <<linkVars, active, to, pending, commands, acks,
                             device, told, heard>>

(* The registry is asked for the connection, then the payload is validated:*)
(* an offline device refuses the request, an invalid payload may.          *)
Lookup(r) == /\ at[r] = "registered"
             /\ \/ Return(r, "undelivered") /\ UNCHANGED to
                \/ /\ entry # None
                   /\ Goto(r, "found") /\ to' = [to EXCEPT ![r] = entry]
             /\ UNCHANGED <<linkVars, active, pending, commands, acks, device,
                            told, heard>>

(* ExecuteCommand is sent to that connection; a closed one swallows it.    *)
Send(r) == /\ at[r] = "found"
           /\ Goto(r, "sent")
           /\ commands' = commands \cup
                [req : {r}, conn : {to[r]} \cap {link}]
           /\ UNCHANGED <<linkVars, active, to, pending, acks, device, told,
                          heard>>

(* WaitForAcknowledgementAsync: only now is the pending entry added.       *)
Await(r) == /\ at[r] = "sent"
            /\ Goto(r, "waiting")
            /\ pending' = [pending EXCEPT ![r] = "open"]
            /\ UNCHANGED <<linkVars, active, to, commands, acks, device, told,
                           heard>>

(* Seeded fault: the deadline wins over an answer that is already there.   *)
ExpireAnyway(r) == /\ at[r] = "waiting"
                   /\ Goto(r, "expired")
                   /\ UNCHANGED <<linkVars, active, to, pending, commands, acks,
                                  device, told, heard>>

(* Seeded fault: running out of time is stored as if it were an answer.    *)
ExpireIntoSlot(r) == /\ at[r] = "waiting"
                     /\ pending[r] = "open"
                     /\ Goto(r, "expired")
                     /\ pending' = [pending EXCEPT ![r] = "timeout"]
                     /\ UNCHANGED <<linkVars, active, to, commands, acks,
                                    device, told, heard>>

(* The deadline passes, or the caller goes away, before any answer.        *)
Expire(r) == /\ at[r] = "waiting"
             /\ pending[r] = "open"
             /\ Goto(r, "expired")
             /\ UNCHANGED <<linkVars, active, to, pending, commands, acks,
                            device, told, heard>>

(* Seeded fault: the finally block does not remove the entry.              *)
FinishKeepsEntry(r) ==
  /\ \/ at[r] = "waiting" /\ pending[r] \in Outcomes /\ Return(r, pending[r])
     \/ at[r] = "expired" /\ Return(r, "timeout")
  /\ UNCHANGED <<linkVars, active, to, pending, commands, acks, device, told,
                 heard>>

(* Seeded fault: a request that ran out of time is never returned.         *)
FinishAnswered(r) ==
  /\ at[r] = "waiting" /\ pending[r] \in Outcomes /\ Return(r, pending[r])
  /\ pending' = [pending EXCEPT ![r] = "absent"]
  /\ UNCHANGED <<linkVars, active, to, commands, acks, device, told, heard>>

(* The wait ends: the entry is removed and the caller gets the response.   *)
Finish(r) ==
  /\ \/ at[r] = "waiting" /\ pending[r] \in Outcomes /\ Return(r, pending[r])
     \/ at[r] = "expired" /\ Return(r, "timeout")
  /\ pending' = [pending EXCEPT ![r] = "absent"]
  /\ UNCHANGED <<linkVars, active, to, commands, acks, device, told, heard>>

(* Seeded fault: a caller that leaves after the send counts as refused.    *)
CancelLate(r) == /\ at[r] \in {"idle", "found", "sent"}
                 /\ Return(r, "canceled")
                 /\ UNCHANGED <<linkVars, active, to, pending, commands, acks,
                                device, told, heard>>

(* The caller goes away during the query or the send: an exception.        *)
Cancel(r) == /\ at[r] \in {"idle", "found"}
             /\ Return(r, "canceled")
             /\ UNCHANGED <<linkVars, active, to, pending, commands, acks,
                            device, told, heard>>

-----------------------------------------------------------------------------
(* The device and its messages                                             *)

(* The device reads an ExecuteCommand from its connection.                 *)
Receive(m) == /\ m \in commands
              /\ m.conn = link
              /\ commands' = commands \ {m}
              /\ device' = [device EXCEPT ![m.req] = "running"]
              /\ UNCHANGED <<linkVars, active, at, to, pending, acks, reply,
                             told, heard>>

(* It answers once, on the connection it holds then, if it holds one.      *)
Answer(r) == /\ device[r] = "running"
             /\ \E o \in Outcomes :
                  /\ device' = [device EXCEPT ![r] = o]
                  /\ acks' = acks \cup
                       [req : {r}, conn : {link} \ {None}, outcome : {o}]
             /\ UNCHANGED <<linkVars, active, at, to, pending, commands, reply,
                            told, heard>>

(* Seeded fault: the answer goes to whoever waits, not to its own id.      *)
CompleteAll(m) == [r \in Reqs |-> IF pending[r] = "open"
                                  THEN m.outcome ELSE pending[r]]

(* CompleteAcknowledgement: dropped unless its own id is waiting; set once.*)
Complete(m) == [pending EXCEPT ![m.req] = IF @ = "open" THEN m.outcome ELSE @]

(* HardwareHub.AckCommand: complete the wait, then tell the operators.     *)
AckCommand(m) == /\ m \in acks
                 /\ conn[m.conn] = "open"
                 /\ acks' = acks \ {m}
                 /\ pending' = Complete(m)
                 /\ told' = [told EXCEPT ![m.req] = m.outcome]
                 /\ heard' = [heard EXCEPT ![m.req] = at[m.req]]
                 /\ UNCHANGED <<linkVars, active, at, to, commands, device,
                                reply>>

(* A connection event; what was on its way over a lost connection is lost. *)
Connection == /\ LinkNext
              /\ commands' = {m \in commands : m.conn = link'}
              /\ acks' = {m \in acks : conn'[m.conn] \in {"opening", "open"}}
              /\ UNCHANGED <<active, at, to, pending, device, reply, told, heard>>

(* RevokeAsync: the registration goes; the connection entry stays.         *)
Revoke == /\ active
          /\ active' = FALSE
          /\ UNCHANGED <<linkVars, at, to, pending, commands, acks, device,
                         reply, told, heard>>

Request(r) == \/ Resolve(r) \/ Lookup(r) \/ Send(r) \/ Await(r)
              \/ Expire(r) \/ Finish(r)

Next == \/ Connection
        \/ Revoke
        \/ \E r \in Reqs : Request(r) \/ Cancel(r) \/ Answer(r)
        \/ \E m \in commands : Receive(m)
        \/ \E m \in acks : AckCommand(m)

(* Only the API's own threads and timers are relied on: neither the device *)
(* nor the network need ever answer.                                       *)
Fairness == \A r \in Reqs : WF_vars(at[r] # "idle" /\ Request(r))

Spec == Init /\ [][Next]_vars /\ Fairness

-----------------------------------------------------------------------------
(* Every acknowledged response carries what the device answered to THIS    *)
(* command, and so does every broadcast to the operators: a caller and the *)
(* operators never read two different outcomes (dispatcher 186-197,        *)
(* HardwareHub.AckCommand).                                                *)
Truthful == \A r \in Reqs : /\ reply[r] \in Outcomes => reply[r] = device[r]
                            /\ told[r] # None => told[r] = device[r]

(* A response that says "not delivered" is final: the command is not on    *)
(* its way and the device never runs it later.                             *)
RefusedNeverRuns ==
  \A r \in Reqs : reply[r] \in Refusals =>
     device[r] = "unseen" /\ (\A m \in commands : m.req # r)

(* The table of pending acknowledgements holds exactly the waits under way:*)
(* a long-lived API process does not fill up with abandoned ids.           *)
PendingExact ==
  \A r \in Reqs : (pending[r] # "absent") <=> (at[r] \in {"waiting", "expired"})

(* An answer that came in while the request was waiting is what the caller *)
(* gets, however close to the deadline it came.                            *)
HeardIsReturned ==
  \A r \in Reqs : (heard[r] = "waiting" /\ reply[r] # None) => reply[r] = told[r]

(* Once a registration is revoked no request that begins afterwards        *)
(* reaches the device, though its connection is still listed.              *)
RevokedStaysOut ==
  [][\A r \in Reqs : (~active /\ at[r] = "idle") => at'[r] \in {"idle", "done"}]_vars

(* The registry's entry is right (Register, Unregister): none outlives its *)
(* connection's handler, and until two handlers meet none is missing.      *)
RegistryTrue == NoGhost /\ ListedUndisturbed

(* What callers and operators are told is what happened, no wait is left   *)
(* in the table, and the revoked device is not reached.                    *)
CallsSound ==
  /\ [](Truthful /\ RefusedNeverRuns /\ PendingExact /\ HeardIsReturned)
  /\ RevokedStaysOut

(* Every request the API has begun returns to its caller, whatever the     *)
(* device and the network do: the per-command deadline bounds the wait.    *)
Returns == \A r \in Reqs : (at[r] # "idle") ~> (reply[r] # None)

(* "acknowledged: Device sent AckCommand within the timeout"               *)
(* (Documents/06-SignalR-And-Hardware.md:178): an answer that reaches the  *)
(* hub after the command was sent and before the deadline is acknowledged. *)
AckWithinTimeout ==
  \A r \in Reqs : (heard[r] \in {"sent", "waiting"} /\ reply[r] # None)
                     => reply[r] \in Outcomes

(* The dispatcher implements the abstract at-most-once remote call.        *)
executed == [r \in Reqs |-> IF device[r] \in Outcomes THEN device[r] ELSE None]

Call == INSTANCE RemoteCall WITH result <- executed, Unknown <- "timeout"

ImplementsCall == Call!Spec
=============================================================================
