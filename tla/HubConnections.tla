--------------------------- MODULE HubConnections ---------------------------
(***************************************************************************)
(* The connections of one paired device to the hardware hub and the entry  *)
(* the API's connection registry keeps for it                              *)
(* (SomNet.API/Hubs/HardwareHub.cs, Services/DeviceConnectionRegistry.cs). *)
(* Every (re)connection has a fresh connection id.  The hub runs one       *)
(* handler per connection when it comes and one when it goes; handlers of  *)
(* different connections run on different threads.                         *)
(***************************************************************************)
EXTENDS Naturals

CONSTANTS MaxConns,   \* bound: how often the device connects
          None

ASSUME ConnAssumption == MaxConns \in Nat /\ None \notin Nat

Conns == 1..MaxConns  \* connection ids, numbered as the device opens them

VARIABLES link,    \* the connection the device holds open, or None
          conn,    \* how far the hub has got with each connection
          entry,   \* _pairedConnections[dom|sub|device]: a connection id or None
          crossed  \* history: two handlers have met (see Crosses)

linkVars == <<link, conn, entry, crossed>>

Stages == {"new", "opening", "open", "removing", "gone"}

LinkTypeOK == /\ link \in Conns \cup {None}
              /\ conn \in [Conns -> Stages]
              /\ entry \in Conns \cup {None}
              /\ crossed \in BOOLEAN

LinkInit == /\ link = None
            /\ conn = [c \in Conns |-> "new"]
            /\ entry = None
            /\ crossed = FALSE

(* The device opens a websocket with its token; it holds one at a time.    *)
Connect(c) == /\ link = None
              /\ conn[c] = "new"
              /\ \A d \in 1..(c - 1) : conn[d] # "new"
              /\ link' = c
              /\ conn' = [conn EXCEPT ![c] = "opening"]
              /\ UNCHANGED <<entry, crossed>>

(* The device loses or abandons its websocket; the hub does not know yet.  *)
DropLink == /\ link # None
            /\ link' = None
            /\ UNCHANGED <<conn, entry, crossed>>

(* The registration of c falls between the two steps of another            *)
(* connection's removal, or comes late, over that of the device's present  *)
(* connection.                                                             *)
Crosses(c) == \/ \E d \in Conns : conn[d] = "removing"
              \/ link \in Conns \ {c} /\ conn[link] = "open"

(* OnConnectedAsync of a device: RegisterPaired overwrites the entry.      *)
OnConnected(c) == /\ conn[c] = "opening"
                  /\ conn' = [conn EXCEPT ![c] = "open"]
                  /\ entry' = c
                  /\ crossed' = (crossed \/ Crosses(c))
                  /\ UNCHANGED link

(* Seeded fault: any entry of the device is taken for this connection's.   *)
ScanAnyOwner(c) == IF entry # None THEN "removing" ELSE "gone"

(* Seeded fault: nothing is found to remove.                               *)
ScanNothing(c) == "gone"

(* Unregister, first step: look for the entry holding this connection id.  *)
Scan(c) == IF entry = c THEN "removing" ELSE "gone"

(* OnDisconnectedAsync: the websocket closed, or the hub gave up on a      *)
(* silent connection the device still believes in.                         *)
OnDisconnected(c) == /\ conn[c] = "open"
                     /\ conn' = [conn EXCEPT ![c] = Scan(c)]
                     /\ UNCHANGED <<link, entry, crossed>>

(* Unregister, second step: TryRemove by KEY, whatever the entry holds now.*)
RemoveEntry(c) == /\ conn[c] = "removing"
                  /\ conn' = [conn EXCEPT ![c] = "gone"]
                  /\ entry' = None
                  /\ UNCHANGED <<link, crossed>>

LinkNext == \/ DropLink
            \/ \E c \in Conns : \/ Connect(c)
                                \/ OnConnected(c)
                                \/ OnDisconnected(c)
                                \/ RemoveEntry(c)

LinkSpec == LinkInit /\ [][LinkNext]_linkVars

-----------------------------------------------------------------------------
(* The registry never holds a connection whose disconnect handler has      *)
(* finished: a device that left is not reported connected for ever         *)
(* (HardwareHub.OnDisconnectedAsync, DeviceConnectionRegistry.Unregister). *)
NoGhost == entry # None => conn[entry] \in {"open", "removing"}

(* As long as no two handlers have met, a device with an open connection   *)
(* is found under exactly that connection: the late disconnect of an old   *)
(* connection does not unlist the new one (Unregister matches the id).     *)
ListedUndisturbed ==
  (~crossed /\ link # None /\ conn[link] = "open") => entry = link

(* The registry is what commands are dispatched by: "Verify device is      *)
(* online before dispatch" (Documents/06-SignalR-And-Hardware.md, section  *)
(* Connection Registry).  A device whose connection is open and whose old  *)
(* connections' handlers have all finished is found.                       *)
OnlineDeviceListed ==
  (/\ link # None
   /\ conn[link] = "open"
   /\ \A c \in Conns \ {link} : conn[c] \in {"new", "gone"}) => entry = link
=============================================================================
