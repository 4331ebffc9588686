---------------------------- MODULE LocalOperate ----------------------------
(***************************************************************************)
(* Who may energise the session accessory of the device: the operator's    *)
(* PIN session, the sub's button acknowledgement, the scene and the        *)
(* accessory output.                                                       *)
(*                                                                         *)
(* LocalOperate is called from two FreeRTOS tasks without a lock.  The     *)
(* HTTP task (async_tcp) runs the handlers of local_api.cpp; the loop task *)
(* runs the hub's commands, the button and the reactions to a lost link.   *)
(* So an operation is a sequence of steps, one for each shared field it    *)
(* reads or writes, and the steps of the tasks interleave.                 *)
(***************************************************************************)
EXTENDS Naturals

VARIABLES session,   \* sessionToken_ and its TTL: "none", "open", "expired"
          subReady,  \* subReady_: the sub pressed the button
          scene,     \* sceneActive_
          enabled,   \* SessionAccessoryController.enabled_
          pin,       \* the level of PIN_SESSION_ACCESSORY
          hub,       \* NvsStore.isHubRuntimeEnabled()
          task,      \* what each task is doing: operation, next step, argument
          alone,     \* history: the task's operation has met no other
          past       \* history: what has happened so far that may undo the rules

state == <<session, subReady, scene, enabled, pin>>
vars == <<session, subReady, scene, enabled, pin, hub, task, alone, past>>

Tasks == {"loop", "http"}
Ops == {"none", "unlock", "lock", "scene", "accessory", "release"}
Steps == {"rest", "token", "ready", "dark", "sceneTest", "sceneSet",
          "accessoryTest", "enableTest", "enable", "drive"}
Resting == [op |-> "none", at |-> "rest", on |-> FALSE]

Init ==
  /\ session = "none" /\ subReady = FALSE /\ scene = FALSE
  /\ enabled = FALSE /\ pin = FALSE
  /\ hub \in BOOLEAN
  /\ task = [t \in Tasks |-> Resting]
  /\ alone = [t \in Tasks |-> FALSE] /\ past = {}

-----------------------------------------------------------------------------
AtRest(t) == task[t] = Resting
Others(t) == Tasks \ {t}
OthersRest(t) == \A u \in Others(t) : AtRest(u)

(* Operations have overlapped; a session was opened with the accessory on. *)
Marks == {"overlap", "unlockedWhileOn"}
Happening(t, op) ==
  {m \in Marks : \/ m = "overlap" /\ ~OthersRest(t)
                 \/ m = "unlockedWhileOn" /\ op = "unlock" /\ enabled}

(* A task enters an operation. *)
Begin(t, op, at, on) ==
  /\ AtRest(t)
  /\ task' = [task EXCEPT ![t] = [op |-> op, at |-> at, on |-> on]]
  /\ alone' = [u \in Tasks |-> u = t /\ OthersRest(t)]
  /\ past' = past \cup Happening(t, op)
  /\ UNCHANGED <<session, subReady, scene, enabled, pin, hub>>

At(t, op, at) == task[t].op \in op /\ task[t].at = at
GoTo(t, at) == task' = [task EXCEPT ![t].at = at]
TurnOff(t) ==
  task' = [task EXCEPT ![t] = [op |-> task[t].op, at |-> "enableTest", on |-> FALSE]]
Return(t) == task' = [task EXCEPT ![t] = Resting]
Kept == UNCHANGED <<hub, alone, past>>

(* unlockWithPin with the right PIN; a wrong one changes nothing. *)
Unlock == Begin("http", "unlock", "token", FALSE)

(* The handlers below answer 401 without the bearer of the open session. *)
Unlocked == session = "open"
Lock == Unlocked /\ Begin("http", "lock", "token", FALSE)
Scene == \E on \in BOOLEAN : Unlocked /\ Begin("http", "scene", "sceneTest", on)
Accessory == \E on \in BOOLEAN :
  Unlocked /\ Begin("http", "accessory", "accessoryTest", on)
Disarm == Unlocked /\ Begin("http", "scene", "sceneTest", FALSE)

(* scene-session and session-accessory from the hub. *)
HubScene == \E on \in BOOLEAN : hub /\ Begin("loop", "scene", "sceneTest", on)
HubAccessory == \E on \in BOOLEAN :
  hub /\ Begin("loop", "accessory", "accessoryTest", on)

(* onWifiDisconnected: nothing to do when no session, readiness or scene. *)
WifiLost ==
  /\ subReady \/ scene \/ session # "none"
  /\ Begin("loop", "lock", "token", FALSE)

TransportLost == hub /\ Begin("loop", "release", "enableTest", FALSE)

(* The button: without the hub it counts only while a session is open. *)
Button ==
  /\ AtRest("loop")
  /\ hub \/ Unlocked
  /\ ~subReady
  /\ subReady' = TRUE
  /\ alone' = [u \in Tasks |-> FALSE]
  /\ past' = past \cup Happening("loop", "none")
  /\ UNCHANGED <<session, scene, enabled, pin, hub, task>>

-----------------------------------------------------------------------------
(* mintSession and clearSession write their fields one after the other. *)
WriteToken(t) ==
  /\ At(t, {"unlock", "lock"}, "token")
  /\ session' = IF task[t].op = "unlock" THEN "open" ELSE "none"
  /\ GoTo(t, "ready")
  /\ UNCHANGED <<subReady, scene, enabled, pin>> /\ Kept

ClearReady(t) ==
  /\ At(t, {"unlock", "lock"}, "ready")
  /\ subReady' = FALSE
  /\ GoTo(t, "dark")
  /\ UNCHANGED <<session, scene, enabled, pin>> /\ Kept

(* Seeded fault: locking leaves the accessory as it is. *)
ClearSceneOnly(t) ==
  /\ At(t, {"unlock", "lock"}, "dark")
  /\ scene' = FALSE
  /\ Return(t)
  /\ UNCHANGED <<session, subReady, enabled, pin>> /\ Kept

(* Locking goes on to switch the accessory off; minting a session does not. *)
ClearScene(t) ==
  /\ At(t, {"unlock", "lock"}, "dark")
  /\ scene' = FALSE
  /\ IF task[t].op = "lock" THEN TurnOff(t) ELSE Return(t)
  /\ UNCHANGED <<session, subReady, enabled, pin>> /\ Kept

(* Seeded fault: the scene starts without the sub's acknowledgement. *)
TestSceneOnly(t) ==
  /\ At(t, {"scene"}, "sceneTest")
  /\ IF scene = task[t].on THEN Return(t) ELSE GoTo(t, "sceneSet")
  /\ UNCHANGED state /\ Kept

(* setSceneActive *)
TestScene(t) ==
  /\ At(t, {"scene"}, "sceneTest")
  /\ IF (task[t].on /\ ~subReady) \/ scene = task[t].on
     THEN Return(t) ELSE GoTo(t, "sceneSet")
  /\ UNCHANGED state /\ Kept

(* Seeded fault: ending the scene leaves the accessory as it is. *)
SetSceneOnly(t) ==
  /\ At(t, {"scene"}, "sceneSet")
  /\ scene' = task[t].on
  /\ Return(t)
  /\ UNCHANGED <<session, subReady, enabled, pin>> /\ Kept

(* Seeded fault: the operation is not left when the scene is on. *)
SetSceneStays(t) ==
  /\ At(t, {"scene"}, "sceneSet")
  /\ scene' = task[t].on
  /\ IF task[t].on THEN task' = [task EXCEPT ![t].op = "none"] ELSE TurnOff(t)
  /\ UNCHANGED <<session, subReady, enabled, pin>> /\ Kept

SetScene(t) ==
  /\ At(t, {"scene"}, "sceneSet")
  /\ scene' = task[t].on
  /\ IF task[t].on THEN Return(t) ELSE TurnOff(t)
  /\ UNCHANGED <<session, subReady, enabled, pin>> /\ Kept

(* setAccessoryEngaged *)
TestAccessory(t) ==
  /\ At(t, {"accessory"}, "accessoryTest")
  /\ IF task[t].on /\ ~scene THEN Return(t) ELSE GoTo(t, "enableTest")
  /\ UNCHANGED state /\ Kept

(* SessionAccessoryController::setEnabled and releaseSafety *)
TestEnabled(t) ==
  /\ At(t, Ops, "enableTest")
  /\ IF enabled = task[t].on THEN Return(t) ELSE GoTo(t, "enable")
  /\ UNCHANGED state /\ Kept

SetEnabled(t) ==
  /\ At(t, Ops, "enable")
  /\ enabled' = task[t].on
  /\ GoTo(t, "drive")
  /\ UNCHANGED <<session, subReady, scene, pin>> /\ Kept

(* Seeded fault: the pin is driven the other way. *)
WritePinInverted(t) ==
  /\ At(t, Ops, "drive")
  /\ pin' = ~task[t].on
  /\ Return(t)
  /\ UNCHANGED <<session, subReady, scene, enabled>> /\ Kept

WritePin(t) ==
  /\ At(t, Ops, "drive")
  /\ pin' = task[t].on
  /\ Return(t)
  /\ UNCHANGED <<session, subReady, scene, enabled>> /\ Kept

-----------------------------------------------------------------------------
(* The TTL of the session runs out; nothing else changes with it. *)
Expire ==
  /\ session = "open" /\ session' = "expired"
  /\ UNCHANGED <<subReady, scene, enabled, pin, task>> /\ Kept

(* POST /api/hub-mode, which leaves the accessory alone. *)
SwitchHub ==
  /\ AtRest("http")
  /\ hub' = ~hub
  /\ UNCHANGED <<session, subReady, scene, enabled, pin, task, alone, past>>

HttpRequest == Unlock \/ Lock \/ Scene \/ Accessory \/ Disarm
LoopEvent == HubScene \/ HubAccessory \/ WifiLost \/ TransportLost \/ Button
Step(t) == \/ WriteToken(t) \/ ClearReady(t) \/ ClearScene(t)
           \/ TestScene(t) \/ SetScene(t) \/ TestAccessory(t)
           \/ TestEnabled(t) \/ SetEnabled(t) \/ WritePin(t)

Next == HttpRequest \/ LoopEvent \/ Expire \/ SwitchHub \/ \E t \in Tasks : Step(t)
Spec == Init /\ [][Next]_vars

-----------------------------------------------------------------------------
TaskType == [op : Ops, at : Steps, on : BOOLEAN]

Switches == {"enableTest", "enable", "drive"}
AtAStep(r) ==
  \/ r.op = "none" /\ r.at = "rest" /\ ~r.on
  \/ r.op \in {"unlock", "lock"} /\ r.at \in {"token", "ready", "dark"}
  \/ r.op = "scene" /\ r.at \in {"sceneTest", "sceneSet"}
  \/ r.op = "accessory" /\ r.at = "accessoryTest"
  \/ r.op \in {"lock", "scene", "accessory", "release"} /\ r.at \in Switches

(* Every field has its type, and a task is at a step of its operation. *)
TypeOK ==
  /\ session \in {"none", "open", "expired"}
  /\ subReady \in BOOLEAN /\ scene \in BOOLEAN /\ enabled \in BOOLEAN
  /\ pin \in BOOLEAN /\ hub \in BOOLEAN /\ past \subseteq Marks
  /\ task \in [Tasks -> TaskType] /\ alone \in [Tasks -> BOOLEAN]
  /\ \A t \in Tasks : AtAStep(task[t])

Quiet == \A t \in Tasks : AtRest(t)
Ends(t, op) == task[t].op \in op /\ task'[t] = Resting

Undisturbed == "overlap" \notin past

(* As long as no two operations have overlapped, a scene is only ever active
   on the strength of a button press that is still in force
   (LocalOperate::setSceneActive, mintSession, clearSession). *)
SceneNeedsReady == Undisturbed /\ Quiet /\ scene => subReady

(* As long as no two operations have overlapped, the output is at the level
   the software believes it to be (SessionAccessoryController). *)
PinFollowsFlag == Undisturbed /\ Quiet => pin = enabled

(* As long as moreover no session was opened while the accessory was on, the
   accessory is on only within a scene (setAccessoryEngaged, setSceneActive). *)
SceneCoversAccessory == past = {} /\ Quiet /\ enabled => scene

(* The rules of ready, scene, accessory and pin together. *)
SceneRules == SceneNeedsReady /\ PinFollowsFlag /\ SceneCoversAccessory

(* Locking, losing Wi-Fi and losing the hub switch the accessory off and, the
   first two, forget session, readiness and scene, from every state the device
   can get into, if nothing interferes meanwhile: what an earlier race left
   behind does not survive them (clearSession, releaseSafety). *)
SafeEndsSwitchOff == [][\A t \in Tasks :
  /\ Ends(t, {"lock", "release"}) /\ alone[t] => ~enabled'
  /\ Ends(t, {"lock"}) /\ alone[t] => session' # "open" /\ ~subReady' /\ ~scene']_vars

(* local_operate.h:37 says the accessory requires an active scene; Documents/34
   section 3.2: do not energize the accessory outside a scene. *)
AccessoryNeedsScene == Undisturbed /\ Quiet /\ enabled => scene

(* Documents/27 SE-D6: GPIO off on scene off, lock and Wi-Fi loss. *)
LockSwitchesPinOff == [][\A t \in Tasks :
  Ends(t, {"lock"}) /\ alone[t] => ~pin']_vars
=============================================================================
