---------------------------- MODULE OperatorPanel ----------------------------
(***************************************************************************)
(* The operator's panel of one device in one browser tab: the buttons of   *)
(* the manual and the automatic panel, relay or motor, the mode toggle and *)
(* the scene and accessory switches, each with the handler behind it.  A   *)
(* handler sends commands and goes on with the answer; meanwhile the       *)
(* operator uses other buttons, effects run, the device reports the end of *)
(* a session over the hub, the link breaks, and the page is loaded again.  *)
(*                                                                         *)
(* What a session's row says is modelled in SessionRows, how the device    *)
(* runs a session in AutomaticSession; here the row is its mode, and the   *)
(* request for it one step.                                                *)
(***************************************************************************)
EXTENDS Naturals, FiniteSets

CONSTANTS Slots,      \* places for handlers under way
          Panels,     \* panels looked at, of AllPanels
          MaxOps,     \* bound: clicks
          Faults      \* bound: answers lost, links broken, restarts, failed rows, reloads

AllPanels == {"relay", "relayLive", "motor"}

ASSUME OperatorPanelAssumption ==
  Panels \subseteq AllPanels /\ {MaxOps, Faults} \subseteq Nat

VARIABLES panel,    \* the device's kind; relayLive: with live overrides
          mode,     \* stored operation mode of the device
          scene,    \* session storage: scene wanted
          accessory,\* session storage: accessory engaged
          session,  \* mode of the session shown, "none" without one
          row,      \* mode of the server's row in progress
          hint,     \* session storage: the row's automatic session was started
          running,  \* automatic.running or motorAutomatic.running
          motorRun, \* motorRunning of the manual motor panel
          th,       \* handlers under way
          seen,     \* the last status poll found the device online
          resync,   \* DeviceSceneSessionResync: its effect, syncedRef, the push under way
          dev,      \* the device
          notice,   \* a completion is on its way to the tab
          missed,   \* history: a completion or the end of a session never got through
          ops, faults

panelVars == <<panel, mode, scene, accessory, session, row, hint, running, motorRun, th, seen,
          resync, dev, notice, missed, ops, faults>>

Modes == {"manual", "automatic"}
Kinds == {"free", "stroke", "burst", "motorRun", "motorStop", "start", "stop", "abort",
          "abortManual", "mode", "sceneOn", "sceneOff", "accessoryOn", "accessoryOff"}
HandlerSteps == {"free", "push", "cmd", "row", "wait", "end", "release", "accessory"}
HandlerReplies == {"none", "moving", "ok", "refused", "idle", "lost"}
Views == {"live", "pending", "over"}

(* was, ran, want: automaticSessionActive, running and the mode, as the click *)
(* saw them; view: the panel's refs, which stay as they are when it is gone.  *)
Free == [op |-> "free", step |-> "free", reply |-> "none", was |-> FALSE, ran |-> FALSE,
         want |-> "none", view |-> "live"]

Away == [online |-> FALSE, ready |-> FALSE, scene |-> FALSE, accessory |-> FALSE,
         auto |-> "idle", motion |-> "none"]

-----------------------------------------------------------------------------
(* What the panel shows. *)

(* Seeded fault: the lock is taken when the command itself goes out. *)
PendingOnceSent(kinds) == \E t \in Slots : th[t].op \in kinds /\ th[t].step # "push"

Pending(kinds) == \E t \in Slots : th[t].op \in kinds

Aborts == {"abort", "abortManual"}

SceneActive == scene \/ session # "none"

AutomaticActive == session = "automatic"

Ready == seen /\ SceneActive

Cooperative == \E t \in Slots : th[t].op = "stop" /\ th[t].step = "wait" /\ th[t].view = "live"
                                /\ (running \/ AutomaticActive)

CanAbort == running \/ AutomaticActive \/ Pending({"start"}) \/ Cooperative

(* Enabled buttons of the four panels; a key that is pending is disabled.   *)
StrokeEnabled == Ready /\ ~Pending({"stroke", "burst"})

MotorStartEnabled == Ready /\ ~motorRun /\ ~Pending({"motorRun", "motorStop"})

MotorStopEnabled == Ready /\ motorRun /\ ~Pending({"motorRun", "motorStop"})

ManualAbortEnabled ==
  /\ Pending({"stroke", "burst", "motorRun"}) \/ motorRun
  /\ ~Pending(Aborts)

StartEnabled == Ready /\ ~running /\ ~Pending({"start", "stop"})

StopEnabled == Ready /\ running /\ ~Pending({"start", "stop"} \cup Aborts) /\ ~Cooperative

AbortEnabled == Ready /\ CanAbort /\ ~Pending({"start"} \cup Aborts)

SceneSwitchEnabled ==
  /\ ~Pending({"sceneOn", "sceneOff"})
  /\ ~running /\ (SceneActive \/ seen)

AccessorySwitchEnabled ==
  /\ ~Pending({"accessoryOn", "accessoryOff"})
  /\ IF accessory THEN ~running ELSE Ready

(* configLocked of the click's closure: update('running', ...) does nothing. *)
Locked(t) == panel = "relay" /\ th[t].ran

(* isAutomaticSessionPendingFinalize, by the refs of the panel.             *)
StillPending(t) == CASE th[t].view = "live" -> running \/ AutomaticActive
                     [] OTHER -> th[t].view = "pending"

-----------------------------------------------------------------------------
(* Clicks.  A handler that returns at once is left out. *)

Begin(t, op, step) ==
  /\ th[t] = Free /\ ops < MaxOps /\ ops' = ops + 1
  /\ th' = [th EXCEPT ![t] = [Free EXCEPT !.op = op, !.step = step, !.was = AutomaticActive,
                                          !.ran = running, !.want = mode]]

(* pushDeviceSceneSessionIfWanted before a motion. *)
PushFirst == IF scene THEN "push" ELSE "cmd"

Stroke(t) ==
  /\ panel # "motor" /\ mode = "manual" /\ StrokeEnabled /\ session = "manual"
  /\ \E op \in {"stroke", "burst"} : Begin(t, op, PushFirst)
  /\ UNCHANGED scene

MotorStart(t) ==
  /\ panel = "motor" /\ mode = "manual" /\ MotorStartEnabled
  /\ Begin(t, "motorRun", PushFirst)
  /\ UNCHANGED scene

MotorStop(t) ==
  /\ panel = "motor" /\ mode = "manual" /\ MotorStopEnabled /\ session = "manual"
  /\ Begin(t, "motorStop", "cmd")
  /\ UNCHANGED scene

ManualAbort(t) ==
  /\ mode = "manual" /\ ManualAbortEnabled
  /\ Begin(t, "abortManual", "cmd")
  /\ UNCHANGED scene

Start(t) ==
  /\ mode = "automatic" /\ StartEnabled
  /\ Begin(t, "start", PushFirst)
  /\ UNCHANGED scene

Stop(t) ==
  /\ mode = "automatic" /\ StopEnabled
  /\ Begin(t, "stop", "cmd")
  /\ UNCHANGED scene

Abort(t) ==
  /\ mode = "automatic" /\ AbortEnabled
  /\ Begin(t, "abort", "cmd")
  /\ UNCHANGED scene

(* Only a switch from automatic with something active is more than applyMode; *)
(* the toggle stays enabled meanwhile.                                        *)
SwitchToManual(t) ==
  /\ mode = "automatic" /\ (running \/ AutomaticActive)
  /\ Begin(t, "mode", "cmd")
  /\ UNCHANGED scene

(* The flag is set first; startSessionForDevice and the command follow.     *)
SceneOn(t) ==
  /\ SceneSwitchEnabled /\ ~SceneActive /\ mode # "none"
  /\ Begin(t, "sceneOn", "row")
  /\ scene' = TRUE

SceneOff(t) ==
  /\ SceneSwitchEnabled /\ SceneActive
  /\ Begin(t, "sceneOff", "push")
  /\ UNCHANGED scene

Accessory(t) ==
  /\ AccessorySwitchEnabled
  /\ Begin(t, IF accessory THEN "accessoryOff" ELSE "accessoryOn", "cmd")
  /\ UNCHANGED scene

Click(t) ==
  /\ \/ Stroke(t) \/ MotorStart(t) \/ MotorStop(t) \/ ManualAbort(t)
     \/ Start(t) \/ Stop(t) \/ Abort(t)
     \/ SwitchToManual(t) \/ SceneOn(t) \/ SceneOff(t) \/ Accessory(t)
  /\ UNCHANGED <<panel, mode, accessory, session, row, hint, running, motorRun, seen,
                 resync, dev, notice, missed, faults>>

(* setDeviceOperationMode: the panel of the other mode is drawn; what the   *)
(* old one kept for itself is lost, its handlers go on.                     *)
ApplyMode(handlers, next) ==
  /\ mode' = next
  /\ motorRun' = (motorRun /\ mode = next)
  /\ th' = [t \in Slots |->
      IF mode = next \/ handlers[t].view # "live" \/ handlers[t].op = "free" THEN handlers[t]
      ELSE [handlers[t] EXCEPT !.view = IF running \/ AutomaticActive THEN "pending" ELSE "over"]]

SwitchMode(next) ==
  /\ mode # next /\ (mode = "automatic" => ~running /\ ~AutomaticActive)
  /\ ops < MaxOps /\ ops' = ops + 1
  /\ ApplyMode(th, next)
  /\ UNCHANGED <<panel, scene, accessory, session, row, hint, running, seen, resync, dev,
                 notice, missed, faults>>

-----------------------------------------------------------------------------
(* The device and the way to it. *)

Fault == faults < Faults /\ faults' = faults + 1

Reply(t, r) == th' = [th EXCEPT ![t].reply = r]

Idle == dev.auto = "idle" /\ dev.motion = "none"

(* The command of a handler's step. *)
Sends(t) ==
  LET h == th[t] IN
  CASE h.step = "push" -> IF h.op = "sceneOff" THEN "sceneOff" ELSE "sceneOn"
    [] h.step = "accessory" -> "accessoryOff"
    [] h.step = "cmd" /\ h.op \in {"mode", "sceneOff"} -> "stop"
    [] h.step = "cmd" /\ h.op \in Aborts -> "abort"
    [] OTHER -> h.op

(* handleExecuteCommand: the device after the command, and its answer.      *)
Motions == {"stroke", "burst", "motorRun", "start"}

Executed(c) ==
  IF c \in Motions /\ ~(dev.scene /\ Idle) THEN <<dev, "refused">> ELSE
  CASE c \in {"stroke", "burst"} -> <<[dev EXCEPT !.motion = "relay"], "moving">>
    [] c = "motorRun" -> <<[dev EXCEPT !.motion = "motor"], "ok">>
    [] c = "start" -> <<[dev EXCEPT !.auto = "running"], "ok">>
    [] c = "motorStop" -> <<[dev EXCEPT !.motion = "none"], "ok">>
    [] c = "stop" -> IF dev.auto = "idle" THEN <<dev, "idle">>
                                          ELSE <<[dev EXCEPT !.auto = "stopping"], "ok">>
    [] c = "abort" -> IF Idle THEN <<dev, "idle">>
                      ELSE <<[dev EXCEPT !.auto = "idle", !.motion = "none"], "ok">>
    [] c = "sceneOn" -> IF dev.ready THEN <<[dev EXCEPT !.scene = TRUE], "ok">>
                                     ELSE <<dev, "refused">>
    [] c = "sceneOff" -> <<[dev EXCEPT !.scene = FALSE, !.accessory = FALSE], "ok">>
    [] c = "accessoryOn" -> IF dev.scene THEN <<[dev EXCEPT !.accessory = TRUE], "ok">>
                                         ELSE <<dev, "refused">>
    [] OTHER -> <<[dev EXCEPT !.accessory = FALSE], "ok">>

(* An automatic session has ended: its completion goes to the tab, unless   *)
(* the device is not connected.                                             *)
Ended(before, after) ==
  IF before.auto # "idle" /\ after.auto = "idle"
  THEN /\ ~notice
       /\ notice' = before.online
       /\ missed' = (missed \/ ~before.online)
  ELSE UNCHANGED <<notice, missed>>

(* A motion that is cut short is answered as interrupted.                   *)
Interrupted(h, after) ==
  IF h.reply = "moving" /\ after.motion = "none" THEN [h EXCEPT !.reply = "refused"] ELSE h

Sent(t) == th[t].step \in {"push", "cmd", "accessory"} /\ th[t].reply = "none"

Handle(t) ==
  LET e == Executed(Sends(t)) IN
  /\ Sent(t) /\ dev.online
  /\ dev' = e[1]
  /\ Ended(dev, dev')
  /\ \E lost \in BOOLEAN :
       /\ IF lost THEN Fault ELSE UNCHANGED faults
       /\ th' = [u \in Slots |-> IF u = t THEN [th[t] EXCEPT !.reply = IF lost THEN "lost" ELSE e[2]]
                                          ELSE Interrupted(th[u], dev')]
  /\ UNCHANGED <<panel, mode, scene, accessory, session, row, hint, running, motorRun, seen,
                 resync, ops>>

(* Not delivered, or nothing acknowledged in time. *)
GiveUp(t) ==
  /\ Sent(t) /\ ~dev.online
  /\ Reply(t, "lost")
  /\ UNCHANGED <<panel, mode, scene, accessory, session, row, hint, running, motorRun, seen,
                 resync, dev, notice, missed, ops, faults>>

MotionDone ==
  /\ dev.motion = "relay"
  /\ dev' = [dev EXCEPT !.motion = "none"]
  /\ th' = [t \in Slots |-> IF th[t].reply = "moving" THEN [th[t] EXCEPT !.reply = "ok"] ELSE th[t]]
  /\ UNCHANGED <<panel, mode, scene, accessory, session, row, hint, running, motorRun, seen,
                 resync, notice, missed, ops, faults>>

(* A session ends by its own rule, or because it was asked to stop.         *)
AutomaticDone ==
  /\ dev.auto # "idle"
  /\ dev' = [dev EXCEPT !.auto = "idle"]
  /\ Ended(dev, dev')
  /\ UNCHANGED <<panel, mode, scene, accessory, session, row, hint, running, motorRun, th, seen,
                 resync, ops, faults>>

(* The Sub presses the button; with the scene wanted the tab takes no notice. *)
Press ==
  /\ dev.online /\ ~dev.ready
  /\ dev' = [dev EXCEPT !.ready = TRUE]
  /\ UNCHANGED <<panel, mode, scene, accessory, session, row, hint, running, motorRun, th, seen,
                 resync, notice, missed, ops, faults>>

(* The hub's connection breaks; or Wi-Fi is lost, which clears the device's *)
(* scene; or the device restarts, which ends everything.                    *)
Break ==
  /\ dev.online /\ Fault
  /\ dev' \in {[dev EXCEPT !.online = FALSE],
               [Away EXCEPT !.auto = dev.auto, !.motion = dev.motion], Away}
  /\ missed' = (missed \/ notice \/ dev.auto # dev'.auto)
  /\ notice' = FALSE
  /\ th' = [t \in Slots |-> IF th[t].reply = "moving" THEN [th[t] EXCEPT !.reply = "lost"] ELSE th[t]]
  /\ UNCHANGED <<panel, mode, scene, accessory, session, row, hint, running, motorRun, seen,
                 resync, ops>>

(* The device may be back before a poll has missed it. *)
Reconnect ==
  /\ ~dev.online
  /\ dev' = [dev EXCEPT !.online = TRUE]
  /\ UNCHANGED <<panel, mode, scene, accessory, session, row, hint, running, motorRun, th, seen,
                 resync, notice, missed, ops, faults>>

(* The effect of the poll before has run: polls are seconds apart.          *)
Poll ==
  /\ seen # dev.online /\ resync.on = (scene /\ seen)
  /\ seen' = dev.online
  /\ UNCHANGED <<panel, mode, scene, accessory, session, row, hint, running, motorRun, th,
                 resync, dev, notice, missed, ops, faults>>

-----------------------------------------------------------------------------
(* The handlers go on. *)

Returned(t, ops_, steps) ==
  th[t].op \in ops_ /\ th[t].step \in steps /\ th[t].reply \notin {"none", "moving"}

Done(t) == th' = [th EXCEPT ![t] = Free]

Go(t, step) == th' = [th EXCEPT ![t].step = step, ![t].reply = "none"]

(* setRunning(false) takes the hint away too. *)
ClearRunning == running' = FALSE /\ hint' = FALSE

ClearRunningOf(t) == IF Locked(t) THEN UNCHANGED <<running, hint>> ELSE ClearRunning

(* A request about the row: done, or failed with everything as it was.      *)
RowBecomes(m) ==
  \/ session' = m /\ row' = m /\ UNCHANGED faults
  \/ Fault /\ UNCHANGED <<session, row>>

EndAutomatic == IF AutomaticActive THEN RowBecomes("none") ELSE UNCHANGED <<session, row, faults>>

PushReturns(t) ==
  /\ Returned(t, Kinds \ {"sceneOff"}, {"push"})
  /\ IF th[t].reply = "ok" THEN Go(t, "cmd") ELSE Done(t)
  /\ UNCHANGED <<panel, mode, scene, accessory, session, row, hint, running, motorRun, seen,
                 resync, dev, notice, missed, ops, faults>>

ManualReturns(t) ==
  LET h == th[t] IN
  /\ Returned(t, {"stroke", "burst", "motorRun", "motorStop", "abortManual", "sceneOn"}, {"cmd"})
  /\ motorRun' = IF h.reply = "ok" /\ h.view = "live" /\ h.op \in {"motorRun", "motorStop", "abortManual"}
                 THEN h.op = "motorRun" ELSE motorRun
  /\ Done(t)
  /\ UNCHANGED <<panel, mode, scene, accessory, session, row, hint, running, seen,
                 resync, dev, notice, missed, ops, faults>>

AccessoryReturns(t) ==
  LET h == th[t] IN
  /\ Returned(t, {"accessoryOn", "accessoryOff"}, {"cmd"})
  /\ accessory' = IF h.reply = "ok" THEN h.op = "accessoryOn" ELSE accessory
  /\ Done(t)
  /\ UNCHANGED <<panel, mode, scene, session, row, hint, running, motorRun, seen,
                 resync, dev, notice, missed, ops, faults>>

StartReturns(t) ==
  /\ Returned(t, {"start"}, {"cmd"})
  /\ IF th[t].reply = "ok" THEN Go(t, "row") ELSE Done(t)
  /\ UNCHANGED <<panel, mode, scene, accessory, session, row, hint, running, motorRun, seen,
                 resync, dev, notice, missed, ops, faults>>

(* ensureAutomaticSessionForDeviceStart, then the panel shows it running.   *)
(* The hint wants the row's id, which the panel may not have been drawn     *)
(* with yet.                                                                *)
EnsureSession(t) ==
  /\ th[t].op = "start" /\ th[t].step = "row"
  /\ \/ /\ IF AutomaticActive THEN UNCHANGED <<session, row>>
                            ELSE session' = "automatic" /\ row' = "automatic"
        /\ running' = TRUE
        /\ hint' \in IF session = "none" \/ th[t].view # "live" THEN BOOLEAN ELSE {TRUE}
        /\ UNCHANGED faults
     \/ Fault /\ ~AutomaticActive /\ UNCHANGED <<session, row, running, hint>>
  /\ Done(t)
  /\ UNCHANGED <<panel, mode, scene, accessory, motorRun, seen, resync, dev, notice, missed, ops>>

(* startSessionForDevice of the scene switch. *)
StartSession(t) ==
  LET h == th[t] IN
  /\ h.op = "sceneOn" /\ h.step = "row"
  /\ IF session = h.want THEN UNCHANGED <<session, row, faults>> ELSE RowBecomes(h.want)
  /\ IF session' = h.want THEN Go(t, "cmd") ELSE Done(t)
  /\ UNCHANGED <<panel, mode, scene, accessory, hint, running, motorRun, seen, resync, dev,
                 notice, missed, ops>>

(* Stop and abort of the automatic panel: wait for the completion, or the   *)
(* device has nothing to stop, and the session shown is a stale one.        *)
StopReturns(t) ==
  LET h == th[t] IN
  /\ Returned(t, {"stop", "abort"}, {"cmd"})
  /\ \/ /\ h.reply = "ok" /\ (h.was \/ h.ran)
        /\ Go(t, "wait") /\ UNCHANGED <<running, hint>>
     \/ /\ h.reply = "idle" /\ h.was
        /\ ClearRunningOf(t) /\ Go(t, "end")
     \/ /\ ~(h.reply = "ok" /\ (h.was \/ h.ran)) /\ ~(h.reply = "idle" /\ h.was)
        /\ Done(t) /\ UNCHANGED <<running, hint>>
  /\ UNCHANGED <<panel, mode, scene, accessory, session, row, motorRun, seen, resync, dev, notice,
                 missed, ops, faults>>

WaitOver(t) ==
  /\ th[t].op \in {"stop", "abort"} /\ th[t].step = "wait" /\ ~StillPending(t)
  /\ Done(t)
  /\ UNCHANGED <<panel, mode, scene, accessory, session, row, hint, running, motorRun, seen, resync,
                 dev, notice, missed, ops, faults>>

(* Seeded fault: the wait has no deadline of its own. *)
DeadlineOnceIdle(t) ==
  LET h == th[t] IN
  /\ h.step = "wait" /\ (h.op \in {"stop", "abort"} => StillPending(t))
  /\ ~running
  /\ ClearRunning /\ Go(t, "end")
  /\ UNCHANGED <<panel, mode, scene, accessory, session, row, motorRun, seen, resync, dev, notice,
                 missed, ops, faults>>

(* The grace is over: the tab ends the session itself.                      *)
Deadline(t) ==
  LET h == th[t] IN
  /\ h.step = "wait" /\ (h.op \in {"stop", "abort"} => StillPending(t))
  /\ IF h.op \in {"stop", "abort"} THEN ClearRunningOf(t) ELSE ClearRunning
  /\ Go(t, "end")
  /\ UNCHANGED <<panel, mode, scene, accessory, session, row, motorRun, seen, resync, dev, notice,
                 missed, ops, faults>>

(* stopAutomaticForModeSwitch: what counts as active is what the click saw, *)
(* so that a stop that is accepted is waited for to the end of the grace.   *)
SwitchStopReturns(t) ==
  /\ Returned(t, {"mode", "sceneOff"}, {"cmd"})
  /\ ClearRunning
  /\ Go(t, IF th[t].reply = "ok" THEN "wait" ELSE "end")
  /\ UNCHANGED <<panel, mode, scene, accessory, session, row, motorRun, seen, resync, dev, notice,
                 missed, ops, faults>>

(* endAutomaticSession: whichever session is shown by now.                  *)
End(t) ==
  /\ th[t].step = "end"
  /\ EndAutomatic
  /\ \/ th[t].op \in {"stop", "abort"} /\ Done(t) /\ UNCHANGED <<mode, motorRun>>
     \/ th[t].op = "mode" /\ ApplyMode([th EXCEPT ![t] = Free], "manual")
     \/ th[t].op = "sceneOff" /\ Go(t, "release") /\ UNCHANGED <<mode, motorRun>>
  /\ UNCHANGED <<panel, scene, accessory, hint, running, seen, resync, dev, notice, missed, ops>>

SceneOffReturns(t) ==
  /\ Returned(t, {"sceneOff"}, {"push"})
  /\ Go(t, IF th[t].was \/ th[t].ran THEN "cmd" ELSE "release")
  /\ UNCHANGED <<panel, mode, scene, accessory, session, row, hint, running, motorRun, seen, resync,
                 dev, notice, missed, ops, faults>>

(* endSessionForAccessoryForDevice, then the accessory and the flags.       *)
Release(t) ==
  /\ th[t].step = "release"
  /\ IF session = "none" THEN UNCHANGED <<session, row, faults>> ELSE RowBecomes("none")
  /\ IF accessory THEN Go(t, "accessory") /\ UNCHANGED scene ELSE Done(t) /\ scene' = FALSE
  /\ UNCHANGED <<panel, mode, accessory, hint, running, motorRun, seen, resync, dev, notice,
                 missed, ops>>

AccessoryOffReturns(t) ==
  /\ Returned(t, {"sceneOff"}, {"accessory"})
  /\ accessory' = FALSE /\ scene' = FALSE
  /\ Done(t)
  /\ UNCHANGED <<panel, mode, session, row, hint, running, motorRun, seen, resync, dev, notice,
                 missed, ops, faults>>

Continue(t) ==
  \/ PushReturns(t) \/ ManualReturns(t) \/ AccessoryReturns(t)
  \/ StartReturns(t) \/ EnsureSession(t) \/ StartSession(t)
  \/ StopReturns(t) \/ WaitOver(t) \/ Deadline(t) \/ SwitchStopReturns(t) \/ End(t)
  \/ SceneOffReturns(t) \/ Release(t) \/ AccessoryOffReturns(t)

-----------------------------------------------------------------------------
(* What runs by itself. *)

(* A start or a reloaded page is about to show the session that has ended.  *)
Showing == \/ \E t \in Slots : th[t].op = "start" /\ (th[t].step = "row" \/ th[t].reply = "ok")
           \/ session = "none" /\ hint

(* Seeded fault: the flag is cleared when the row's session has been ended. *)
HubCompleteEndsFirst ==
  /\ notice /\ notice' = FALSE
  /\ missed' = (missed \/ Showing)
  /\ IF running \/ AutomaticActive
     THEN EndAutomatic /\ IF session' = "automatic" THEN UNCHANGED <<running, hint>> ELSE ClearRunning
     ELSE UNCHANGED <<running, hint, session, row, faults>>
  /\ UNCHANGED <<panel, mode, scene, accessory, motorRun, th, seen, resync, dev, ops>>

(* applyAutomaticDeviceComplete: ignored by a tab that shows nothing        *)
(* running.                                                                 *)
HubComplete ==
  /\ notice /\ notice' = FALSE
  /\ missed' = (missed \/ Showing)
  /\ IF running \/ AutomaticActive THEN ClearRunning /\ EndAutomatic
     ELSE UNCHANGED <<running, hint, session, row, faults>>
  /\ UNCHANGED <<panel, mode, scene, accessory, motorRun, th, seen, resync, dev, ops>>

(* The automatic panel's effect: no session of this mode, nothing runs.     *)
ClearStaleRunning ==
  /\ mode = "automatic" /\ running /\ ~AutomaticActive /\ ~Pending({"start"})
  /\ ClearRunning
  /\ UNCHANGED <<panel, mode, scene, accessory, session, row, motorRun, th, seen, resync, dev,
                 notice, missed, ops, faults>>

(* The scene switch's effect: the session takes the device's mode.          *)
SyncMode ==
  /\ SceneActive /\ mode # "none" /\ session \notin {"none", mode}
  /\ session' = mode /\ row' = mode
  /\ UNCHANGED <<panel, mode, scene, accessory, hint, running, motorRun, th, seen, resync, dev,
                 notice, missed, ops, faults>>

Reload ==
  /\ Fault
  /\ session' = "none" /\ running' = FALSE /\ motorRun' = FALSE /\ seen' = FALSE
  /\ th' = [t \in Slots |-> Free]
  /\ resync' = [on |-> FALSE, synced |-> FALSE, push |-> "idle"]
  /\ missed' = (missed \/ notice) /\ notice' = FALSE
  /\ UNCHANGED <<panel, mode, scene, accessory, row, hint, dev, ops>>

(* reconcileActiveSessionForMode; the device is not asked. *)
Rehydrate ==
  /\ scene /\ session = "none" /\ row # "none" /\ row = mode
  /\ session' = row
  /\ running' = (running \/ (row = "automatic" /\ hint))
  /\ UNCHANGED <<panel, mode, scene, accessory, row, hint, motorRun, th, seen, resync, dev,
                 notice, missed, ops, faults>>

(* DeviceSceneSessionResync: on while the scene is wanted and the device is *)
(* seen, the flag is pushed until one push succeeds.                        *)
Wanted == scene /\ seen

ResyncEffect ==
  /\ resync.on # Wanted /\ resync.push = "idle"
  /\ resync' = [on |-> Wanted, synced |-> FALSE, push |-> IF Wanted THEN "sent" ELSE "idle"]
  /\ UNCHANGED <<panel, mode, scene, accessory, session, row, hint, running, motorRun, th, seen, dev,
                 notice, missed, ops, faults>>

Attempt ==
  /\ resync.on /\ ~resync.synced /\ resync.push = "idle" /\ scene
  /\ resync' = [resync EXCEPT !.push = "sent"]
  /\ UNCHANGED <<panel, mode, scene, accessory, session, row, hint, running, motorRun, th, seen, dev,
                 notice, missed, ops, faults>>

(* Seeded fault: one push is taken to be enough. *)
PushSettlesOnce(done) == resync' = [resync EXCEPT !.push = "idle", !.synced = TRUE]

PushSettles(done) == resync' = [resync EXCEPT !.push = "idle", !.synced = done]

HandlePush ==
  LET e == Executed("sceneOn") IN
  /\ resync.push = "sent"
  /\ \/ ~dev.online /\ PushSettles(FALSE) /\ UNCHANGED <<dev, faults>>
     \/ dev.online /\ dev' = e[1] /\ PushSettles(e[2] = "ok") /\ UNCHANGED faults
     \/ dev.online /\ dev' = e[1] /\ PushSettles(FALSE) /\ Fault
  /\ UNCHANGED <<panel, mode, scene, accessory, session, row, hint, running, motorRun, th, seen,
                 notice, missed, ops>>

-----------------------------------------------------------------------------
(* Nothing is on; or the scene has been switched on in the mode chosen.     *)
PanelInit ==
  /\ panel \in Panels
  /\ \/ mode = "none" /\ session = "none" /\ scene = FALSE
     \/ mode \in Modes /\ session = mode /\ scene = TRUE
  /\ row = session /\ accessory = FALSE /\ hint = FALSE /\ running = FALSE /\ motorRun = FALSE
  /\ th = [t \in Slots |-> Free] /\ seen = TRUE
  /\ resync = [on |-> scene, synced |-> scene, push |-> "idle"]
  /\ dev = [Away EXCEPT !.online = TRUE, !.ready = TRUE, !.scene = scene]
  /\ notice = FALSE /\ missed = FALSE /\ ops = 0 /\ faults = 0

Operator == \/ \E t \in Slots : Click(t)
            \/ \E next \in Modes : SwitchMode(next)

Tab == \/ \E t \in Slots : Continue(t)
       \/ ClearStaleRunning \/ SyncMode \/ Poll \/ Rehydrate
       \/ ResyncEffect \/ Attempt

Device == \/ \E t \in Slots : Handle(t) \/ GiveUp(t)
          \/ MotionDone \/ AutomaticDone \/ HubComplete \/ HandlePush
          \/ Press \/ Break \/ Reconnect

PanelNext == Operator \/ Tab \/ Device \/ Reload

(* Handlers go on, commands are answered or given up, motions and sessions  *)
(* that are to stop come to their end, effects and timers run.  Nothing is  *)
(* assumed of the operator, the Sub, the link, or a session that was not    *)
(* asked to stop.                                                           *)
PanelFairness ==
  /\ \A t \in Slots : /\ WF_panelVars(Continue(t))
                      /\ WF_panelVars(Handle(t) \/ GiveUp(t))
  /\ WF_panelVars(MotionDone) /\ WF_panelVars(dev.auto = "stopping" /\ AutomaticDone)
  /\ WF_panelVars(HubComplete) /\ WF_panelVars(ClearStaleRunning)
  /\ WF_panelVars(SyncMode) /\ WF_panelVars(Poll)
  /\ WF_panelVars(ResyncEffect) /\ WF_panelVars(Attempt) /\ WF_panelVars(HandlePush)

PanelSpec == PanelInit /\ [][PanelNext]_panelVars /\ PanelFairness

-----------------------------------------------------------------------------
(* The handlers, the flags and the device stay in their types.              *)
PanelTypeOK ==
  /\ panel \in AllPanels /\ {session, row, mode} \subseteq Modes \cup {"none"}
  /\ {scene, accessory, hint, running, motorRun, seen, notice, missed} \subseteq BOOLEAN
  /\ th \in [Slots -> [op : Kinds, step : HandlerSteps, reply : HandlerReplies, was : BOOLEAN, ran : BOOLEAN,
                       want : Modes \cup {"none"}, view : Views]]
  /\ \A t \in Slots : th[t].op = "free" <=> th[t] = Free
  /\ \A t, u \in Slots : t # u /\ th[t].op = th[u].op => th[t].op \in {"free", "mode"}
  /\ resync \in [on : BOOLEAN, synced : BOOLEAN, push : {"idle", "sent"}]
  /\ dev \in [online : BOOLEAN, ready : BOOLEAN, scene : BOOLEAN, accessory : BOOLEAN,
              auto : {"idle", "running", "stopping"}, motion : {"none", "relay", "motor"}]
  /\ (dev.auto # "idle" => dev.motion = "none") /\ (dev.scene => dev.ready)
  /\ ops \in 0..MaxOps /\ faults \in 0..Faults

(* Every handler comes to its end and gives its button back, whatever is    *)
(* lost: no command waits for ever (executeCommand's finally, the deadline  *)
(* of waitForAutomaticHubFinalize, the API's time-out).                     *)
HandlersEnd == \A t \in Slots : []<>(th[t] = Free)

(* Once DeviceSceneSessionResync has begun to push a scene that is wanted,  *)
(* it goes on until a device that in the end stays connected and ready has  *)
(* the scene, however long that takes and whatever is refused meanwhile.    *)
Resyncs ==
  <>[](dev.online /\ dev.ready)
    => ((resync.on /\ ~resync.synced /\ scene) ~> (dev.scene \/ ~scene \/ ~seen))

(* `Keep device scene aligned with UI storage across reconnect, hub toggle, *)
(* and reboot': a scene that is wanted reaches a device that is connected   *)
(* and ready.                                                               *)
SceneReaches ==
  (scene /\ dev.online /\ dev.ready) ~> (dev.scene \/ ~scene \/ ~dev.online \/ ~dev.ready)

(* A panel that shows an automatic session running, while the device runs   *)
(* none, gets to know: by the completion, by the wait for it, or by the     *)
(* effect, unless the completion was lost, or came before what it is about. *)
RunningHeals == <>[](running => dev.auto # "idle" \/ missed)

(* `Available while a session is starting or running': while one runs on    *)
(* the device and no handler is under way, the automatic panel of a tab     *)
(* that shows the row in progress, if there is one, lets the operator abort. *)
AbortAvailable ==
  /\ mode = "automatic" /\ Ready /\ dev.auto = "running"
  /\ row = session /\ session \in {"none", mode}
  /\ \A t \in Slots : th[t] = Free
  => AbortEnabled
=============================================================================
