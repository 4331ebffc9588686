----------------------------- MODULE DeviceCore -----------------------------
(***************************************************************************)
(* The way of a command into the device: the hub's commands arrive in the  *)
(* loop task, the operator page's in the HTTP task; both go through the    *)
(* one pending slot of the command handler, and the loop task executes     *)
(* what the slot holds.  Nothing locks the slot and its flag.              *)
(*                                                                         *)
(* Motions are seen as MotionService promises them (one at a time, ended   *)
(* by completion or abort); the scene is what LocalOperate makes of it.    *)
(* A command is read from the slot in one step: a handler that sees half   *)
(* of one command and half of the next is not modelled.                    *)
(***************************************************************************)
EXTENDS Naturals, FiniteSets

CONSTANTS Cmds,   \* correlation ids, each used by one command
          None,   \* no command
          Tasks   \* the tasks that hand over commands: the loop, and perhaps HTTP

ASSUME CmdsAssumption == None \notin Cmds
ASSUME TasksAssumption == Tasks \in {{"loop"}, {"loop", "http"}}

VARIABLES slot,     \* pendingCommand_
          ready,    \* pendingCommandReady_
          task,     \* what each task is doing with which command
          scene,    \* LocalOperate.isSceneActive()
          running,  \* the motion command that is being executed
          status,   \* local_command_status: id and completion last recorded
          log,      \* history: per command its origin, kind, runs and answers
          overlap   \* history: one task has met the other inside an operation

vars == <<slot, ready, task, scene, running, status, log, overlap>>

Kinds == {"stroke", "abort", "sceneOn", "sceneOff"}
Steps == {"rest", "test", "copy", "raise", "taken"}
Resting == [at |-> "rest", cmd |-> None]
NoCmd == [from |-> "nobody", kind |-> "abort", runs |-> 0, acks |-> 0]

Init ==
  /\ slot = None /\ ready = FALSE /\ scene = FALSE /\ running = None
  /\ task = [t \in Tasks |-> Resting]
  /\ status = [corr |-> None, complete |-> FALSE]
  /\ log = [c \in Cmds |-> NoCmd] /\ overlap = FALSE

-----------------------------------------------------------------------------
At(t, step) == task[t].at = step
GoTo(t, step, c) ==
  /\ task' = [task EXCEPT ![t] = IF step = "rest" THEN Resting ELSE [at |-> step, cmd |-> c]]
  /\ overlap' = (overlap \/ \E u \in Tasks \ {t} : ~At(u, "rest"))

Fresh(c) == log[c].from = "nobody"
Issue(c, from, kind) == log' = [log EXCEPT ![c].from = from, ![c].kind = kind]

(* sendAck: an answer to a local command goes to the status slot, whichever
   command the slot was begun for. *)
Answered(l, cs) == [c \in Cmds |-> IF c \in cs THEN [l[c] EXCEPT !.acks = @ + 1] ELSE l[c]]
Recorded(s, c) ==
  IF c # None /\ log[c].from = "local" THEN [corr |-> c, complete |-> TRUE] ELSE s
Status(c) == status' = Recorded(status, c)

(* Four kinds stand for all: "stroke" for the motions that are answered when
   they are over, "abort", and the two forms of scene-session; a session's
   commands and the accessory's are told apart in RelayExecution and
   LocalOperate. *)

(* A command arrives from the hub inside signalRClient.poll(). *)
HubReceive(c) == \E kind \in Kinds :
  /\ At("loop", "rest") /\ Fresh(c)
  /\ Issue(c, "hub", kind)
  /\ GoTo("loop", "test", c)
  /\ UNCHANGED <<slot, ready, scene, running, status>>

(* Seeded fault: the status of the command before is left standing. *)
LocalPostKeepsStatus(c) == \E kind \in Kinds :
  /\ "http" \in Tasks /\ At("http", "rest") /\ Fresh(c)
  /\ kind \in {"stroke", "abort"} => scene
  /\ Issue(c, "local", kind)
  /\ status' = [status EXCEPT !.corr = c]
  /\ GoTo("http", "test", c)
  /\ UNCHANGED <<slot, ready, scene, running>>

(* POST /api/local/commands: all but scene and accessory commands are refused
   with 403 while the scene is off; then the status slot is begun. *)
LocalPost(c) == \E kind \in Kinds :
  /\ "http" \in Tasks /\ At("http", "rest") /\ Fresh(c)
  /\ kind \in {"stroke", "abort"} => scene
  /\ Issue(c, "local", kind)
  /\ status' = [corr |-> c, complete |-> FALSE]
  /\ GoTo("http", "test", c)
  /\ UNCHANGED <<slot, ready, scene, running>>

(* Seeded fault: a full slot is overwritten. *)
TestNothing(t) ==
  /\ At(t, "test")
  /\ GoTo(t, "copy", task[t].cmd)
  /\ UNCHANGED <<slot, ready, scene, running, status, log>>

(* Seeded fault: the flag is raised before the command is copied. *)
TestSlotRaiseFirst(t) ==
  /\ At(t, "test")
  /\ IF ready
     THEN /\ log' = Answered(log, {task[t].cmd}) /\ Status(task[t].cmd)
          /\ GoTo(t, "rest", None)
     ELSE GoTo(t, "raise", task[t].cmd) /\ UNCHANGED <<log, status>>
  /\ UNCHANGED <<slot, ready, scene, running>>

(* enqueueExecuteCommand, step by step. *)
TestSlot(t) ==
  /\ At(t, "test")
  /\ IF ready
     THEN /\ log' = Answered(log, {task[t].cmd}) /\ Status(task[t].cmd)   \* device busy
          /\ GoTo(t, "rest", None)
     ELSE GoTo(t, "copy", task[t].cmd) /\ UNCHANGED <<log, status>>
  /\ UNCHANGED <<slot, ready, scene, running>>

CopyCommand(t) ==
  /\ At(t, "copy")
  /\ slot' = task[t].cmd
  /\ GoTo(t, "raise", task[t].cmd)
  /\ UNCHANGED <<ready, scene, running, status, log>>

RaiseFlag(t) ==
  /\ At(t, "raise")
  /\ ready' = TRUE
  /\ GoTo(t, "rest", None)
  /\ UNCHANGED <<slot, scene, running, status, log>>

(* Seeded fault: the flag is left up while the command is handled. *)
TakeNoReset ==
  /\ At("loop", "rest") /\ ready
  /\ GoTo("loop", "taken", None)
  /\ UNCHANGED <<slot, ready, scene, running, status, log>>

(* CommandHandler::poll lowers the flag; the handler then reads the slot. *)
Take ==
  /\ At("loop", "rest") /\ ready
  /\ ready' = FALSE
  /\ GoTo("loop", "taken", None)
  /\ UNCHANGED <<slot, scene, running, status, log>>

-----------------------------------------------------------------------------
(* handleExecuteCommand for the command c in the slot. *)
Handled(c) == [log EXCEPT ![c].runs = @ + 1]
Answer(c) ==
  /\ log' = Answered(Handled(c), {c}) /\ Status(c)
  /\ UNCHANGED <<scene, running>>

(* Seeded fault: the hub's commands are not gated by the scene. *)
ClosedToNobody(c) == FALSE

(* The scene gate looks at the hub's commands only. *)
Closed(c) == log[c].from = "hub" /\ log[c].kind = "stroke" /\ ~scene

Start(c) ==
  /\ log[c].kind = "stroke" /\ ~Closed(c)
  /\ IF running = None
     THEN running' = c /\ log' = Handled(c) /\ UNCHANGED <<scene, status>>
     ELSE Answer(c)                                             \* device busy

(* Seeded fault: the motion that is aborted is not answered. *)
AbortSilently(c) ==
  /\ log[c].kind = "abort"
  /\ log' = Answered(Handled(c), {c}) /\ Status(c)
  /\ running' = None
  /\ UNCHANGED scene

(* An abort answers the motion it ends, then itself. *)
Abort(c) ==
  /\ log[c].kind = "abort"
  /\ log' = Answered(Handled(c), {c, running} \ {None})
  /\ status' = Recorded(Recorded(status, running), c)
  /\ running' = None
  /\ UNCHANGED scene

SetScene(c) ==
  /\ log[c].kind \in {"sceneOn", "sceneOff"}
  /\ log' = Answered(Handled(c), {c}) /\ Status(c)
  /\ scene' = (log[c].kind = "sceneOn")
  /\ UNCHANGED running

(* A hub command may fail validation, a scene may lack the sub's readiness. *)
Reject(c) ==
  /\ log[c].from = "hub" \/ log[c].kind = "sceneOn"
  /\ Answer(c)

Execute ==
  /\ At("loop", "taken")
  /\ LET c == slot IN Reject(c) \/ Start(c) \/ Abort(c) \/ SetScene(c)
  /\ GoTo("loop", "rest", None)
  /\ UNCHANGED <<slot, ready>>

(* The polls of relay and modes find the motion over. *)
Complete ==
  /\ At("loop", "rest") /\ running # None
  /\ log' = Answered(log, {running}) /\ Status(running)
  /\ running' = None
  /\ UNCHANGED <<slot, ready, task, scene, overlap>>

(* Lock, unlock, disarm, Wi-Fi loss: the scene ends outside the queue. *)
SceneLost ==
  /\ scene /\ scene' = FALSE
  /\ UNCHANGED <<slot, ready, task, running, status, log, overlap>>

Enqueue(t) == TestSlot(t) \/ CopyCommand(t) \/ RaiseFlag(t)
Next == \/ \E c \in Cmds : HubReceive(c) \/ LocalPost(c)
        \/ \E t \in Tasks : Enqueue(t)
        \/ Take \/ Execute \/ Complete \/ SceneLost

(* loop() calls signalRClient.poll(), the modes' polls and
   commandHandler.poll() on every turn. *)
Fairness == /\ WF_vars(Enqueue("loop")) /\ WF_vars(Take)
            /\ WF_vars(Execute) /\ WF_vars(Complete)
Spec == Init /\ [][Next]_vars
FairSpec == Spec /\ Fairness

-----------------------------------------------------------------------------
CmdOrNone == Cmds \cup {None}
LogType == [from : {"nobody", "hub", "local"}, kind : Kinds, runs : Nat, acks : Nat]

(* Every variable has its type; a task holds a command while it enqueues. *)
TypeOK ==
  /\ slot \in CmdOrNone /\ ready \in BOOLEAN /\ scene \in BOOLEAN
  /\ running \in CmdOrNone /\ overlap \in BOOLEAN
  /\ status \in [corr : CmdOrNone, complete : BOOLEAN]
  /\ task \in [Tasks -> [at : Steps, cmd : CmdOrNone]]
  /\ \A t \in Tasks : (task[t].cmd # None) <=> (task[t].at \in {"test", "copy", "raise"})
  /\ log \in [Cmds -> LogType]
  /\ ready => slot # None

(* Where a command that was handed over is: on its way in, in the slot, in
   the handler's hands, in motion, or answered. *)
Entering(c) == \E t \in Tasks : task[t].cmd = c
Waiting(c) == slot = c /\ (ready \/ At("loop", "taken"))
Accounted(c) == Entering(c) \/ Waiting(c) \/ running = c \/ log[c].acks > 0

(* As long as the two tasks have not met inside the queue no command is lost
   without an answer and none is executed twice or answered twice
   (enqueueExecuteCommand, poll, handleExecuteCommand). *)
NothingLost == ~overlap => \A c \in Cmds : ~Fresh(c) => Accounted(c)
OneAnswer == ~overlap => \A c \in Cmds :
  /\ log[c].runs <= 1 /\ log[c].acks <= 1
  /\ running = c => log[c].acks = 0

(* The status slot of the operator page says a command is complete only when
   that command has been answered, however the answers of older commands and
   the posts of newer ones interleave. *)
StatusTruthful == status.complete => log[status.corr].acks > 0

(* What becomes of a command: it is executed and answered once, or still has
   its place, and the operator page is told so only when it was. *)
CommandsKept == NothingLost /\ OneAnswer /\ StatusTruthful

(* A motion the hub asked for starts only within a scene, whatever happened
   to the scene while the command waited (handleExecuteCommand). *)
HubMotionNeedsScene == [][\A c \in Cmds :
  running # c /\ running' = c /\ log[c].from = "hub" => scene]_vars

(* Each command the hub hands over is eventually answered, unless the tasks
   meet inside the queue: no interleaving of local posts, refusals, motions
   and lost scenes starves it. *)
HubAnswered == \A c \in Cmds :
  (log[c].from = "hub") ~> (log[c].acks > 0 \/ overlap)

(* Documents/26 section on the command path: cloud and local must not
   double-fire. *)
NoDoubleFire == \A c \in Cmds : log[c].runs <= 1

(* Documents/34 section 3.1: motion is gated by the scene session. *)
MotionNeedsScene == [][\A c \in Cmds : running # c /\ running' = c => scene]_vars
=============================================================================
