--------------------------- MODULE DeviceCoreProofs ---------------------------
(***************************************************************************)
(* Proofs about the pending slot of the device, for any number of commands *)
(* and with or without the HTTP task.                                      *)
(*                                                                         *)
(* The slot is safe as long as the tasks do not meet in it.  The induction *)
(* says why: only one task is then inside an operation (Solo), the flag is *)
(* down while a command is copied or handled (FlagDown), and a command is  *)
(* in one place at a time (OnePlace).                                      *)
(***************************************************************************)
EXTENDS DeviceCore, TLAPS

(* A command that has not come in has left no trace. *)
NoTrace == \A c \in Cmds : Fresh(c) =>
  /\ log[c].runs = 0 /\ log[c].acks = 0
  /\ ~Entering(c) /\ slot # c /\ running # c

(* The slot was filled before anybody reads it. *)
SlotFilled == \A t \in Tasks : At(t, "raise") \/ At(t, "taken") => slot # None

StatusKnown == status.complete => status.corr # None

Typed == TypeOK /\ SlotFilled /\ StatusKnown

Solo == \A t, u \in Tasks : ~At(t, "rest") /\ ~At(u, "rest") => t = u

FlagDown == \A t \in Tasks :
  /\ At(t, "copy") \/ At(t, "raise") \/ At(t, "taken") => ~ready
  /\ At(t, "raise") => slot = task[t].cmd
  /\ At(t, "taken") => t = "loop"

Unseen(c) == log[c].runs = 0 /\ log[c].acks = 0 /\ running # c

OnePlace == \A c \in Cmds :
  /\ Entering(c) => Unseen(c) /\ ~Waiting(c)
  /\ Waiting(c) => Unseen(c)
  /\ running = c => log[c].acks = 0
  /\ log[c].runs <= 1 /\ log[c].acks <= 1
  /\ ~Fresh(c) => Accounted(c)

Undisturbed == ~overlap => Solo /\ FlagDown /\ OnePlace

-----------------------------------------------------------------------------
LEMMA LoopThere == "loop" \in Tasks
BY TasksAssumption

(* What an answer, an execution and an arrival make of the log. *)
LEMMA AnsweredLog ==
  ASSUME NEW l \in [Cmds -> LogType], NEW cs
  PROVE  /\ Answered(l, cs) \in [Cmds -> LogType]
         /\ \A c \in Cmds :
              /\ Answered(l, cs)[c].from = l[c].from
              /\ Answered(l, cs)[c].kind = l[c].kind
              /\ Answered(l, cs)[c].runs = l[c].runs
              /\ Answered(l, cs)[c].acks = IF c \in cs THEN l[c].acks + 1 ELSE l[c].acks
<1>1. ASSUME NEW c \in Cmds
      PROVE  /\ Answered(l, cs)[c] \in LogType
             /\ Answered(l, cs)[c].from = l[c].from
             /\ Answered(l, cs)[c].kind = l[c].kind
             /\ Answered(l, cs)[c].runs = l[c].runs
             /\ Answered(l, cs)[c].acks = IF c \in cs THEN l[c].acks + 1 ELSE l[c].acks
  BY DEF Answered, LogType
<1>2. Answered(l, cs) = [c \in Cmds |-> Answered(l, cs)[c]]
  BY DEF Answered
<1> QED  BY <1>1, <1>2

LEMMA HandledLog ==
  ASSUME log \in [Cmds -> LogType], NEW d \in Cmds
  PROVE  /\ Handled(d) \in [Cmds -> LogType]
         /\ \A c \in Cmds :
              /\ Handled(d)[c].from = log[c].from
              /\ Handled(d)[c].kind = log[c].kind
              /\ Handled(d)[c].runs = IF c = d THEN log[c].runs + 1 ELSE log[c].runs
              /\ Handled(d)[c].acks = log[c].acks
BY DEF Handled, LogType

LEMMA IssueLog ==
  ASSUME log \in [Cmds -> LogType], NEW d \in Cmds, NEW kind \in Kinds,
         NEW from \in {"hub", "local"}, Issue(d, from, kind)
  PROVE  /\ log' \in [Cmds -> LogType]
         /\ \A c \in Cmds :
              /\ log'[c].runs = log[c].runs /\ log'[c].acks = log[c].acks
              /\ log'[c].from = IF c = d THEN from ELSE log[c].from
BY DEF Issue, LogType, Kinds

LEMMA RecordedType ==
  ASSUME NEW s \in [corr : CmdOrNone, complete : BOOLEAN], NEW c \in CmdOrNone
  PROVE  /\ Recorded(s, c) \in [corr : CmdOrNone, complete : BOOLEAN]
         /\ Recorded(s, c) = s \/ (c # None /\ Recorded(s, c) = [corr |-> c, complete |-> TRUE])
BY DEF Recorded

(* A task's next step: the type of its state, and who else may be busy. *)
LEMMA GoToType ==
  ASSUME TypeOK, NEW t \in Tasks, NEW step \in Steps, NEW c, GoTo(t, step, c),
         step \in {"test", "copy", "raise"} => c \in Cmds,
         step \in {"rest", "taken"} => c = None
  PROVE  /\ task' \in [Tasks -> [at : Steps, cmd : CmdOrNone]]
         /\ \A u \in Tasks : (task'[u].cmd # None) <=> (task'[u].at \in {"test", "copy", "raise"})
         /\ task'[t].at = step /\ task'[t].cmd = c
         /\ \A u \in Tasks \ {t} : task'[u] = task[u]
         /\ overlap' \in BOOLEAN
BY CmdsAssumption DEF TypeOK, GoTo, Resting, Steps, CmdOrNone, At

LEMMA GoToAlone ==
  ASSUME TypeOK, NEW t \in Tasks, NEW step, NEW c, GoTo(t, step, c), ~overlap'
  PROVE  /\ ~overlap
         /\ \A u \in Tasks \ {t} : At(u, "rest") /\ task[u].cmd = None
BY DEF TypeOK, GoTo, At

-----------------------------------------------------------------------------
(* Types *)

LEMMA InitTyped == Init => Typed
<1> SUFFICES ASSUME Init PROVE Typed
  OBVIOUS
<1>1. log \in [Cmds -> LogType]
  BY DEF Init, NoCmd, LogType, Kinds
<1>2. TypeOK
  BY <1>1 DEF Init, TypeOK, CmdOrNone, Resting, Steps
<1> QED  BY <1>2 DEF Init, Typed, SlotFilled, StatusKnown, At, Resting

LEMMA ReceiveTyped ==
  ASSUME Typed, NEW c \in Cmds, HubReceive(c) \/ LocalPost(c)
  PROVE  Typed'
<1>1. PICK t \in Tasks, kind \in Kinds, from \in {"hub", "local"} :
        /\ Issue(c, from, kind) /\ GoTo(t, "test", c)
        /\ UNCHANGED <<slot, ready, scene, running>>
        /\ status' = status \/ status' = [corr |-> c, complete |-> FALSE]
  BY LoopThere DEF HubReceive, LocalPost
<1>2. TypeOK
  BY DEF Typed
<1>3. log' \in [Cmds -> LogType]
  BY <1>1, <1>2, IssueLog DEF TypeOK
<1>4. "test" \in Steps
  BY DEF Steps
<1>5. /\ task' \in [Tasks -> [at : Steps, cmd : CmdOrNone]]
      /\ \A u \in Tasks : (task'[u].cmd # None) <=> (task'[u].at \in {"test", "copy", "raise"})
      /\ task'[t].at = "test" /\ \A u \in Tasks \ {t} : task'[u] = task[u]
      /\ overlap' \in BOOLEAN
  BY <1>1, <1>2, <1>4, GoToType
<1>6. /\ status' \in [corr : CmdOrNone, complete : BOOLEAN]
      /\ status'.complete => status'.corr # None
  <2>1. CASE status' = status
    BY <1>2, <2>1 DEF Typed, TypeOK, StatusKnown
  <2>2. CASE status' = [corr |-> c, complete |-> FALSE]
    BY <2>2 DEF CmdOrNone
  <2> QED  BY <1>1, <2>1, <2>2
<1>7. TypeOK'
  BY <1>1, <1>2, <1>3, <1>5, <1>6 DEF TypeOK
<1>8. SlotFilled'
  BY <1>1, <1>5 DEF Typed, SlotFilled, At
<1> QED  BY <1>6, <1>7, <1>8 DEF Typed, StatusKnown

(* A task that goes on, with what it does to log and status. *)
LEMMA TaskTyped ==
  ASSUME Typed, NEW t \in Tasks, NEW step \in Steps, NEW c, GoTo(t, step, c),
         step \in {"test", "copy", "raise"} => c \in Cmds,
         step \in {"rest", "taken"} => c = None,
         slot' \in CmdOrNone, slot # None => slot' # None,
         step \in {"raise", "taken"} => slot' # None,
         ready' \in BOOLEAN, ready' => slot' # None,
         scene' \in BOOLEAN, running' \in CmdOrNone,
         log' \in [Cmds -> LogType],
         status' \in [corr : CmdOrNone, complete : BOOLEAN],
         status'.complete => status'.corr # None
  PROVE  Typed'
<1>1. /\ task' \in [Tasks -> [at : Steps, cmd : CmdOrNone]]
      /\ \A u \in Tasks : (task'[u].cmd # None) <=> (task'[u].at \in {"test", "copy", "raise"})
      /\ task'[t].at = step /\ \A u \in Tasks \ {t} : task'[u] = task[u]
      /\ overlap' \in BOOLEAN
  BY GoToType DEF Typed
<1>2. TypeOK'
  BY <1>1 DEF TypeOK
<1>3. SlotFilled'
  BY <1>1 DEF Typed, SlotFilled, At
<1> QED  BY <1>2, <1>3 DEF Typed, StatusKnown

(* The command a task is handing over. *)
LEMMA HandsOver ==
  ASSUME TypeOK, NEW t \in Tasks, At(t, "test") \/ At(t, "copy") \/ At(t, "raise")
  PROVE  task[t].cmd \in Cmds
BY DEF TypeOK, At, CmdOrNone

(* What Status(c) leaves in the status slot. *)
LEMMA StatusTyped ==
  ASSUME Typed, NEW c \in CmdOrNone, Status(c)
  PROVE  /\ status' \in [corr : CmdOrNone, complete : BOOLEAN]
         /\ status'.complete => status'.corr # None
         /\ status' = status \/ (c # None /\ status'.corr = c)
BY RecordedType DEF Typed, TypeOK, StatusKnown, Status

LEMMA EnqueueTyped ==
  ASSUME Typed, NEW t \in Tasks, Enqueue(t)
  PROVE  Typed'
<1> DEFINE c == task[t].cmd
<1>1. /\ TypeOK /\ {"rest", "test", "copy", "raise", "taken"} = Steps
      /\ slot \in CmdOrNone /\ ready \in BOOLEAN /\ scene \in BOOLEAN
      /\ running \in CmdOrNone /\ log \in [Cmds -> LogType] /\ (ready => slot # None)
      /\ status \in [corr : CmdOrNone, complete : BOOLEAN]
      /\ status.complete => status.corr # None
  BY DEF Typed, TypeOK, StatusKnown, Steps
<1>2. c \in Cmds /\ c \in CmdOrNone /\ c # None
  BY <1>1, HandsOver, CmdsAssumption
     DEF Enqueue, TestSlot, CopyCommand, RaiseFlag, CmdOrNone
<1>3. CASE TestSlot(t) /\ ready
  <2>1. /\ log' = Answered(log, {c}) /\ Status(c) /\ GoTo(t, "rest", None)
        /\ UNCHANGED <<slot, ready, scene, running>>
    BY <1>3 DEF TestSlot
  <2>2. log' \in [Cmds -> LogType]
    BY <1>1, <2>1, AnsweredLog
  <2> HIDE DEF c
  <2> QED  BY <1>1, <1>2, <2>1, <2>2, StatusTyped, TaskTyped
<1>4. CASE TestSlot(t) /\ ~ready
  <2>1. GoTo(t, "copy", c) /\ UNCHANGED <<slot, ready, scene, running, log, status>>
    BY <1>4 DEF TestSlot
  <2> HIDE DEF c
  <2> QED  BY <1>1, <1>2, <2>1, TaskTyped
<1>5. CASE CopyCommand(t)
  <2>1. GoTo(t, "raise", c) /\ slot' = c /\ UNCHANGED <<ready, scene, running, status, log>>
    BY <1>5 DEF CopyCommand
  <2> HIDE DEF c
  <2> QED  BY <1>1, <1>2, <2>1, TaskTyped
<1>6. CASE RaiseFlag(t)
  <2>1. /\ GoTo(t, "rest", None) /\ ready' = TRUE /\ At(t, "raise")
        /\ UNCHANGED <<slot, scene, running, status, log>>
    BY <1>6 DEF RaiseFlag
  <2>2. slot # None
    BY <2>1 DEF Typed, SlotFilled
  <2> HIDE DEF c
  <2> QED  BY <1>1, <2>1, <2>2, TaskTyped
<1> QED  BY <1>3, <1>4, <1>5, <1>6 DEF Enqueue

LEMMA TakeTyped == ASSUME Typed, Take PROVE Typed'
<1>1. /\ TypeOK /\ "taken" \in Steps /\ slot # None
      /\ slot \in CmdOrNone /\ scene \in BOOLEAN
      /\ running \in CmdOrNone /\ log \in [Cmds -> LogType]
      /\ status \in [corr : CmdOrNone, complete : BOOLEAN]
      /\ status.complete => status.corr # None
  BY DEF Typed, TypeOK, StatusKnown, Steps, Take
<1>2. /\ GoTo("loop", "taken", None) /\ ready' = FALSE
      /\ UNCHANGED <<slot, scene, running, status, log>>
  BY DEF Take
<1> QED  BY <1>1, <1>2, LoopThere, TaskTyped

-----------------------------------------------------------------------------
(* What handleExecuteCommand does with the command c: one run more, one
   answer more for the commands cs, and the motion that goes on. *)
Effect(c, cs) ==
  /\ log' \in [Cmds -> LogType]
  /\ \A d \in Cmds :
       /\ log'[d].from = log[d].from
       /\ log'[d].runs = IF d = c THEN log[d].runs + 1 ELSE log[d].runs
       /\ log'[d].acks = IF d \in cs THEN log[d].acks + 1 ELSE log[d].acks
  /\ \/ cs = {c} /\ running' = running
     \/ cs = {} /\ running = None /\ running' = c
     \/ cs = {c, running} \ {None} /\ running' = None
  /\ scene' \in BOOLEAN
  /\ status' \in [corr : CmdOrNone, complete : BOOLEAN]
  /\ status'.complete => status'.corr # None
  /\ status' = status \/ status'.corr \in cs

LEMMA AnswerEffect ==
  ASSUME Typed, NEW c \in Cmds, log' = Answered(Handled(c), {c}), Status(c),
         running' = running, scene' \in BOOLEAN
  PROVE  Effect(c, {c})
<1>1. log \in [Cmds -> LogType] /\ c \in CmdOrNone
  BY DEF Typed, TypeOK, CmdOrNone
<1>2. Handled(c) \in [Cmds -> LogType]
  BY <1>1, HandledLog
<1>3. /\ log' \in [Cmds -> LogType]
      /\ \A d \in Cmds :
           /\ log'[d].from = log[d].from
           /\ log'[d].runs = IF d = c THEN log[d].runs + 1 ELSE log[d].runs
           /\ log'[d].acks = IF d \in {c} THEN log[d].acks + 1 ELSE log[d].acks
  BY <1>1, <1>2, HandledLog, AnsweredLog
<1>4. /\ status' \in [corr : CmdOrNone, complete : BOOLEAN]
      /\ status'.complete => status'.corr # None
      /\ status' = status \/ status'.corr \in {c}
  BY <1>1, StatusTyped
<1> QED  BY <1>3, <1>4 DEF Effect

LEMMA AbortEffect ==
  ASSUME Typed, NEW c \in Cmds, Abort(c)
  PROVE  Effect(c, {c, running} \ {None})
<1> DEFINE cs == {c, running} \ {None}
<1>1. /\ log \in [Cmds -> LogType] /\ c \in CmdOrNone /\ c # None
      /\ running \in CmdOrNone /\ scene \in BOOLEAN
      /\ status \in [corr : CmdOrNone, complete : BOOLEAN]
      /\ status.complete => status.corr # None
  BY CmdsAssumption DEF Typed, TypeOK, StatusKnown, CmdOrNone
<1>2. Handled(c) \in [Cmds -> LogType]
  BY <1>1, HandledLog
<1>3. /\ log' = Answered(Handled(c), cs) /\ running' = None /\ scene' = scene
      /\ status' = Recorded(Recorded(status, running), c)
  BY DEF Abort
<1>4. /\ log' \in [Cmds -> LogType]
      /\ \A d \in Cmds :
           /\ log'[d].from = log[d].from
           /\ log'[d].runs = IF d = c THEN log[d].runs + 1 ELSE log[d].runs
           /\ log'[d].acks = IF d \in cs THEN log[d].acks + 1 ELSE log[d].acks
  <2> HIDE DEF cs
  <2> QED  BY <1>1, <1>2, <1>3, HandledLog, AnsweredLog
<1> DEFINE first == Recorded(status, running)
<1>5. /\ first \in [corr : CmdOrNone, complete : BOOLEAN]
      /\ first = status \/ (running # None /\ first = [corr |-> running, complete |-> TRUE])
  BY <1>1, RecordedType
<1> HIDE DEF first
<1>6. /\ status' \in [corr : CmdOrNone, complete : BOOLEAN]
      /\ status' = first \/ status' = [corr |-> c, complete |-> TRUE]
  BY <1>1, <1>3, <1>5, RecordedType DEF first
<1>7. /\ status'.complete => status'.corr # None
      /\ status' = status \/ status'.corr \in cs
  BY <1>1, <1>5, <1>6
<1> QED  BY <1>1, <1>3, <1>4, <1>6, <1>7 DEF Effect

LEMMA StartEffect ==
  ASSUME Typed, NEW c \in Cmds, Start(c)
  PROVE  \E cs \in {{c}, {}} : Effect(c, cs)
<1>1. /\ log \in [Cmds -> LogType] /\ scene \in BOOLEAN
      /\ status \in [corr : CmdOrNone, complete : BOOLEAN]
      /\ status.complete => status.corr # None
  BY DEF Typed, TypeOK, StatusKnown
<1>2. CASE running = None /\ running' = c /\ log' = Handled(c) /\ UNCHANGED <<scene, status>>
  <2>1. /\ log' \in [Cmds -> LogType]
        /\ \A d \in Cmds :
             /\ log'[d].from = log[d].from
             /\ log'[d].runs = IF d = c THEN log[d].runs + 1 ELSE log[d].runs
             /\ log'[d].acks = log[d].acks
    BY <1>1, <1>2, HandledLog
  <2> QED  BY <1>1, <1>2, <2>1 DEF Effect
<1>3. CASE Answer(c)
  BY <1>1, <1>3, AnswerEffect DEF Answer
<1> QED  BY <1>2, <1>3 DEF Start

LEMMA ExecuteEffect ==
  ASSUME Typed, Execute
  PROVE  slot \in Cmds /\ \E cs \in SUBSET Cmds : Effect(slot, cs)
<1>1. slot # None
  BY LoopThere DEF Typed, SlotFilled, Execute
<1>2. slot \in Cmds /\ running \in CmdOrNone /\ scene \in BOOLEAN
  BY <1>1 DEF Typed, TypeOK, CmdOrNone
<1>3. {slot} \in SUBSET Cmds /\ {} \in SUBSET Cmds /\ {slot, running} \ {None} \in SUBSET Cmds
  BY <1>2 DEF CmdOrNone
<1>4. CASE Reject(slot)
  BY <1>2, <1>3, <1>4, AnswerEffect DEF Reject, Answer
<1>5. CASE Start(slot)
  BY <1>2, <1>3, <1>5, StartEffect
<1>6. CASE Abort(slot)
  BY <1>2, <1>3, <1>6, AbortEffect
<1>7. CASE SetScene(slot)
  BY <1>2, <1>3, <1>7, AnswerEffect DEF SetScene
<1> QED  BY <1>2, <1>4, <1>5, <1>6, <1>7 DEF Execute

LEMMA ExecuteTyped == ASSUME Typed, Execute PROVE Typed'
<1>1. PICK cs \in SUBSET Cmds : Effect(slot, cs)
  BY ExecuteEffect
<1>2. slot \in Cmds /\ slot # None
  BY ExecuteEffect, CmdsAssumption
<1>3. /\ TypeOK /\ "rest" \in Steps /\ slot \in CmdOrNone /\ ready \in BOOLEAN
      /\ running \in CmdOrNone
  BY DEF Typed, TypeOK, Steps
<1>4. running' \in CmdOrNone
  BY <1>1, <1>2, <1>3 DEF Effect, CmdOrNone
<1>5. GoTo("loop", "rest", None) /\ UNCHANGED <<slot, ready>>
  BY DEF Execute
<1> QED  BY <1>1, <1>2, <1>3, <1>4, <1>5, LoopThere, TaskTyped DEF Effect

(* The end of a motion, seen like the effect of a command. *)
LEMMA CompleteEffect ==
  ASSUME Typed, Complete
  PROVE  /\ running \in Cmds /\ running' = None
         /\ log' \in [Cmds -> LogType]
         /\ \A d \in Cmds :
              /\ log'[d].from = log[d].from /\ log'[d].runs = log[d].runs
              /\ log'[d].acks = IF d = running THEN log[d].acks + 1 ELSE log[d].acks
         /\ status' \in [corr : CmdOrNone, complete : BOOLEAN]
         /\ status'.complete => status'.corr # None
         /\ status' = status \/ status'.corr = running
         /\ UNCHANGED <<slot, ready, task, scene, overlap>>
<1>1. /\ log \in [Cmds -> LogType] /\ running \in Cmds /\ running \in CmdOrNone
  BY DEF Typed, TypeOK, CmdOrNone, Complete
<1>2. /\ log' = Answered(log, {running}) /\ Status(running) /\ running' = None
      /\ UNCHANGED <<slot, ready, task, scene, overlap>>
  BY DEF Complete
<1>3. /\ log' \in [Cmds -> LogType]
      /\ \A d \in Cmds :
           /\ log'[d].from = log[d].from /\ log'[d].runs = log[d].runs
           /\ log'[d].acks = IF d = running THEN log[d].acks + 1 ELSE log[d].acks
  BY <1>1, <1>2, AnsweredLog
<1> QED  BY <1>1, <1>2, <1>3, StatusTyped

LEMMA RestTyped == ASSUME Typed, Complete \/ SceneLost \/ UNCHANGED vars PROVE Typed'
<1>1. CASE Complete
  BY <1>1, CompleteEffect DEF Typed, TypeOK, SlotFilled, StatusKnown, At, CmdOrNone
<1>2. CASE SceneLost
  BY <1>2 DEF SceneLost, Typed, TypeOK, SlotFilled, StatusKnown, At
<1>3. CASE UNCHANGED vars
  BY <1>3 DEF vars, Typed, TypeOK, SlotFilled, StatusKnown, At
<1> QED  BY <1>1, <1>2, <1>3

LEMMA NextTyped == Typed /\ [Next]_vars => Typed'
BY ReceiveTyped, EnqueueTyped, TakeTyped, ExecuteTyped, RestTyped DEF Next

(* Slot, tasks, status and log stay in their types (CommandHandler,
   local_command_status). *)
THEOREM TypeCorrect == Spec => []TypeOK
<1>1. Typed => TypeOK
  BY DEF Typed
<1> QED  BY <1>1, InitTyped, NextTyped, PTL DEF Spec

-----------------------------------------------------------------------------
(* The slot *)

(* What each action leaves of the bookkeeping. *)
Rest == NoTrace /\ StatusTruthful /\ Undisturbed

LEMMA StatusKept ==
  ASSUME Typed, Typed', StatusTruthful, \A d \in Cmds : log'[d].acks >= log[d].acks,
         \/ status' = status \/ ~status'.complete
         \/ status'.corr \in Cmds /\ log'[status'.corr].acks > 0
  PROVE  StatusTruthful'
<1>1. status.complete => status.corr \in Cmds
  BY DEF Typed, TypeOK, StatusKnown, CmdOrNone
<1>2. ASSUME NEW d \in Cmds PROVE log[d].acks \in Nat /\ log'[d].acks \in Nat
  BY DEF Typed, TypeOK, LogType
<1> QED  BY <1>1, <1>2 DEF StatusTruthful

LEMMA InitRest == Init => Rest
<1> SUFFICES ASSUME Init PROVE Rest
  OBVIOUS
<1>1. ASSUME NEW c \in Cmds
      PROVE  /\ log[c].from = "nobody" /\ log[c].runs = 0 /\ log[c].acks = 0
             /\ ~Entering(c) /\ slot # c /\ running # c
  BY CmdsAssumption DEF Init, NoCmd, Entering, Resting
<1>2. NoTrace /\ StatusTruthful
  BY <1>1 DEF Init, NoTrace, StatusTruthful
<1>3. Solo /\ FlagDown
  BY DEF Init, Solo, FlagDown, At, Resting
<1>4. OnePlace
  BY <1>1 DEF OnePlace, Unseen, Waiting, Fresh
<1> QED  BY <1>2, <1>3, <1>4 DEF Rest, Undisturbed

LEMMA ReceiveRest ==
  ASSUME Typed, Typed', Rest, NEW c \in Cmds, HubReceive(c) \/ LocalPost(c)
  PROVE  Rest'
<1>1. PICK t \in Tasks, kind \in Kinds, from \in {"hub", "local"} :
        /\ At(t, "rest") /\ Fresh(c)
        /\ Issue(c, from, kind) /\ GoTo(t, "test", c)
        /\ UNCHANGED <<slot, ready, scene, running>>
        /\ status' = status \/ status' = [corr |-> c, complete |-> FALSE]
  BY LoopThere DEF HubReceive, LocalPost
<1>2. TypeOK /\ log \in [Cmds -> LogType] /\ "test" \in Steps /\ c # None
  BY CmdsAssumption DEF Typed, TypeOK, Steps
<1>3. \A d \in Cmds :
        /\ log'[d].runs = log[d].runs /\ log'[d].acks = log[d].acks
        /\ log'[d].from = IF d = c THEN from ELSE log[d].from
  BY <1>1, <1>2, IssueLog
<1>4. /\ task'[t].at = "test" /\ task'[t].cmd = c
      /\ \A u \in Tasks \ {t} : task'[u] = task[u]
  BY <1>1, <1>2, GoToType
<1>5. NoTrace'
  BY <1>1, <1>3, <1>4 DEF Rest, NoTrace, Fresh, Entering
<1>6. StatusTruthful'
  <2>1. \A d \in Cmds : log[d].acks \in Nat
    BY <1>2 DEF LogType
  <2>2. status' = status \/ ~status'.complete
    BY <1>1
  <2> QED  BY <1>3, <2>1, <2>2, StatusKept DEF Rest
<1>7. ASSUME ~overlap' PROVE Solo' /\ FlagDown' /\ OnePlace'
  <2>1. /\ ~overlap /\ \A u \in Tasks \ {t} : At(u, "rest") /\ task[u].cmd = None
    BY <1>1, <1>2, <1>7, GoToAlone
  <2>2. \A u \in Tasks : At(u, "rest") /\ task[u].cmd = None
    BY <1>1, <1>2, <2>1 DEF TypeOK, At
  <2>3. \A u \in Tasks : At(u, "rest")' <=> u # t
    BY <1>4, <2>2 DEF At
  <2>4. Solo'
    BY <2>3 DEF Solo
  <2>5. FlagDown'
    BY <1>4, <2>3 DEF FlagDown, At
  <2>6. ASSUME NEW d \in Cmds
        PROVE  /\ Entering(d)' <=> d = c
               /\ ~Entering(d)
               /\ Waiting(d)' <=> Waiting(d)
    <3>1. ~At("loop", "taken") /\ ~At("loop", "taken")'
      BY <1>4, <2>2, <2>3, LoopThere DEF At
    <3>2. \A u \in Tasks : task'[u].cmd = IF u = t THEN c ELSE None
      BY <1>4, <2>2
    <3>3. d # None
      BY CmdsAssumption
    <3>4. /\ Entering(d)' <=> d = c
          /\ ~Entering(d)
      BY <2>2, <3>2, <3>3 DEF Entering
    <3> QED  BY <1>1, <3>1, <3>4 DEF Waiting
  <2>7. OnePlace /\ NoTrace
    BY <2>1 DEF Rest, Undisturbed
  <2>8. /\ log[c].runs = 0 /\ log[c].acks = 0 /\ slot # c /\ running # c
    BY <1>1, <2>7 DEF NoTrace
  <2>9. ASSUME NEW d \in Cmds
        PROVE  /\ Entering(d)' => Unseen(d)' /\ ~Waiting(d)'
               /\ Waiting(d)' => Unseen(d)'
               /\ running' = d => log'[d].acks = 0
               /\ log'[d].runs <= 1 /\ log'[d].acks <= 1
               /\ ~Fresh(d)' => Accounted(d)'
    BY <1>1, <1>3, <2>6, <2>7, <2>8 DEF OnePlace, Unseen, Waiting, Accounted, Fresh
  <2>10. OnePlace'
    BY <2>9 DEF OnePlace
  <2> QED  BY <2>4, <2>5, <2>10
<1> QED  BY <1>5, <1>6, <1>7 DEF Rest, Undisturbed

(* A task goes on alone; where the other commands are. *)
LEMMA AloneThere ==
  ASSUME Typed, Rest, NEW t \in Tasks, NEW step \in Steps, NEW c, GoTo(t, step, c), ~overlap',
         step \in {"test", "copy", "raise"} => c \in Cmds,
         step \in {"rest", "taken"} => c = None
  PROVE  /\ Solo /\ FlagDown /\ OnePlace
         /\ \A u \in Tasks \ {t} : At(u, "rest") /\ At(u, "rest")'
         /\ \A d \in Cmds : (Entering(d) <=> task[t].cmd = d) /\ (Entering(d)' <=> c = d)
         /\ task'[t].at = step /\ task'[t].cmd = c
<1>1. TypeOK
  BY DEF Typed
<1>2. ~overlap /\ \A u \in Tasks \ {t} : At(u, "rest") /\ task[u].cmd = None
  BY <1>1, GoToAlone
<1>3. /\ task'[t].at = step /\ task'[t].cmd = c
      /\ \A u \in Tasks \ {t} : task'[u] = task[u]
  BY <1>1, GoToType
<1> QED  BY <1>2, <1>3, CmdsAssumption DEF Rest, Undisturbed, Entering, At

LEMMA TestSlotRest ==
  ASSUME Typed, Typed', Rest, NEW t \in Tasks, TestSlot(t)
  PROVE  Rest'
<1> DEFINE c == task[t].cmd
<1>1. /\ TypeOK /\ log \in [Cmds -> LogType] /\ {"rest", "copy"} \subseteq Steps
  BY DEF Typed, TypeOK, Steps
<1>2. /\ c \in Cmds /\ c \in CmdOrNone /\ c # None /\ At(t, "test") /\ Entering(c)
      /\ UNCHANGED <<slot, ready, scene, running>>
  BY <1>1, HandsOver, CmdsAssumption DEF TestSlot, CmdOrNone, Entering
<1>3. ~Fresh(c)
  BY <1>2 DEF Rest, NoTrace
<1>4. \A d \in Cmds : log[d].acks \in Nat
  BY <1>1 DEF LogType
<1>5. CASE ready
  <2>1. log' = Answered(log, {c}) /\ Status(c) /\ GoTo(t, "rest", None)
    BY <1>5 DEF TestSlot
  <2>2. \A d \in Cmds :
          /\ log'[d].from = log[d].from /\ log'[d].runs = log[d].runs
          /\ log'[d].acks = IF d = c THEN log[d].acks + 1 ELSE log[d].acks
    BY <1>1, <2>1, AnsweredLog
  <2>3. task'[t].cmd = None /\ \A u \in Tasks \ {t} : task'[u] = task[u]
    BY <1>1, <2>1, GoToType
  <2> HIDE DEF c
  <2>4. NoTrace'
    BY <1>2, <1>3, <2>2, <2>3, CmdsAssumption DEF Rest, NoTrace, Fresh, Entering
  <2>5. StatusTruthful'
    <3>1. status' = status \/ status'.corr = c
      BY <1>2, <2>1, StatusTyped
    <3>2. \A d \in Cmds : log'[d].acks >= log[d].acks
      BY <1>4, <2>2
    <3>3. log'[c].acks > 0
      BY <1>2, <1>4, <2>2
    <3> QED  BY <1>2, <3>1, <3>2, <3>3, StatusKept DEF Rest
  <2>6. ASSUME ~overlap' PROVE Solo' /\ FlagDown' /\ OnePlace'
    <3>1. /\ Solo /\ FlagDown /\ OnePlace
          /\ \A u \in Tasks \ {t} : At(u, "rest") /\ At(u, "rest")'
          /\ \A d \in Cmds : (Entering(d) <=> task[t].cmd = d) /\ ~Entering(d)'
          /\ At(t, "rest")'
      BY <1>1, <2>1, <2>6, AloneThere, CmdsAssumption DEF At
    <3>2. Solo' /\ FlagDown'
      BY <3>1 DEF Solo, FlagDown, At
    <3>3. ~At("loop", "taken") /\ ~At("loop", "taken")'
      BY <1>2, <3>1, LoopThere DEF At
    <3>4. Unseen(c) /\ ~Waiting(c)
      BY <1>2, <3>1 DEF OnePlace
    <3>5. ASSUME NEW d \in Cmds
          PROVE  /\ ~Entering(d)' /\ (Waiting(d)' => Unseen(d)')
                 /\ running' = d => log'[d].acks = 0
                 /\ log'[d].runs <= 1 /\ log'[d].acks <= 1
                 /\ ~Fresh(d)' => Accounted(d)'
      <4>1. Waiting(d)' <=> Waiting(d)
        BY <1>2, <3>3 DEF Waiting
      <4>2. d # c => ~Entering(d)
        BY <3>1 DEF c
      <4> QED  BY <1>2, <1>4, <2>2, <3>1, <3>4, <4>1, <4>2 DEF OnePlace, Unseen, Accounted, Fresh
    <3> QED  BY <3>2, <3>5 DEF OnePlace
  <2> QED  BY <2>4, <2>5, <2>6 DEF Rest, Undisturbed
<1>6. CASE ~ready
  <2>1. GoTo(t, "copy", c) /\ UNCHANGED <<log, status>>
    BY <1>6 DEF TestSlot
  <2>2. task'[t].cmd = c /\ \A u \in Tasks \ {t} : task'[u] = task[u]
    BY <1>1, <1>2, <2>1, GoToType
  <2>3. NoTrace'
    BY <1>2, <1>3, <2>1, <2>2 DEF Rest, NoTrace, Fresh, Entering
  <2>4. StatusTruthful'
    BY <2>1 DEF Rest, StatusTruthful
  <2>5. ASSUME ~overlap' PROVE Solo' /\ FlagDown' /\ OnePlace'
    <3>1. /\ Solo /\ FlagDown /\ OnePlace
          /\ \A u \in Tasks \ {t} : At(u, "rest") /\ At(u, "rest")'
          /\ \A d \in Cmds : Entering(d)' <=> Entering(d)
          /\ task'[t].at = "copy"
      <4> HIDE DEF c
      <4>1. /\ Solo /\ FlagDown /\ OnePlace
            /\ \A u \in Tasks \ {t} : At(u, "rest") /\ At(u, "rest")'
            /\ \A d \in Cmds : (Entering(d) <=> task[t].cmd = d) /\ (Entering(d)' <=> c = d)
            /\ task'[t].at = "copy"
        BY <1>1, <1>2, <2>1, <2>5, AloneThere
      <4> QED  BY <4>1 DEF c
    <3>2. Solo' /\ FlagDown'
      BY <1>2, <1>6, <3>1 DEF Solo, FlagDown, At
    <3>3. ~At("loop", "taken") /\ ~At("loop", "taken")'
      BY <1>2, <3>1, LoopThere DEF At
    <3>4. OnePlace'
      BY <1>2, <2>1, <3>1, <3>3 DEF OnePlace, Unseen, Waiting, Accounted, Fresh
    <3> QED  BY <3>2, <3>4
  <2> QED  BY <2>3, <2>4, <2>5 DEF Rest, Undisturbed
<1> QED  BY <1>5, <1>6

LEMMA CopyRest ==
  ASSUME Typed, Typed', Rest, NEW t \in Tasks, CopyCommand(t)
  PROVE  Rest'
<1> DEFINE c == task[t].cmd
<1>1. TypeOK /\ "raise" \in Steps
  BY DEF Typed, Steps
<1>2. /\ c \in Cmds /\ c # None /\ At(t, "copy") /\ Entering(c)
      /\ slot' = c /\ GoTo(t, "raise", c)
      /\ UNCHANGED <<ready, scene, running, status, log>>
  BY <1>1, HandsOver, CmdsAssumption DEF CopyCommand, Entering
<1>3. ~Fresh(c)
  BY <1>2 DEF Rest, NoTrace
<1>4. task'[t].cmd = c /\ \A u \in Tasks \ {t} : task'[u] = task[u]
  BY <1>1, <1>2, GoToType
<1>5. NoTrace'
  BY <1>2, <1>3, <1>4 DEF Rest, NoTrace, Fresh, Entering
<1>6. StatusTruthful'
  BY <1>2 DEF Rest, StatusTruthful
<1>7. ASSUME ~overlap' PROVE Solo' /\ FlagDown' /\ OnePlace'
  <2>1. /\ Solo /\ FlagDown /\ OnePlace
        /\ \A u \in Tasks \ {t} : At(u, "rest") /\ At(u, "rest")'
        /\ \A d \in Cmds : Entering(d)' <=> Entering(d)
        /\ task'[t].at = "raise" /\ task'[t].cmd = c
    <3> HIDE DEF c
    <3>1. /\ Solo /\ FlagDown /\ OnePlace
          /\ \A u \in Tasks \ {t} : At(u, "rest") /\ At(u, "rest")'
          /\ \A d \in Cmds : (Entering(d) <=> task[t].cmd = d) /\ (Entering(d)' <=> c = d)
          /\ task'[t].at = "raise" /\ task'[t].cmd = c
      BY <1>1, <1>2, <1>7, AloneThere
    <3> QED  BY <3>1 DEF c
  <2>2. ~ready
    BY <1>2, <2>1 DEF FlagDown
  <2>3. Solo' /\ FlagDown'
    BY <1>2, <2>1, <2>2 DEF Solo, FlagDown, At
  <2>4. ~At("loop", "taken") /\ ~At("loop", "taken")'
    BY <1>2, <2>1, LoopThere DEF At
  <2>5. \A d \in Cmds : ~Waiting(d) /\ ~Waiting(d)'
    BY <1>2, <2>2, <2>4 DEF Waiting
  <2>6. OnePlace'
    BY <1>2, <2>1, <2>5 DEF OnePlace, Unseen, Accounted, Fresh
  <2> QED  BY <2>3, <2>6
<1> QED  BY <1>5, <1>6, <1>7 DEF Rest, Undisturbed

LEMMA RaiseRest ==
  ASSUME Typed, Typed', Rest, NEW t \in Tasks, RaiseFlag(t)
  PROVE  Rest'
<1> DEFINE c == task[t].cmd
<1>1. TypeOK /\ "rest" \in Steps
  BY DEF Typed, Steps
<1>2. /\ c \in Cmds /\ c # None /\ At(t, "raise") /\ Entering(c)
      /\ ready' = TRUE /\ GoTo(t, "rest", None)
      /\ UNCHANGED <<slot, scene, running, status, log>>
  BY <1>1, HandsOver, CmdsAssumption DEF RaiseFlag, Entering
<1>3. task'[t].cmd = None /\ \A u \in Tasks \ {t} : task'[u] = task[u]
  BY <1>1, <1>2, GoToType
<1>4. NoTrace'
  BY <1>2, <1>3, CmdsAssumption DEF Rest, NoTrace, Fresh, Entering
<1>5. StatusTruthful'
  BY <1>2 DEF Rest, StatusTruthful
<1>6. ASSUME ~overlap' PROVE Solo' /\ FlagDown' /\ OnePlace'
  <2>1. /\ Solo /\ FlagDown /\ OnePlace
        /\ \A u \in Tasks \ {t} : At(u, "rest") /\ At(u, "rest")'
        /\ \A d \in Cmds : (Entering(d) <=> c = d) /\ ~Entering(d)'
        /\ task'[t].at = "rest"
    <3> HIDE DEF c
    <3>1. /\ Solo /\ FlagDown /\ OnePlace
          /\ \A u \in Tasks \ {t} : At(u, "rest") /\ At(u, "rest")'
          /\ \A d \in Cmds : (Entering(d) <=> task[t].cmd = d) /\ (Entering(d)' <=> None = d)
          /\ task'[t].at = "rest"
      BY <1>1, <1>2, <1>6, AloneThere
    <3> QED  BY <3>1, CmdsAssumption DEF c
  <2>2. ~ready /\ slot = c
    BY <1>2, <2>1 DEF FlagDown
  <2>3. Solo' /\ FlagDown'
    BY <2>1 DEF Solo, FlagDown, At
  <2>4. ~At("loop", "taken") /\ ~At("loop", "taken")'
    BY <1>2, <2>1, LoopThere DEF At
  <2>5. \A d \in Cmds : ~Waiting(d) /\ (Waiting(d)' <=> d = c)
    BY <1>2, <2>2, <2>4 DEF Waiting
  <2>6. OnePlace'
    <3> HIDE DEF c
    <3> QED  BY <1>2, <2>1, <2>5 DEF OnePlace, Unseen, Accounted, Fresh
  <2> QED  BY <2>3, <2>6
<1> QED  BY <1>4, <1>5, <1>6 DEF Rest, Undisturbed

LEMMA TakeRest ==
  ASSUME Typed, Typed', Rest, Take
  PROVE  Rest'
<1>1. TypeOK /\ "taken" \in Steps
  BY DEF Typed, Steps
<1>2. /\ At("loop", "rest") /\ ready /\ ready' = FALSE /\ GoTo("loop", "taken", None)
      /\ UNCHANGED <<slot, scene, running, status, log>>
  BY DEF Take
<1>3. task'["loop"].cmd = None /\ \A u \in Tasks \ {"loop"} : task'[u] = task[u]
  BY <1>1, <1>2, GoToType, LoopThere
<1>4. NoTrace'
  BY <1>2, <1>3, CmdsAssumption DEF Rest, NoTrace, Fresh, Entering
<1>5. StatusTruthful'
  BY <1>2 DEF Rest, StatusTruthful
<1>6. ASSUME ~overlap' PROVE Solo' /\ FlagDown' /\ OnePlace'
  <2>1. /\ Solo /\ FlagDown /\ OnePlace
        /\ \A u \in Tasks \ {"loop"} : At(u, "rest") /\ At(u, "rest")'
        /\ \A d \in Cmds : (Entering(d) <=> task["loop"].cmd = d) /\ ~Entering(d)'
        /\ task'["loop"].at = "taken"
    BY <1>1, <1>2, <1>6, AloneThere, LoopThere, CmdsAssumption
  <2>2. \A d \in Cmds : ~Entering(d)
    BY <1>1, <1>2, <2>1, LoopThere, CmdsAssumption DEF TypeOK, At
  <2>3. Solo' /\ FlagDown'
    BY <1>2, <2>1 DEF Solo, FlagDown, At
  <2>4. \A d \in Cmds : Waiting(d) <=> Waiting(d)'
    BY <1>2, <2>1 DEF Waiting, At
  <2>5. OnePlace'
    BY <1>2, <2>1, <2>2, <2>4 DEF OnePlace, Unseen, Accounted, Fresh
  <2> QED  BY <2>3, <2>5
<1> QED  BY <1>4, <1>5, <1>6 DEF Rest, Undisturbed

LEMMA ExecuteRest ==
  ASSUME Typed, Typed', Rest, Execute
  PROVE  Rest'
<1>1. /\ TypeOK /\ "rest" \in Steps /\ log \in [Cmds -> LogType] /\ running \in CmdOrNone
      /\ slot \in Cmds
  BY ExecuteEffect DEF Typed, TypeOK, Steps
<1>2. PICK cs \in SUBSET Cmds : Effect(slot, cs)
  BY ExecuteEffect
<1>3. At("loop", "taken") /\ GoTo("loop", "rest", None) /\ UNCHANGED <<slot, ready>>
  BY DEF Execute
<1>4. task'["loop"].cmd = None /\ \A u \in Tasks \ {"loop"} : task'[u] = task[u]
  BY <1>1, <1>3, GoToType, LoopThere
<1>5. \A d \in Cmds : log[d].acks \in Nat /\ log[d].runs \in Nat
  BY <1>1 DEF LogType
<1>6. \A d \in Cmds :
        /\ log'[d].from = log[d].from
        /\ log'[d].runs = IF d = slot THEN log[d].runs + 1 ELSE log[d].runs
        /\ log'[d].acks = IF d \in cs THEN log[d].acks + 1 ELSE log[d].acks
  BY <1>2 DEF Effect
<1>7. /\ \/ cs = {slot} /\ running' = running
         \/ cs = {} /\ running = None /\ running' = slot
         \/ cs = {slot, running} \ {None} /\ running' = None
      /\ status' = status \/ status'.corr \in cs
  BY <1>2 DEF Effect
<1>8. \A d \in Cmds : Fresh(d) => d # slot /\ d # running /\ d \notin cs
  BY <1>7 DEF Rest, NoTrace
<1>9. NoTrace'
  <2>1. ASSUME NEW d \in Cmds, Fresh(d)'
        PROVE  /\ log'[d].runs = 0 /\ log'[d].acks = 0
               /\ ~Entering(d)' /\ slot' # d /\ running' # d
    <3>1. /\ Fresh(d) /\ log[d].runs = 0 /\ log[d].acks = 0 /\ ~Entering(d)
      BY <1>6, <2>1 DEF Rest, NoTrace, Fresh
    <3>2. ~Entering(d)'
      BY <1>4, <3>1, CmdsAssumption DEF Entering
    <3> QED  BY <1>3, <1>6, <1>7, <1>8, <3>1, <3>2, CmdsAssumption
  <2> QED  BY <2>1 DEF NoTrace
<1>10. StatusTruthful'
  <2>1. \A d \in Cmds : log'[d].acks >= log[d].acks /\ (d \in cs => log'[d].acks > 0)
    BY <1>5, <1>6
  <2> QED  BY <1>7, <2>1, StatusKept DEF Rest
<1>11. ASSUME ~overlap' PROVE Solo' /\ FlagDown' /\ OnePlace'
  <2>1. /\ Solo /\ FlagDown /\ OnePlace
        /\ \A u \in Tasks \ {"loop"} : At(u, "rest") /\ At(u, "rest")'
        /\ \A d \in Cmds : (Entering(d) <=> task["loop"].cmd = d) /\ ~Entering(d)'
        /\ At("loop", "rest")'
    BY <1>1, <1>3, <1>11, AloneThere, LoopThere, CmdsAssumption DEF At
  <2>2. Solo' /\ FlagDown'
    BY <2>1 DEF Solo, FlagDown, At
  <2>3. ~ready /\ \A d \in Cmds : ~Entering(d)
    BY <1>1, <1>3, <2>1, LoopThere, CmdsAssumption DEF FlagDown, TypeOK, At
  <2>4. \A d \in Cmds : ~Waiting(d)' /\ (Waiting(d) <=> d = slot)
    BY <1>3, <2>1, <2>3 DEF Waiting, At
  <2>5. Unseen(slot)
    BY <1>1, <2>1, <2>4 DEF OnePlace
  <2>6. ASSUME NEW d \in Cmds
        PROVE  /\ running' = d => log'[d].acks = 0
               /\ log'[d].runs <= 1 /\ log'[d].acks <= 1
               /\ ~Fresh(d)' => Accounted(d)'
    <3>1. /\ running = d => log[d].acks = 0
          /\ log[d].runs <= 1 /\ log[d].acks <= 1
          /\ ~Fresh(d) => d = slot \/ running = d \/ log[d].acks > 0
      BY <2>1, <2>3, <2>4 DEF OnePlace, Accounted
    <3>2. d \in cs => log[d].acks = 0
      BY <1>7, <2>5, <3>1, CmdsAssumption DEF Unseen
    <3>3. /\ running' = d => log'[d].acks = 0
          /\ log'[d].runs <= 1 /\ log'[d].acks <= 1
      BY <1>5, <1>6, <1>7, <2>5, <3>1, <3>2, CmdsAssumption DEF Unseen
    <3>4. ~Fresh(d)' => running' = d \/ log'[d].acks > 0
      BY <1>1, <1>5, <1>6, <1>7, <3>1, CmdsAssumption DEF Fresh
    <3> QED  BY <3>3, <3>4 DEF Accounted
  <2>7. OnePlace'
    BY <2>1, <2>4, <2>6 DEF OnePlace
  <2> QED  BY <2>2, <2>7
<1> QED  BY <1>9, <1>10, <1>11 DEF Rest, Undisturbed

LEMMA CompleteRest ==
  ASSUME Typed, Typed', Rest, Complete
  PROVE  Rest'
<1>1. /\ running \in Cmds /\ running' = None
      /\ \A d \in Cmds :
           /\ log'[d].from = log[d].from /\ log'[d].runs = log[d].runs
           /\ log'[d].acks = IF d = running THEN log[d].acks + 1 ELSE log[d].acks
      /\ status' = status \/ status'.corr = running
      /\ UNCHANGED <<slot, ready, task, scene, overlap>>
  BY CompleteEffect
<1>2. \A d \in Cmds : log[d].acks \in Nat
  BY DEF Typed, TypeOK, LogType
<1>3. \A d \in Cmds : (Entering(d)' <=> Entering(d)) /\ (Waiting(d)' <=> Waiting(d))
  BY <1>1 DEF Entering, Waiting, At
<1>4. NoTrace'
  BY <1>1, <1>3, CmdsAssumption DEF Rest, NoTrace, Fresh
<1>5. StatusTruthful'
  <2>1. \A d \in Cmds : log'[d].acks >= log[d].acks
    BY <1>1, <1>2
  <2>2. log'[running].acks > 0
    BY <1>1, <1>2
  <2> QED  BY <1>1, <2>1, <2>2, StatusKept DEF Rest
<1>6. ASSUME ~overlap' PROVE Solo' /\ FlagDown' /\ OnePlace'
  <2>1. Solo /\ FlagDown /\ OnePlace
    BY <1>1, <1>6 DEF Rest, Undisturbed
  <2>2. Solo' /\ FlagDown'
    BY <1>1, <2>1 DEF Solo, FlagDown, At
  <2>3. ASSUME NEW d \in Cmds
        PROVE  /\ Entering(d)' => Unseen(d)' /\ ~Waiting(d)'
               /\ Waiting(d)' => Unseen(d)'
               /\ running' = d => log'[d].acks = 0
               /\ log'[d].runs <= 1 /\ log'[d].acks <= 1
               /\ ~Fresh(d)' => Accounted(d)'
    BY <1>1, <1>2, <1>3, <2>1, CmdsAssumption DEF OnePlace, Unseen, Accounted, Fresh
  <2> QED  BY <2>2, <2>3 DEF OnePlace
<1> QED  BY <1>4, <1>5, <1>6 DEF Rest, Undisturbed

LEMMA StillRest ==
  ASSUME Rest, SceneLost \/ UNCHANGED vars
  PROVE  Rest'
<1>1. UNCHANGED <<slot, ready, task, running, status, log, overlap>>
  BY DEF SceneLost, vars
<1>2. NoTrace' /\ StatusTruthful'
  BY <1>1 DEF Rest, NoTrace, StatusTruthful, Fresh, Entering
<1>3. Undisturbed'
  BY <1>1 DEF Rest, Undisturbed, Solo, FlagDown, OnePlace, Unseen, Entering, Waiting,
     Accounted, Fresh, At
<1> QED  BY <1>2, <1>3 DEF Rest

LEMMA NextRest == Typed /\ Typed' /\ Rest /\ [Next]_vars => Rest'
BY ReceiveRest, TestSlotRest, CopyRest, RaiseRest, TakeRest, ExecuteRest, CompleteRest,
   StillRest DEF Next, Enqueue

(* As long as the tasks have not met in the queue every command is accounted
   for, executed and answered at most once; and what the operator page is told
   is true whether they have met or not (command_handler.cpp,
   local_command_status.cpp). *)
THEOREM CommandsAreKept == Spec => []CommandsKept
<1>1. Typed /\ Rest => CommandsKept
  BY DEF Rest, Undisturbed, OnePlace, CommandsKept, NothingLost, OneAnswer
<1> QED  BY <1>1, InitTyped, InitRest, NextTyped, NextRest, PTL DEF Spec

(* Whatever happened to the scene while the command waited, a motion of the
   hub starts within one only (handleExecuteCommand). *)
THEOREM HubMotionsNeedScene == Spec => HubMotionNeedsScene
<1> DEFINE Gate == \A c \in Cmds : running # c /\ running' = c /\ log[c].from = "hub" => scene
<1>1. ASSUME [Next]_vars, NEW c \in Cmds, running # c, running' = c, log[c].from = "hub"
      PROVE  scene
  <2>1. ~UNCHANGED running /\ running' # None
    BY <1>1, CmdsAssumption
  <2>2. Execute
    BY <1>1, <2>1 DEF Next, vars, HubReceive, LocalPost, Enqueue, TestSlot, CopyCommand,
       RaiseFlag, Take, Complete, SceneLost
  <2>3. Start(slot) /\ running' = slot
    BY <2>1, <2>2 DEF Execute, Reject, Answer, Start, Abort, SetScene
  <2> QED  BY <1>1, <2>3 DEF Start, Closed
<1>2. [Next]_vars => [Gate]_vars
  BY <1>1
<1> QED  BY <1>2, PTL DEF Spec, HubMotionNeedsScene
=============================================================================
