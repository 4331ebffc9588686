------------------------- MODULE LocalOperateProofs -------------------------
(***************************************************************************)
(* Proofs about LocalOperate: what the two tasks preserve while their      *)
(* operations do not overlap, and what an operation that runs alone        *)
(* achieves whatever an earlier overlap left behind.                       *)
(***************************************************************************)
EXTENDS LocalOperate, TLAPS

(* While no two operations have overlapped at most one is running; one that
   is running alone has the other task at rest beside it. *)
OneAtATime == \A t \in Tasks :
  /\ Undisturbed /\ ~AtRest(t) => OthersRest(t)
  /\ alone[t] => OthersRest(t)

Switching(r) == r.at \in Switches

(* What a locking or releasing task that is alone has achieved so far. *)
AchievedBy(t) ==
  /\ task[t].op \in {"lock", "release"} /\ Switching(task[t]) => ~task[t].on
  /\ alone[t] /\ task[t].op = "lock" =>
       /\ task[t].at # "token" => session # "open"
       /\ task[t].at = "dark" => ~subReady
       /\ Switching(task[t]) => ~subReady /\ ~scene
  /\ alone[t] /\ task[t].at = "drive" => enabled = task[t].on
Achieved == \A t \in Tasks : AchievedBy(t)

(* The rules, at every step r of the only operation that is running. *)
Ready(r) == scene => subReady \/ (r.op \in {"unlock", "lock"} /\ r.at = "dark")
Driven(r) == IF r.at = "drive" THEN enabled = r.on ELSE pin = enabled
Covered(r) ==
  /\ r.op = "unlock" => ~enabled
  /\ enabled => scene \/ (r.op \in {"scene", "lock"} /\ Switching(r))
Intended(r) ==
  /\ r.at = "sceneSet" /\ r.on => subReady
  /\ r.op \in {"scene", "lock"} /\ Switching(r) => ~scene /\ ~r.on
  /\ r.op = "accessory" /\ Switching(r) /\ r.on => scene
  /\ r.op = "release" => ~r.on

RuleFor(r) == Ready(r) /\ Driven(r) /\ Intended(r) /\ (past = {} => Covered(r))
Rules == Undisturbed => \A t \in Tasks : OthersRest(t) => RuleFor(task[t])

Inv == TypeOK /\ OneAtATime /\ Achieved /\ Rules

LEMMA InitInv == Init => Inv
<1> SUFFICES ASSUME Init PROVE Inv
  OBVIOUS
<1> USE DEF Init, Tasks, Resting, AtRest, OthersRest, Others
<1>1. TypeOK
  <2>1. Resting \in TaskType /\ AtAStep(Resting)
    BY DEF TaskType, Ops, Steps, AtAStep
  <2> QED  BY <2>1 DEF TypeOK, Marks
<1>2. OneAtATime /\ Achieved
  BY DEF OneAtATime, Achieved, AchievedBy, Undisturbed, Switching, Switches
<1>3. Rules
  BY DEF Rules, RuleFor, Ready, Driven, Intended, Covered, Switching, Switches
<1> QED  BY <1>1, <1>2, <1>3 DEF Inv

-----------------------------------------------------------------------------
(* The ways a step moves the task that takes it. *)
Untouched(t) == \A u \in Others(t) : task'[u] = task[u]
Moved(t, op, at, on) ==
  task'[t].op = op /\ task'[t].at = at /\ task'[t].on = on /\ Untouched(t)

LEMMA GoToMoves ==
  ASSUME TypeOK, NEW t \in Tasks, NEW at \in Steps, GoTo(t, at),
         AtAStep([op |-> task[t].op, at |-> at, on |-> task[t].on])
  PROVE  Moved(t, task[t].op, at, task[t].on)
         /\ task' \in [Tasks -> TaskType] /\ \A u \in Tasks : AtAStep(task'[u])
BY DEF TypeOK, TaskType, GoTo, Moved, Untouched, Others, AtAStep

LEMMA TurnOffMoves ==
  ASSUME TypeOK, NEW t \in Tasks, task[t].op \in {"lock", "scene"}, TurnOff(t)
  PROVE  Moved(t, task[t].op, "enableTest", FALSE)
         /\ task' \in [Tasks -> TaskType] /\ \A u \in Tasks : AtAStep(task'[u])
<1> DEFINE r == [op |-> task[t].op, at |-> "enableTest", on |-> FALSE]
<1>1. r \in TaskType /\ AtAStep(r)
  BY DEF TaskType, Ops, Steps, AtAStep, Switches
<1> QED  BY <1>1 DEF TypeOK, TurnOff, Moved, Untouched, Others

LEMMA ReturnMoves ==
  ASSUME TypeOK, NEW t \in Tasks, Return(t)
  PROVE  Moved(t, "none", "rest", FALSE) /\ task'[t] = Resting
         /\ task' \in [Tasks -> TaskType] /\ \A u \in Tasks : AtAStep(task'[u])
<1>1. Resting \in TaskType /\ AtAStep(Resting)
  BY DEF TaskType, Ops, Steps, AtAStep, Resting
<1> QED  BY <1>1 DEF TypeOK, Return, Moved, Untouched, Others, Resting

-----------------------------------------------------------------------------
(* A step inside an operation: the other task is not running alone, and the
   rules need to be looked at for the task that moves only. *)
LEMMA RunnerRule ==
  ASSUME Inv, NEW t \in Tasks, ~AtRest(t), Undisturbed
  PROVE  RuleFor(task[t])
BY DEF Inv, OneAtATime, Rules

LEMMA Mover ==
  ASSUME Inv, NEW t \in Tasks, ~AtRest(t), Untouched(t), Kept,
         Undisturbed => RuleFor(task[t])', AchievedBy(t)'
  PROVE  OneAtATime' /\ Achieved' /\ Rules'
<1>1. /\ \A u \in Others(t) : ~alone'[u] /\ task'[u] = task[u]
      /\ alone'[t] = alone[t] /\ past' = past /\ (Undisturbed' <=> Undisturbed)
  BY DEF Inv, OneAtATime, Kept, Untouched, Others, OthersRest, Undisturbed
<1>2. OthersRest(t) => OthersRest(t)'
  BY <1>1 DEF OthersRest, AtRest
<1>3. OneAtATime'
  <2>1. Undisturbed => \A u \in Others(t) : AtRest(u)'
    BY <1>1 DEF Inv, OneAtATime, OthersRest, AtRest
  <2> QED  BY <1>1, <1>2, <2>1 DEF Inv, OneAtATime, Others
<1>4. Achieved'
  BY <1>1 DEF Inv, Achieved, AchievedBy, Others, Switching
<1>5. Rules'
  <2> SUFFICES ASSUME Undisturbed, NEW u \in Tasks, OthersRest(u)'
               PROVE  RuleFor(task[u])'
    BY <1>1 DEF Rules
  <2>1. CASE u = t
    BY <2>1
  <2>2. CASE u # t
    <3>1. task'[t] = Resting /\ task'[u] = Resting
      BY <1>1, <2>2 DEF Inv, OneAtATime, OthersRest, AtRest, Others
    <3> QED  BY <3>1 DEF RuleFor, Ready, Driven, Intended, Covered
  <2> QED  BY <2>1, <2>2
<1> QED  BY <1>3, <1>4, <1>5

LEMMA WriteTokenInv == ASSUME Inv, NEW t \in Tasks, WriteToken(t) PROVE Inv'
<1> DEFINE op == task[t].op
           on == task[t].on
<1>1. /\ TypeOK /\ ~AtRest(t) /\ Kept /\ AtAStep(task[t]) /\ on \in BOOLEAN
      /\ op \in {"unlock", "lock"} /\ task[t].at = "token"
  BY DEF Inv, TypeOK, TaskType, WriteToken, At, AtRest, Resting
<1>2. (Undisturbed => RuleFor(task[t])) /\ AchievedBy(t)
  BY <1>1, RunnerRule DEF Inv, Achieved
<1>3. alone' = alone /\ past' = past /\ (Undisturbed' <=> Undisturbed) /\ hub' = hub
  BY <1>1 DEF Kept, Undisturbed
<1>4. Inv'
  <2>1. /\ Moved(t, op, "ready", on)
        /\ task' \in [Tasks -> TaskType] /\ \A u \in Tasks : AtAStep(task'[u])
    BY <1>1, GoToMoves DEF WriteToken, AtAStep, Switches, Steps
  <2>2. TypeOK'
    BY <1>1, <1>3, <2>1 DEF WriteToken, TypeOK
  <2>3. Undisturbed => RuleFor(task[t])'
    BY <1>1, <1>2, <1>3, <2>1 DEF WriteToken, Moved, AtAStep, TypeOK,
       RuleFor, Ready, Driven, Intended, Covered, Switching, Switches
  <2>4. AchievedBy(t)'
    BY <1>1, <1>2, <1>3, <2>1 DEF WriteToken, Moved, AtAStep, TypeOK, AchievedBy,
       Switching, Switches
  <2> QED  BY <1>1, <2>1, <2>2, <2>3, <2>4, Mover DEF Inv, Moved
<1> QED  BY <1>4

LEMMA ClearReadyInv == ASSUME Inv, NEW t \in Tasks, ClearReady(t) PROVE Inv'
<1> DEFINE op == task[t].op
           on == task[t].on
<1>1. /\ TypeOK /\ ~AtRest(t) /\ Kept /\ AtAStep(task[t]) /\ on \in BOOLEAN
      /\ op \in {"unlock", "lock"} /\ task[t].at = "ready"
  BY DEF Inv, TypeOK, TaskType, ClearReady, At, AtRest, Resting
<1>2. (Undisturbed => RuleFor(task[t])) /\ AchievedBy(t)
  BY <1>1, RunnerRule DEF Inv, Achieved
<1>3. alone' = alone /\ past' = past /\ (Undisturbed' <=> Undisturbed) /\ hub' = hub
  BY <1>1 DEF Kept, Undisturbed
<1>4. Inv'
  <2>1. /\ Moved(t, op, "dark", on)
        /\ task' \in [Tasks -> TaskType] /\ \A u \in Tasks : AtAStep(task'[u])
    BY <1>1, GoToMoves DEF ClearReady, AtAStep, Switches, Steps
  <2>2. TypeOK'
    BY <1>1, <1>3, <2>1 DEF ClearReady, TypeOK
  <2>3. Undisturbed => RuleFor(task[t])'
    BY <1>1, <1>2, <1>3, <2>1 DEF ClearReady, Moved, AtAStep, TypeOK,
       RuleFor, Ready, Driven, Intended, Covered, Switching, Switches
  <2>4. AchievedBy(t)'
    BY <1>1, <1>2, <1>3, <2>1 DEF ClearReady, Moved, AtAStep, TypeOK, AchievedBy,
       Switching, Switches
  <2> QED  BY <1>1, <2>1, <2>2, <2>3, <2>4, Mover DEF Inv, Moved
<1> QED  BY <1>4

LEMMA ClearSceneInv == ASSUME Inv, NEW t \in Tasks, ClearScene(t) PROVE Inv'
<1> DEFINE op == task[t].op
           on == task[t].on
<1>1. /\ TypeOK /\ ~AtRest(t) /\ Kept /\ AtAStep(task[t]) /\ on \in BOOLEAN
      /\ op \in {"unlock", "lock"} /\ task[t].at = "dark"
  BY DEF Inv, TypeOK, TaskType, ClearScene, At, AtRest, Resting
<1>2. (Undisturbed => RuleFor(task[t])) /\ AchievedBy(t)
  BY <1>1, RunnerRule DEF Inv, Achieved
<1>3. alone' = alone /\ past' = past /\ (Undisturbed' <=> Undisturbed) /\ hub' = hub
  BY <1>1 DEF Kept, Undisturbed
<1>4. CASE op = "lock"
  <2>1. /\ Moved(t, op, "enableTest", FALSE)
        /\ task' \in [Tasks -> TaskType] /\ \A u \in Tasks : AtAStep(task'[u])
    BY <1>4, <1>1, TurnOffMoves DEF ClearScene, AtAStep, Switches, Steps
  <2>2. TypeOK'
    BY <1>1, <1>3, <2>1 DEF ClearScene, TypeOK
  <2>3. Undisturbed => RuleFor(task[t])'
    BY <1>4, <1>1, <1>2, <1>3, <2>1 DEF ClearScene, Moved, AtAStep, TypeOK,
       RuleFor, Ready, Driven, Intended, Covered, Switching, Switches
  <2>4. AchievedBy(t)'
    BY <1>4, <1>1, <1>2, <1>3, <2>1 DEF ClearScene, Moved, AtAStep, TypeOK, AchievedBy,
       Switching, Switches
  <2> QED  BY <1>1, <2>1, <2>2, <2>3, <2>4, Mover DEF Inv, Moved
<1>5. CASE op # "lock"
  <2>1. /\ Moved(t, "none", "rest", FALSE)
        /\ task' \in [Tasks -> TaskType] /\ \A u \in Tasks : AtAStep(task'[u])
    BY <1>5, <1>1, ReturnMoves DEF ClearScene, AtAStep, Switches, Steps
  <2>2. TypeOK'
    BY <1>1, <1>3, <2>1 DEF ClearScene, TypeOK
  <2>3. Undisturbed => RuleFor(task[t])'
    BY <1>5, <1>1, <1>2, <1>3, <2>1 DEF ClearScene, Moved, AtAStep, TypeOK,
       RuleFor, Ready, Driven, Intended, Covered, Switching, Switches
  <2>4. AchievedBy(t)'
    BY <1>5, <1>1, <1>2, <1>3, <2>1 DEF ClearScene, Moved, AtAStep, TypeOK, AchievedBy,
       Switching, Switches
  <2> QED  BY <1>1, <2>1, <2>2, <2>3, <2>4, Mover DEF Inv, Moved
<1> QED  BY <1>4, <1>5

LEMMA TestSceneInv == ASSUME Inv, NEW t \in Tasks, TestScene(t) PROVE Inv'
<1> DEFINE op == task[t].op
           on == task[t].on
<1>1. /\ TypeOK /\ ~AtRest(t) /\ Kept /\ AtAStep(task[t]) /\ on \in BOOLEAN
      /\ op \in {"scene"} /\ task[t].at = "sceneTest"
  BY DEF Inv, TypeOK, TaskType, TestScene, At, AtRest, Resting
<1>2. (Undisturbed => RuleFor(task[t])) /\ AchievedBy(t)
  BY <1>1, RunnerRule DEF Inv, Achieved
<1>3. alone' = alone /\ past' = past /\ (Undisturbed' <=> Undisturbed) /\ hub' = hub
  BY <1>1 DEF Kept, Undisturbed
<1>4. CASE (on /\ ~subReady) \/ scene = on
  <2>1. /\ Moved(t, "none", "rest", FALSE)
        /\ task' \in [Tasks -> TaskType] /\ \A u \in Tasks : AtAStep(task'[u])
    BY <1>4, <1>1, ReturnMoves DEF TestScene, AtAStep, Switches, Steps
  <2>2. TypeOK'
    BY <1>1, <1>3, <2>1 DEF TestScene, TypeOK, state
  <2>3. Undisturbed => RuleFor(task[t])'
    BY <1>4, <1>1, <1>2, <1>3, <2>1 DEF TestScene, Moved, AtAStep, TypeOK, state,
       RuleFor, Ready, Driven, Intended, Covered, Switching, Switches
  <2>4. AchievedBy(t)'
    BY <1>4, <1>1, <1>2, <1>3, <2>1 DEF TestScene, Moved, AtAStep, TypeOK, AchievedBy, state,
       Switching, Switches
  <2> QED  BY <1>1, <2>1, <2>2, <2>3, <2>4, Mover DEF Inv, Moved
<1>5. CASE ~((on /\ ~subReady) \/ scene = on)
  <2>1. /\ Moved(t, op, "sceneSet", on)
        /\ task' \in [Tasks -> TaskType] /\ \A u \in Tasks : AtAStep(task'[u])
    BY <1>5, <1>1, GoToMoves DEF TestScene, AtAStep, Switches, Steps
  <2>2. TypeOK'
    BY <1>1, <1>3, <2>1 DEF TestScene, TypeOK, state
  <2>3. Undisturbed => RuleFor(task[t])'
    BY <1>5, <1>1, <1>2, <1>3, <2>1 DEF TestScene, Moved, AtAStep, TypeOK, state,
       RuleFor, Ready, Driven, Intended, Covered, Switching, Switches
  <2>4. AchievedBy(t)'
    BY <1>5, <1>1, <1>2, <1>3, <2>1 DEF TestScene, Moved, AtAStep, TypeOK, AchievedBy, state,
       Switching, Switches
  <2> QED  BY <1>1, <2>1, <2>2, <2>3, <2>4, Mover DEF Inv, Moved
<1> QED  BY <1>4, <1>5

LEMMA SetSceneInv == ASSUME Inv, NEW t \in Tasks, SetScene(t) PROVE Inv'
<1> DEFINE op == task[t].op
           on == task[t].on
<1>1. /\ TypeOK /\ ~AtRest(t) /\ Kept /\ AtAStep(task[t]) /\ on \in BOOLEAN
      /\ op \in {"scene"} /\ task[t].at = "sceneSet"
  BY DEF Inv, TypeOK, TaskType, SetScene, At, AtRest, Resting
<1>2. (Undisturbed => RuleFor(task[t])) /\ AchievedBy(t)
  BY <1>1, RunnerRule DEF Inv, Achieved
<1>3. alone' = alone /\ past' = past /\ (Undisturbed' <=> Undisturbed) /\ hub' = hub
  BY <1>1 DEF Kept, Undisturbed
<1>4. CASE on
  <2>1. /\ Moved(t, "none", "rest", FALSE)
        /\ task' \in [Tasks -> TaskType] /\ \A u \in Tasks : AtAStep(task'[u])
    BY <1>4, <1>1, ReturnMoves DEF SetScene, AtAStep, Switches, Steps
  <2>2. TypeOK'
    BY <1>1, <1>3, <2>1 DEF SetScene, TypeOK
  <2>3. Undisturbed => RuleFor(task[t])'
    BY <1>4, <1>1, <1>2, <1>3, <2>1 DEF SetScene, Moved, AtAStep, TypeOK,
       RuleFor, Ready, Driven, Intended, Covered, Switching, Switches
  <2>4. AchievedBy(t)'
    BY <1>4, <1>1, <1>2, <1>3, <2>1 DEF SetScene, Moved, AtAStep, TypeOK, AchievedBy,
       Switching, Switches
  <2> QED  BY <1>1, <2>1, <2>2, <2>3, <2>4, Mover DEF Inv, Moved
<1>5. CASE ~on
  <2>1. /\ Moved(t, op, "enableTest", FALSE)
        /\ task' \in [Tasks -> TaskType] /\ \A u \in Tasks : AtAStep(task'[u])
    BY <1>5, <1>1, TurnOffMoves DEF SetScene, AtAStep, Switches, Steps
  <2>2. TypeOK'
    BY <1>1, <1>3, <2>1 DEF SetScene, TypeOK
  <2>3. Undisturbed => RuleFor(task[t])'
    BY <1>5, <1>1, <1>2, <1>3, <2>1 DEF SetScene, Moved, AtAStep, TypeOK,
       RuleFor, Ready, Driven, Intended, Covered, Switching, Switches
  <2>4. AchievedBy(t)'
    BY <1>5, <1>1, <1>2, <1>3, <2>1 DEF SetScene, Moved, AtAStep, TypeOK, AchievedBy,
       Switching, Switches
  <2> QED  BY <1>1, <2>1, <2>2, <2>3, <2>4, Mover DEF Inv, Moved
<1> QED  BY <1>4, <1>5

LEMMA TestAccessoryInv == ASSUME Inv, NEW t \in Tasks, TestAccessory(t) PROVE Inv'
<1> DEFINE op == task[t].op
           on == task[t].on
<1>1. /\ TypeOK /\ ~AtRest(t) /\ Kept /\ AtAStep(task[t]) /\ on \in BOOLEAN
      /\ op \in {"accessory"} /\ task[t].at = "accessoryTest"
  BY DEF Inv, TypeOK, TaskType, TestAccessory, At, AtRest, Resting
<1>2. (Undisturbed => RuleFor(task[t])) /\ AchievedBy(t)
  BY <1>1, RunnerRule DEF Inv, Achieved
<1>3. alone' = alone /\ past' = past /\ (Undisturbed' <=> Undisturbed) /\ hub' = hub
  BY <1>1 DEF Kept, Undisturbed
<1>4. CASE on /\ ~scene
  <2>1. /\ Moved(t, "none", "rest", FALSE)
        /\ task' \in [Tasks -> TaskType] /\ \A u \in Tasks : AtAStep(task'[u])
    BY <1>4, <1>1, ReturnMoves DEF TestAccessory, AtAStep, Switches, Steps
  <2>2. TypeOK'
    BY <1>1, <1>3, <2>1 DEF TestAccessory, TypeOK, state
  <2>3. Undisturbed => RuleFor(task[t])'
    BY <1>4, <1>1, <1>2, <1>3, <2>1 DEF TestAccessory, Moved, AtAStep, TypeOK, state,
       RuleFor, Ready, Driven, Intended, Covered, Switching, Switches
  <2>4. AchievedBy(t)'
    BY <1>4, <1>1, <1>2, <1>3, <2>1 DEF TestAccessory, Moved, AtAStep, TypeOK, AchievedBy, state,
       Switching, Switches
  <2> QED  BY <1>1, <2>1, <2>2, <2>3, <2>4, Mover DEF Inv, Moved
<1>5. CASE ~(on /\ ~scene)
  <2>1. /\ Moved(t, op, "enableTest", on)
        /\ task' \in [Tasks -> TaskType] /\ \A u \in Tasks : AtAStep(task'[u])
    BY <1>5, <1>1, GoToMoves DEF TestAccessory, AtAStep, Switches, Steps
  <2>2. TypeOK'
    BY <1>1, <1>3, <2>1 DEF TestAccessory, TypeOK, state
  <2>3. Undisturbed => RuleFor(task[t])'
    BY <1>5, <1>1, <1>2, <1>3, <2>1 DEF TestAccessory, Moved, AtAStep, TypeOK, state,
       RuleFor, Ready, Driven, Intended, Covered, Switching, Switches
  <2>4. AchievedBy(t)'
    BY <1>5, <1>1, <1>2, <1>3, <2>1 DEF TestAccessory, Moved, AtAStep, TypeOK, AchievedBy, state,
       Switching, Switches
  <2> QED  BY <1>1, <2>1, <2>2, <2>3, <2>4, Mover DEF Inv, Moved
<1> QED  BY <1>4, <1>5

LEMMA TestEnabledInv == ASSUME Inv, NEW t \in Tasks, TestEnabled(t) PROVE Inv'
<1> DEFINE op == task[t].op
           on == task[t].on
<1>1. /\ TypeOK /\ ~AtRest(t) /\ Kept /\ AtAStep(task[t]) /\ on \in BOOLEAN
      /\ op \in Ops /\ task[t].at = "enableTest"
  BY DEF Inv, TypeOK, TaskType, TestEnabled, At, AtRest, Resting
<1>2. (Undisturbed => RuleFor(task[t])) /\ AchievedBy(t)
  BY <1>1, RunnerRule DEF Inv, Achieved
<1>3. alone' = alone /\ past' = past /\ (Undisturbed' <=> Undisturbed) /\ hub' = hub
  BY <1>1 DEF Kept, Undisturbed
<1>4. CASE enabled = on
  <2>1. /\ Moved(t, "none", "rest", FALSE)
        /\ task' \in [Tasks -> TaskType] /\ \A u \in Tasks : AtAStep(task'[u])
    BY <1>4, <1>1, ReturnMoves DEF TestEnabled, AtAStep, Switches, Steps
  <2>2. TypeOK'
    BY <1>1, <1>3, <2>1 DEF TestEnabled, TypeOK, state
  <2>3. Undisturbed => RuleFor(task[t])'
    BY <1>4, <1>1, <1>2, <1>3, <2>1 DEF TestEnabled, Moved, AtAStep, TypeOK, state,
       RuleFor, Ready, Driven, Intended, Covered, Switching, Switches
  <2>4. AchievedBy(t)'
    BY <1>4, <1>1, <1>2, <1>3, <2>1 DEF TestEnabled, Moved, AtAStep, TypeOK, AchievedBy, state,
       Switching, Switches
  <2> QED  BY <1>1, <2>1, <2>2, <2>3, <2>4, Mover DEF Inv, Moved
<1>5. CASE enabled # on
  <2>1. /\ Moved(t, op, "enable", on)
        /\ task' \in [Tasks -> TaskType] /\ \A u \in Tasks : AtAStep(task'[u])
    BY <1>5, <1>1, GoToMoves DEF TestEnabled, AtAStep, Switches, Steps
  <2>2. TypeOK'
    BY <1>1, <1>3, <2>1 DEF TestEnabled, TypeOK, state
  <2>3. Undisturbed => RuleFor(task[t])'
    BY <1>5, <1>1, <1>2, <1>3, <2>1 DEF TestEnabled, Moved, AtAStep, TypeOK, state,
       RuleFor, Ready, Driven, Intended, Covered, Switching, Switches
  <2>4. AchievedBy(t)'
    BY <1>5, <1>1, <1>2, <1>3, <2>1 DEF TestEnabled, Moved, AtAStep, TypeOK, AchievedBy, state,
       Switching, Switches
  <2> QED  BY <1>1, <2>1, <2>2, <2>3, <2>4, Mover DEF Inv, Moved
<1> QED  BY <1>4, <1>5

LEMMA SetEnabledInv == ASSUME Inv, NEW t \in Tasks, SetEnabled(t) PROVE Inv'
<1> DEFINE op == task[t].op
           on == task[t].on
<1>1. /\ TypeOK /\ ~AtRest(t) /\ Kept /\ AtAStep(task[t]) /\ on \in BOOLEAN
      /\ op \in Ops /\ task[t].at = "enable"
  BY DEF Inv, TypeOK, TaskType, SetEnabled, At, AtRest, Resting
<1>2. (Undisturbed => RuleFor(task[t])) /\ AchievedBy(t)
  BY <1>1, RunnerRule DEF Inv, Achieved
<1>3. alone' = alone /\ past' = past /\ (Undisturbed' <=> Undisturbed) /\ hub' = hub
  BY <1>1 DEF Kept, Undisturbed
<1>4. Inv'
  <2>1. /\ Moved(t, op, "drive", on)
        /\ task' \in [Tasks -> TaskType] /\ \A u \in Tasks : AtAStep(task'[u])
    BY <1>1, GoToMoves DEF SetEnabled, AtAStep, Switches, Steps
  <2>2. TypeOK'
    BY <1>1, <1>3, <2>1 DEF SetEnabled, TypeOK
  <2>3. Undisturbed => RuleFor(task[t])'
    BY <1>1, <1>2, <1>3, <2>1 DEF SetEnabled, Moved, AtAStep, TypeOK,
       RuleFor, Ready, Driven, Intended, Covered, Switching, Switches
  <2>4. AchievedBy(t)'
    BY <1>1, <1>2, <1>3, <2>1 DEF SetEnabled, Moved, AtAStep, TypeOK, AchievedBy,
       Switching, Switches
  <2> QED  BY <1>1, <2>1, <2>2, <2>3, <2>4, Mover DEF Inv, Moved
<1> QED  BY <1>4

LEMMA WritePinInv == ASSUME Inv, NEW t \in Tasks, WritePin(t) PROVE Inv'
<1> DEFINE op == task[t].op
           on == task[t].on
<1>1. /\ TypeOK /\ ~AtRest(t) /\ Kept /\ AtAStep(task[t]) /\ on \in BOOLEAN
      /\ op \in Ops /\ task[t].at = "drive"
  BY DEF Inv, TypeOK, TaskType, WritePin, At, AtRest, Resting
<1>2. (Undisturbed => RuleFor(task[t])) /\ AchievedBy(t)
  BY <1>1, RunnerRule DEF Inv, Achieved
<1>3. alone' = alone /\ past' = past /\ (Undisturbed' <=> Undisturbed) /\ hub' = hub
  BY <1>1 DEF Kept, Undisturbed
<1>4. Inv'
  <2>1. /\ Moved(t, "none", "rest", FALSE)
        /\ task' \in [Tasks -> TaskType] /\ \A u \in Tasks : AtAStep(task'[u])
    BY <1>1, ReturnMoves DEF WritePin, AtAStep, Switches, Steps
  <2>2. TypeOK'
    BY <1>1, <1>3, <2>1 DEF WritePin, TypeOK
  <2>3. Undisturbed => RuleFor(task[t])'
    BY <1>1, <1>2, <1>3, <2>1 DEF WritePin, Moved, AtAStep, TypeOK,
       RuleFor, Ready, Driven, Intended, Covered, Switching, Switches
  <2>4. AchievedBy(t)'
    BY <1>1, <1>2, <1>3, <2>1 DEF WritePin, Moved, AtAStep, TypeOK, AchievedBy,
       Switching, Switches
  <2> QED  BY <1>1, <2>1, <2>2, <2>3, <2>4, Mover DEF Inv, Moved
<1> QED  BY <1>4

-----------------------------------------------------------------------------
(* The first step of an operation, which is none of those that switch the
   accessory on. *)
Entry(op, at, on) ==
  /\ AtAStep([op |-> op, at |-> at, on |-> on]) /\ op \in Ops \ {"none"}
  /\ \/ at \in {"token", "sceneTest", "accessoryTest"}
     \/ op = "release" /\ at = "enableTest" /\ ~on

LEMMA BeginInv ==
  ASSUME Inv, NEW t \in Tasks, NEW op, NEW at, NEW on \in BOOLEAN,
         Entry(op, at, on), Begin(t, op, at, on)
  PROVE  Inv'
<1> DEFINE r == [op |-> op, at |-> at, on |-> on]
<1>1. r \in TaskType /\ AtAStep(r) /\ r # Resting /\ r.op = op /\ r.at = at /\ r.on = on
  BY DEF Entry, TaskType, Steps, Switches, Resting
<1>2. /\ TypeOK /\ AtRest(t) /\ task' = [task EXCEPT ![t] = r]
      /\ alone' = [u \in Tasks |-> u = t /\ OthersRest(t)]
      /\ past' = past \cup Happening(t, op)
      /\ UNCHANGED <<session, subReady, scene, enabled, pin, hub>>
  BY DEF Inv, Begin
<1>3. task'[t] = r /\ \A u \in Others(t) : task'[u] = task[u]
  BY <1>2 DEF TypeOK, Others
<1>4. OthersRest(t)' <=> OthersRest(t)
  BY <1>3 DEF OthersRest, AtRest
<1>5. TypeOK'
  <2>1. Happening(t, op) \subseteq Marks
    BY DEF Happening
  <2>2. \A u \in Tasks : (u = t /\ OthersRest(t)) \in BOOLEAN
    OBVIOUS
  <2>3. past' \subseteq Marks /\ alone' \in [Tasks -> BOOLEAN]
    BY <1>2, <2>1, <2>2 DEF TypeOK
  <2>4. task' \in [Tasks -> TaskType] /\ \A u \in Tasks : AtAStep(task'[u])
    BY <1>1, <1>2 DEF TypeOK
  <2> QED  BY <1>2, <2>3, <2>4 DEF TypeOK
<1>6. Undisturbed' => Undisturbed /\ OthersRest(t)
  BY <1>2 DEF Undisturbed, Happening, Marks
<1>7. OneAtATime'
  <2>1. \A u \in Others(t) : ~alone'[u]
    BY <1>2 DEF Others
  <2>2. Undisturbed' => \A u \in Others(t) : AtRest(u)'
    BY <1>3, <1>6 DEF OthersRest, AtRest
  <2>3. alone'[t] => OthersRest(t)
    BY <1>2
  <2> QED  BY <1>4, <1>6, <2>1, <2>2, <2>3 DEF OneAtATime, Others
<1>8. Achieved'
  <2>1. AchievedBy(t)'
    BY <1>1, <1>3 DEF AchievedBy, Entry, Switching, Switches, AtAStep
  <2>2. ASSUME NEW u \in Others(t) PROVE AchievedBy(u)'
    BY <1>2, <1>3, <2>2 DEF AchievedBy, Others, Switching, Inv, Achieved
  <2> QED  BY <2>1, <2>2 DEF Achieved, Others
<1>9. Rules'
  <2> SUFFICES ASSUME Undisturbed', NEW u \in Tasks, OthersRest(u)'
               PROVE  RuleFor(task[u])'
    BY DEF Rules
  <2>1. u = t
    <3>1. task'[t] # Resting
      BY <1>1, <1>3
    <3> QED  BY <3>1 DEF OthersRest, Others, AtRest
  <2>2. RuleFor(Resting)
    BY <1>2, <1>6 DEF Inv, Rules, AtRest
  <2>3. past' = {} => past = {} /\ (op = "unlock" => ~enabled)
    BY <1>2 DEF Happening, Marks
  <2>4. Ready(r)' /\ Driven(r)' /\ Intended(r)' /\ (past' = {} => Covered(r)')
    BY <1>1, <1>2, <2>2, <2>3 DEF RuleFor, Ready, Driven, Intended, Covered,
       Switching, Switches, Entry, AtAStep, Resting
  <2> QED  BY <1>3, <2>1, <2>4 DEF RuleFor, Ready, Driven, Intended, Covered, Switching
<1> QED  BY <1>5, <1>7, <1>8, <1>9 DEF Inv

LEMMA RequestInv == ASSUME Inv, HttpRequest \/ HubScene \/ HubAccessory \/ WifiLost \/ TransportLost
                    PROVE  Inv'
<1>1. /\ Entry("unlock", "token", FALSE) /\ Entry("lock", "token", FALSE)
      /\ \A on \in BOOLEAN : Entry("scene", "sceneTest", on)
      /\ \A on \in BOOLEAN : Entry("accessory", "accessoryTest", on)
      /\ Entry("release", "enableTest", FALSE)
  BY DEF Entry, AtAStep, Ops, Switches
<1> QED  BY <1>1, BeginInv DEF HttpRequest, Unlock, Lock, Scene, Accessory, Disarm,
            HubScene, HubAccessory, WifiLost, TransportLost, Tasks

LEMMA ButtonInv == ASSUME Inv, Button PROVE Inv'
<1>1. /\ AtRest("loop") /\ subReady' = TRUE
      /\ alone' = [u \in Tasks |-> FALSE] /\ past' = past \cup Happening("loop", "none")
      /\ UNCHANGED <<session, scene, enabled, pin, hub, task>>
  BY DEF Button
<1>2. past' \subseteq Marks /\ alone' \in [Tasks -> BOOLEAN] /\ \A u \in Tasks : ~alone'[u]
  BY <1>1 DEF Inv, TypeOK, Happening
<1>3. TypeOK'
  BY <1>1, <1>2 DEF Inv, TypeOK
<1>4. (Undisturbed' => Undisturbed) /\ (past' = {} => past = {})
  BY <1>1 DEF Undisturbed
<1>5. \A u \in Tasks : (AtRest(u)' <=> AtRest(u)) /\ (OthersRest(u)' <=> OthersRest(u))
  BY <1>1 DEF AtRest, OthersRest
<1>6. OneAtATime'
  BY <1>2, <1>4, <1>5 DEF Inv, OneAtATime
<1>7. Achieved'
  BY <1>1, <1>2 DEF Inv, Achieved, AchievedBy, Switching
<1>8. Rules'
  BY <1>1, <1>4, <1>5 DEF Inv, Rules, RuleFor, Ready, Driven, Intended, Covered, Switching
<1> QED  BY <1>3, <1>6, <1>7, <1>8 DEF Inv

LEMMA OutsideInv == ASSUME Inv, Expire \/ SwitchHub \/ UNCHANGED vars PROVE Inv'
<1>1. /\ UNCHANGED <<subReady, scene, enabled, pin, task, alone, past>>
      /\ session' = session \/ session' = "expired"
      /\ hub' \in BOOLEAN
  BY DEF Inv, TypeOK, Expire, SwitchHub, vars, Kept
<1>2. TypeOK'
  BY <1>1 DEF Inv, TypeOK
<1>3. OneAtATime' /\ Achieved'
  BY <1>1 DEF Inv, OneAtATime, Achieved, AchievedBy, Switching, AtRest, OthersRest, Undisturbed
<1>4. Rules'
  BY <1>1 DEF Inv, Rules, RuleFor, Ready, Driven, Intended, Covered, Switching,
     AtRest, OthersRest, Undisturbed
<1> QED  BY <1>2, <1>3, <1>4 DEF Inv

LEMMA NextInv == Inv /\ [Next]_vars => Inv'
<1> SUFFICES ASSUME Inv, [Next]_vars PROVE Inv'
  OBVIOUS
<1>1. ASSUME NEW t \in Tasks, Step(t) PROVE Inv'
  BY <1>1, WriteTokenInv, ClearReadyInv, ClearSceneInv, TestSceneInv, SetSceneInv,
     TestAccessoryInv, TestEnabledInv, SetEnabledInv, WritePinInv DEF Step
<1>2. CASE HttpRequest \/ LoopEvent
  BY <1>2, RequestInv, ButtonInv DEF LoopEvent
<1>3. CASE Expire \/ SwitchHub \/ UNCHANGED vars
  BY <1>3, OutsideInv
<1> QED  BY <1>1, <1>2, <1>3 DEF Next

LEMMA AlwaysInv == Spec => []Inv
<1> QED  BY InitInv, NextInv, PTL DEF Spec

-----------------------------------------------------------------------------
(* The fields keep their types and each task follows its operation's steps. *)
THEOREM TypeCorrect == Spec => []TypeOK
BY AlwaysInv, PTL DEF Inv

(* Until two operations overlap, scene, pin and accessory obey the rules. *)
LEMMA RulesHold == Inv => SceneNeedsReady /\ PinFollowsFlag /\ SceneCoversAccessory
<1> SUFFICES ASSUME Inv, Quiet, Undisturbed
             PROVE  /\ scene => subReady
                    /\ pin = enabled
                    /\ past = {} /\ enabled => scene
  BY DEF SceneNeedsReady, PinFollowsFlag, SceneCoversAccessory, Undisturbed
<1>1. RuleFor(Resting)
  <2>1. AtRest("loop") /\ OthersRest("loop") /\ "loop" \in Tasks
    BY DEF Quiet, OthersRest, Others, Tasks
  <2> QED  BY <2>1 DEF Inv, Rules, AtRest
<1> QED  BY <1>1 DEF RuleFor, Ready, Driven, Covered, Resting

(* A scene rests on a button press that is still in force. *)
THEOREM SceneAlwaysReady == Spec => []SceneNeedsReady
BY AlwaysInv, RulesHold, PTL

(* The pin is where the software believes it to be. *)
THEOREM PinAlwaysFollows == Spec => []PinFollowsFlag
BY AlwaysInv, RulesHold, PTL

(* The accessory is on only within a scene. *)
THEOREM AccessoryAlwaysCovered == Spec => []SceneCoversAccessory
BY AlwaysInv, RulesHold, PTL

(* Entering an operation leaves the running ones where they are. *)
LEMMA BeginLeaves ==
  ASSUME TypeOK, NEW t \in Tasks, ~AtRest(t), NEW u, NEW op, NEW at, NEW on,
         Begin(u, op, at, on)
  PROVE  task'[t] = task[t]
BY DEF Begin, TypeOK, AtRest

LEMMA RequestLeaves ==
  ASSUME TypeOK, NEW t \in Tasks, ~AtRest(t), HttpRequest \/ LoopEvent
  PROVE  task'[t] = task[t]
BY BeginLeaves DEF HttpRequest, LoopEvent, Unlock, Lock, Scene, Accessory, Disarm,
   HubScene, HubAccessory, WifiLost, TransportLost, Button

(* A lock or release that runs alone switches the accessory off, from every
   reachable state. *)
THEOREM SafeEnds == Spec => SafeEndsSwitchOff
<1> DEFINE Good(t) ==
      /\ Ends(t, {"lock", "release"}) /\ alone[t] => ~enabled'
      /\ Ends(t, {"lock"}) /\ alone[t] => session' # "open" /\ ~subReady' /\ ~scene'
<1>1. ASSUME Inv, Next, NEW t \in Tasks PROVE Good(t)
  <2> SUFFICES ASSUME task[t].op \in {"lock", "release"}, alone[t], task'[t] = Resting
               PROVE  /\ ~enabled'
                      /\ task[t].op = "lock" => session' # "open" /\ ~subReady' /\ ~scene'
    BY DEF Ends
  <2>1. ~AtRest(t) /\ TypeOK /\ AtAStep(task[t]) /\ task[t].on \in BOOLEAN
    <3>1. ~AtRest(t)
      BY DEF AtRest, Resting
    <3>2. TypeOK /\ AtAStep(task[t]) /\ task[t] \in TaskType
      BY <1>1 DEF Inv, TypeOK
    <3> QED  BY <3>1, <3>2 DEF TaskType
  <2>2. PICK u \in Tasks : Step(u)
    <3>1. task'[t] # task[t]
      BY <2>1 DEF AtRest
    <3>2. ~(Expire \/ SwitchHub)
      BY <3>1 DEF Expire, SwitchHub, Kept
    <3> QED  BY <1>1, <2>1, <3>1, <3>2, RequestLeaves DEF Next
  <2>3. u = t
    <3>1. u # t => AtRest(u)
      BY <1>1, <2>2 DEF Inv, OneAtATime, OthersRest, Others
    <3>2. ~AtRest(u)
      BY <2>2 DEF Step, WriteToken, ClearReady, ClearScene, TestScene, SetScene,
         TestAccessory, TestEnabled, SetEnabled, WritePin, At, AtRest, Resting
    <3> QED  BY <3>1, <3>2
  <2>4. task[t].at \in Switches
    <3>1. CASE WriteToken(t)
      BY <2>1, <3>1, GoToMoves DEF WriteToken, GoTo, TypeOK, TaskType, Resting
    <3>2. CASE ClearReady(t)
      BY <2>1, <3>2 DEF ClearReady, GoTo, TypeOK, TaskType, Resting
    <3>3. CASE ClearScene(t)
      <4>1. task[t].op = "lock" /\ TurnOff(t)
        BY <3>3 DEF ClearScene, At
      <4>2. task'[t].at = "enableTest"
        BY <1>1, <2>1, <4>1, TurnOffMoves DEF Moved
      <4>3. task'[t].at = "rest"
        BY DEF Resting
      <4> QED  BY <4>2, <4>3
    <3>4. CASE TestScene(t) \/ SetScene(t) \/ TestAccessory(t)
      BY <3>4 DEF TestScene, SetScene, TestAccessory, At
    <3>5. CASE TestEnabled(t) \/ SetEnabled(t) \/ WritePin(t)
      BY <3>5 DEF TestEnabled, SetEnabled, WritePin, At, Switches
    <3> QED  BY <2>2, <2>3, <3>1, <3>2, <3>3, <3>4, <3>5 DEF Step
  <2>5. /\ ~task[t].on
        /\ task[t].op = "lock" => session # "open" /\ ~subReady /\ ~scene
        /\ task[t].at = "drive" => ~enabled
    <3>1. AchievedBy(t)
      BY <1>1 DEF Inv, Achieved
    <3> QED  BY <2>4, <3>1 DEF AchievedBy, Switching, Switches
  <2>6. CASE TestEnabled(t)
    <3>1. enabled = task[t].on
      BY <2>1, <2>6 DEF TestEnabled, GoTo, TypeOK, TaskType, Resting
    <3> QED  BY <2>5, <2>6, <3>1 DEF TestEnabled, state
  <2>7. CASE SetEnabled(t)
    BY <2>5, <2>7 DEF SetEnabled
  <2>8. CASE WritePin(t)
    BY <2>5, <2>8 DEF WritePin, At
  <2>9. CASE ~(TestEnabled(t) \/ SetEnabled(t) \/ WritePin(t))
    BY <2>2, <2>3, <2>4, <2>9 DEF Step, WriteToken, ClearReady, ClearScene, TestScene,
       SetScene, TestAccessory, At, Switches
  <2> QED  BY <2>6, <2>7, <2>8, <2>9
<1>2. Inv /\ [Next]_vars => [\A t \in Tasks : Good(t)]_vars
  BY <1>1
<1> QED  BY <1>2, AlwaysInv, PTL DEF Spec, SafeEndsSwitchOff

(* The three rules of the scene together: the button press it needs, the pin it
   drives and the accessory it covers (LocalOperate). *)
THEOREM SceneRulesHold == Spec => []SceneRules
<1>1. SceneNeedsReady /\ PinFollowsFlag /\ SceneCoversAccessory => SceneRules
  BY DEF SceneRules
<1> QED  BY <1>1, SceneAlwaysReady, PinAlwaysFollows, AccessoryAlwaysCovered, PTL
=============================================================================
