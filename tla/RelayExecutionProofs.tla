------------------------ MODULE RelayExecutionProofs ------------------------
(***************************************************************************)
(* Proofs about RelayExecution, for every set of commands and every burst  *)
(* length: the variables keep their types; the relay is energised exactly  *)
(* on behalf of the one mode that is in a pulse; the answers are true; an  *)
(* idle device accepts and a stop is heeded; and the device implements     *)
(* the safety of MotionService.                                            *)
(***************************************************************************)
EXTENDS RelayExecution, TLAPS

(* The history operators keep the type of the history. *)
LEMMA AskedType ==
  ASSUME NEW l \in LogType, NEW c \in Cmds, NEW kind \in Kinds,
         NEW valid \in BOOLEAN, NEW want \in 0..MaxBurstStrokes
  PROVE  Asked(l, c, kind, valid, want) \in LogType
<1>1. [kind |-> kind, valid |-> valid, want |-> want, fired |-> 0, acks |-> <<>>] \in CmdType
  BY DEF CmdType
<1> QED  BY <1>1 DEF Asked, LogType

LEMMA AckedType ==
  ASSUME NEW l \in LogType, NEW c, NEW ok \in BOOLEAN
  PROVE  Acked(l, c, ok) \in LogType
<1>1. ASSUME c \in Cmds
      PROVE  [l[c] EXCEPT !.acks = Append(l[c].acks, ok)] \in CmdType
  <2>1. l[c] \in CmdType
    BY <1>1 DEF LogType
  <2>2. Append(l[c].acks, ok) \in Seq(BOOLEAN)
    BY <2>1 DEF CmdType
  <2> QED  BY <2>1, <2>2 DEF CmdType
<1> QED  BY <1>1 DEF Acked, LogType

LEMMA FiredType ==
  ASSUME NEW l \in LogType, NEW c
  PROVE  Fired(l, c) \in LogType
<1>1. ASSUME c \in Cmds
      PROVE  [l[c] EXCEPT !.fired = l[c].fired + 1] \in CmdType
  <2>1. l[c] \in CmdType
    BY <1>1 DEF LogType
  <2>2. l[c].fired + 1 \in Nat
    BY <2>1 DEF CmdType
  <2> QED  BY <2>1, <2>2 DEF CmdType
<1> QED  BY <1>1 DEF Fired, LogType
-----------------------------------------------------------------------------
(* A session in an intra-burst pulse or gap still has strokes to count, or
   lost its counters to an update that cancelled the burst. *)
BurstCounters ==
  auto.state \in {"BurstPulse", "BurstGap"} => auto.done < auto.target \/ auto.done = 0

Typed == TypeOK /\ BurstCounters

(* The part of Typed that a step of the automatic session can disturb. *)
SessionTyped ==
  /\ relay \in {"Idle", "On"} /\ callback \in Callbacks
  /\ auto \in SessionType /\ BurstCounters
  /\ notices \in [started : Nat, completed : Nat]
  /\ log \in LogType

LEMMA UpdatedType ==
  ASSUME NEW a \in SessionType
  PROVE  /\ Updated(a) \in SessionType
         /\ Updated(a).state \in {a.state, "WaitingGap"}
         /\ Updated(a).stop = a.stop /\ Updated(a).active = a.active
         /\ Updated(a).done = a.done \/ Updated(a).done = 0
         /\ Updated(a).state = "WaitingGap" \/ Updated(a).target = a.target
<1> DEFINE b == [a EXCEPT !.burstsOn = (a.pending = "bursts"), !.pending = "none"]
<1>1. b \in SessionType /\ b.state = a.state /\ b.stop = a.stop /\ b.active = a.active
      /\ b.done = a.done /\ b.target = a.target
  BY DEF SessionType
<1>2. CASE a.pending = "none"
  BY <1>2 DEF Updated
<1>3. CASE a.pending # "none" /\ ~b.burstsOn /\ b.state \in {"BurstPulse", "BurstGap"}
  <2>1. Updated(a) = [b EXCEPT !.state = "WaitingGap", !.target = 0, !.done = 0]
    BY <1>3 DEF Updated
  <2> DEFINE d == [b EXCEPT !.state = "WaitingGap", !.target = 0, !.done = 0]
  <2>2. /\ d \in SessionType /\ d.state = "WaitingGap" /\ d.done = 0
        /\ d.stop = b.stop /\ d.active = b.active
    <3> HIDE DEF b
    <3>1. 0 \in 0..MaxBurstStrokes /\ "WaitingGap" \in SessionStates
      BY BurstStrokesAssumption DEF SessionStates
    <3>2. d \in SessionType
      BY <1>1, <3>1 DEF SessionType
    <3> QED  BY <1>1, <3>1 DEF SessionType
  <2> HIDE DEF b, d
  <2> QED  BY <1>1, <2>1, <2>2 DEF d
<1>4. CASE a.pending # "none" /\ ~(~b.burstsOn /\ b.state \in {"BurstPulse", "BurstGap"})
  BY <1>1, <1>4 DEF Updated
<1> QED  BY <1>2, <1>3, <1>4
-----------------------------------------------------------------------------
(* The ways a poll of the session can leave it. *)
LEMMA FinishTyped ==
  ASSUME Typed, NEW ok \in BOOLEAN, NEW l \in LogType, FinishSession(ok, l)
  PROVE  /\ auto' \in SessionType /\ BurstCounters' /\ log' \in LogType
         /\ notices' \in [started : Nat, completed : Nat]
<1>1. auto' \in SessionType /\ auto'.state = "Idle"
  BY BurstStrokesAssumption DEF FinishSession, NoSession, SessionType, SessionStates, CmdOrNone
<1>2. log' \in LogType
  BY AckedType DEF FinishSession
<1>3. notices' \in [started : Nat, completed : Nat]
  BY DEF FinishSession, Typed, TypeOK
<1> QED  BY <1>1, <1>2, <1>3 DEF BurstCounters

LEMMA EndSessionTyped ==
  ASSUME Typed, NEW ok \in BOOLEAN, EndSession(ok)
  PROVE  SessionTyped'
<1>1. log \in LogType
  BY DEF Typed, TypeOK
<1>2. FinishSession(ok, log) /\ Release
  BY DEF EndSession
<1> QED  BY <1>1, <1>2, FinishTyped DEF Release, Callbacks, SessionTyped

LEMMA ContinueTyped ==
  ASSUME Typed, NEW a, Continue(a), a \in SessionType,
         a.state \in {"BurstPulse", "BurstGap"} => a.done < a.target \/ a.done = 0
  PROVE  /\ auto' \in SessionType /\ BurstCounters' /\ log' \in LogType
         /\ notices' \in [started : Nat, completed : Nat]
BY DEF Continue, BurstCounters, Typed, TypeOK

LEMMA MainPulseTyped ==
  ASSUME Typed, NEW a \in SessionType, MainPulse(a)
  PROVE  SessionTyped'
<1> DEFINE b == [a EXCEPT !.state = "Pulse"]
<1>1. b \in SessionType /\ b.state = "Pulse"
  BY DEF SessionType, SessionStates
<1>2. Energise("main") /\ Continue(b)
  BY DEF MainPulse
<1> HIDE DEF b
<1> QED  BY <1>1, <1>2, ContinueTyped DEF Energise, Callbacks, SessionTyped

LEMMA IntraPulseTyped ==
  ASSUME Typed, NEW a \in SessionType, IntraPulse(a), a.done < a.target \/ a.done = 0
  PROVE  SessionTyped'
<1> DEFINE b == [a EXCEPT !.state = "BurstPulse"]
<1>1. b \in SessionType /\ b.done = a.done /\ b.target = a.target
  BY DEF SessionType, SessionStates
<1>2. Energise("intra") /\ Continue(b)
  BY DEF IntraPulse
<1> HIDE DEF b
<1> QED  BY <1>1, <1>2, ContinueTyped DEF Energise, Callbacks, SessionTyped

LEMMA BeginBurstTyped ==
  ASSUME Typed, NEW a \in SessionType, BeginBurstEvent(a)
  PROVE  SessionTyped'
<1>1. PICK n \in 1..MaxBurstStrokes : IntraPulse([a EXCEPT !.target = n, !.done = 0])
  BY DEF BeginBurstEvent
<1> DEFINE b == [a EXCEPT !.target = n, !.done = 0]
<1>2. b \in SessionType /\ b.done = 0
  <2>1. n \in 0..MaxBurstStrokes /\ 0 \in 0..MaxBurstStrokes
    BY BurstStrokesAssumption
  <2> QED  BY <2>1 DEF SessionType
<1>3. IntraPulse(b)
  BY <1>1
<1> HIDE DEF b
<1> QED  BY <1>2, <1>3, IntraPulseTyped

LEMMA WaitForGapTyped ==
  ASSUME Typed, NEW a \in SessionType, WaitForGap(a)
  PROVE  SessionTyped'
<1> DEFINE b == [a EXCEPT !.state = "WaitingGap"]
<1>1. b \in SessionType /\ b.state = "WaitingGap"
  BY DEF SessionType, SessionStates
<1>2. Release /\ Continue(b)
  BY DEF WaitForGap
<1> HIDE DEF b
<1> QED  BY <1>1, <1>2, ContinueTyped DEF Release, Callbacks, SessionTyped

LEMMA StopEndOrWaitTyped ==
  ASSUME Typed, NEW a \in SessionType, StopEndOrWait(a)
  PROVE  SessionTyped'
BY EndSessionTyped, WaitForGapTyped DEF StopEndOrWait
-----------------------------------------------------------------------------
(* A command that is answered as it is received. *)
LEMMA AnsweredType ==
  ASSUME Typed, NEW c \in Cmds, NEW kind \in Kinds, NEW valid \in BOOLEAN,
         NEW want \in 0..MaxBurstStrokes, NEW ok \in BOOLEAN
  PROVE  Acked(Asked(log, c, kind, valid, want), c, ok) \in LogType
<1>1. log \in LogType
  BY DEF Typed, TypeOK
<1>2. Asked(log, c, kind, valid, want) \in LogType
  BY <1>1, AskedType
<1> QED  BY <1>2, AckedType

(* A refusal changes nothing but the history. *)
LEMMA RejectTyped ==
  ASSUME Typed, NEW c \in Cmds, NEW kind \in Kinds, NEW valid \in BOOLEAN,
         NEW want \in 0..MaxBurstStrokes, Reject(c, kind, valid, want)
  PROVE  Typed'
<1>1. Acked(Asked(log, c, kind, valid, want), c, FALSE) \in LogType
  BY AnsweredType
<1> QED  BY <1>1 DEF Reject, Typed, TypeOK, BurstCounters

LEMMA StrokeTyped == ASSUME Typed, NEW c \in Cmds, Stroke(c) PROVE Typed'
<1>1. PICK valid \in BOOLEAN :
        \/ Reject(c, "stroke", valid, 1)
        \/ /\ Energise("stroke") /\ stroke' = [active |-> TRUE, corr |-> c]
           /\ activeMode' = "single" /\ log' = Asked(log, c, "stroke", valid, 1)
           /\ UNCHANGED <<burst, auto, notices>>
  BY DEF Stroke
<1>2. 1 \in 0..MaxBurstStrokes /\ "stroke" \in Kinds
  BY BurstStrokesAssumption DEF Kinds
<1>3. CASE Reject(c, "stroke", valid, 1)
  BY <1>2, <1>3, RejectTyped
<1>4. CASE ~Reject(c, "stroke", valid, 1)
  <2>1. log' \in LogType
    BY <1>1, <1>2, <1>4, AskedType DEF Typed, TypeOK
  <2>2. [active |-> TRUE, corr |-> c] \in StrokeType
    BY DEF StrokeType, CmdOrNone
  <2>3. stroke' = [active |-> TRUE, corr |-> c]
    BY <1>1, <1>4
  <2> QED  BY <1>1, <1>4, <2>1, <2>2, <2>3
           DEF Energise, Callbacks, Modes, Typed, TypeOK, BurstCounters
<1> QED  BY <1>3, <1>4

LEMMA StrokePulseDoneTyped == ASSUME Typed, StrokePulseDone PROVE Typed'
<1>1. log' \in LogType
  BY FiredType, AckedType DEF StrokePulseDone, Typed, TypeOK
<1>2. stroke' \in StrokeType
  BY DEF StrokePulseDone, NoStroke, StrokeType, CmdOrNone
<1> QED  BY <1>1, <1>2 DEF StrokePulseDone, Release, Callbacks, Typed, TypeOK, BurstCounters

LEMMA BurstTyped == ASSUME Typed, NEW c \in Cmds, Burst(c) PROVE Typed'
<1>1. PICK valid \in BOOLEAN, n \in 1..MaxBurstStrokes :
        \/ Reject(c, "burst", valid, n)
        \/ /\ Energise("burst")
           /\ burst' = [active |-> TRUE, state |-> "Pulse", target |-> n,
                        done |-> 0, corr |-> c]
           /\ activeMode' = "burst" /\ log' = Asked(log, c, "burst", valid, n)
           /\ UNCHANGED <<stroke, auto, notices>>
  BY DEF Burst
<1>2. n \in 0..MaxBurstStrokes /\ 0 \in 0..MaxBurstStrokes /\ "burst" \in Kinds
  BY BurstStrokesAssumption DEF Kinds
<1>3. CASE Reject(c, "burst", valid, n)
  BY <1>2, <1>3, RejectTyped
<1>4. CASE ~Reject(c, "burst", valid, n)
  <2>1. log' \in LogType
    BY <1>1, <1>2, <1>4, AskedType DEF Typed, TypeOK
  <2>2. [active |-> TRUE, state |-> "Pulse", target |-> n, done |-> 0, corr |-> c]
          \in BurstType
    BY <1>2 DEF BurstType, BurstStates, CmdOrNone
  <2>3. burst' = [active |-> TRUE, state |-> "Pulse", target |-> n, done |-> 0, corr |-> c]
    BY <1>1, <1>4
  <2> QED  BY <1>1, <1>4, <2>1, <2>2, <2>3
           DEF Energise, Callbacks, Modes, Typed, TypeOK, BurstCounters
<1> QED  BY <1>3, <1>4

LEMMA BurstPulseDoneTyped == ASSUME Typed, BurstPulseDone PROVE Typed'
<1> DEFINE n == burst.done + 1
<1>1. Fired(log, burst.corr) \in LogType
      /\ Acked(Fired(log, burst.corr), burst.corr, TRUE) \in LogType
  BY FiredType, AckedType DEF Typed, TypeOK
<1>2. log' \in LogType
  BY <1>1 DEF BurstPulseDone
<1>3. NoBurst \in BurstType
  BY BurstStrokesAssumption DEF NoBurst, BurstType, BurstStates, CmdOrNone
<1>4. ASSUME ~AllFired(n)
      PROVE  [burst EXCEPT !.done = n] \in BurstType
             /\ [burst EXCEPT !.done = n, !.state = "Gap"] \in BurstType
  <2>1. n \in 0..MaxBurstStrokes
    <3>1. burst.done \in 0..MaxBurstStrokes /\ burst.target \in 0..MaxBurstStrokes
      BY DEF Typed, TypeOK, BurstType
    <3> QED  BY <1>4, <3>1, BurstStrokesAssumption DEF AllFired
  <2> HIDE DEF n
  <2> QED  BY <2>1 DEF Typed, TypeOK, BurstType, BurstStates
<1>5. burst' \in BurstType
  BY <1>3, <1>4 DEF BurstPulseDone
<1>6. relay' \in {"Idle", "On"} /\ callback' \in Callbacks
  BY DEF BurstPulseDone, Energise, Release, Callbacks
<1>7. UNCHANGED <<activeMode, stroke, auto, notices>>
  BY DEF BurstPulseDone
<1> QED  BY <1>2, <1>5, <1>6, <1>7 DEF Typed, TypeOK, BurstCounters

LEMMA BurstGapElapsedTyped == ASSUME Typed, BurstGapElapsed PROVE Typed'
<1>1. [burst EXCEPT !.state = "Pulse"] \in BurstType
  BY DEF Typed, TypeOK, BurstType, BurstStates
<1> QED  BY <1>1 DEF BurstGapElapsed, Energise, Callbacks, Typed, TypeOK, BurstCounters
LEMMA StartAutomaticTyped == ASSUME Typed, NEW c \in Cmds, StartAutomatic(c) PROVE Typed'
<1> DEFINE session(delayed, burstsOn) ==
      [NoSession EXCEPT !.active = TRUE, !.burstsOn = burstsOn,
                        !.state = IF delayed THEN "StartDelay" ELSE "Pulse"]
<1>1. PICK valid \in BOOLEAN, delayed \in BOOLEAN, burstsOn \in BOOLEAN :
        \/ Reject(c, "start", valid, 0)
        \/ /\ auto' = session(delayed, burstsOn)
           /\ IF delayed THEN UNCHANGED <<relay, callback>> ELSE Energise("main")
           /\ activeMode' = "automatic"
           /\ notices' = [notices EXCEPT !.started = @ + 1]
           /\ log' = Acked(Asked(log, c, "start", valid, 0), c, TRUE)
           /\ UNCHANGED <<stroke, burst>>
  BY DEF StartAutomatic
<1>2. 0 \in 0..MaxBurstStrokes /\ "start" \in Kinds
  BY BurstStrokesAssumption DEF Kinds
<1>3. CASE Reject(c, "start", valid, 0)
  BY <1>2, <1>3, RejectTyped
<1>4. CASE ~Reject(c, "start", valid, 0)
  <2>1. session(delayed, burstsOn) \in SessionType
        /\ session(delayed, burstsOn).state \in {"StartDelay", "Pulse"}
    BY <1>2 DEF NoSession, SessionType, SessionStates, CmdOrNone
  <2> HIDE DEF session
  <2>2. auto' \in SessionType /\ BurstCounters'
    BY <1>1, <1>4, <2>1 DEF BurstCounters
  <2>3. log' \in LogType
    BY <1>1, <1>2, <1>4, AnsweredType
  <2>4. relay' \in {"Idle", "On"} /\ callback' \in Callbacks
    BY <1>1, <1>4 DEF Energise, Callbacks, Typed, TypeOK
  <2>5. notices' \in [started : Nat, completed : Nat]
    <3>1. notices' = [notices EXCEPT !.started = @ + 1]
      BY <1>1, <1>4
    <3> QED  BY <3>1 DEF Typed, TypeOK
  <2> QED  BY <1>1, <1>4, <2>2, <2>3, <2>4, <2>5 DEF Modes, Typed, TypeOK
<1> QED  BY <1>3, <1>4

LEMMA StopAutomaticTyped == ASSUME Typed, NEW c \in Cmds, StopAutomatic(c) PROVE Typed'
<1>1. 0 \in 0..MaxBurstStrokes /\ "stop" \in Kinds
  BY BurstStrokesAssumption DEF Kinds
<1>2. CASE Reject(c, "stop", TRUE, 0)
  BY <1>1, <1>2, RejectTyped
<1>3. CASE ~Reject(c, "stop", TRUE, 0)
  <2>1. log' \in LogType
    BY <1>1, <1>3, AnsweredType DEF StopAutomatic
  <2>2. [auto EXCEPT !.stop = c] \in SessionType
    BY DEF SessionType, CmdOrNone, Typed, TypeOK
  <2>3. auto' = [auto EXCEPT !.stop = c]
        /\ UNCHANGED <<relay, callback, activeMode, stroke, burst, notices>>
    BY <1>3 DEF StopAutomatic
  <2>4. BurstCounters'
    BY <2>3 DEF BurstCounters, Typed, TypeOK, SessionType
  <2> QED  BY <2>1, <2>2, <2>3, <2>4 DEF Typed, TypeOK
<1> QED  BY <1>2, <1>3

LEMMA UpdateAutomaticTyped == ASSUME Typed, NEW c \in Cmds, UpdateAutomatic(c) PROVE Typed'
<1>1. PICK valid \in BOOLEAN, next \in {"bursts", "plain"} :
        \/ Reject(c, "update", valid, 0)
        \/ /\ auto' = [auto EXCEPT !.pending = next]
           /\ log' = Acked(Asked(log, c, "update", valid, 0), c, TRUE)
           /\ UNCHANGED <<relay, callback, activeMode, stroke, burst, notices>>
  BY DEF UpdateAutomatic
<1>2. 0 \in 0..MaxBurstStrokes /\ "update" \in Kinds
  BY BurstStrokesAssumption DEF Kinds
<1>3. CASE Reject(c, "update", valid, 0)
  BY <1>2, <1>3, RejectTyped
<1>4. CASE ~Reject(c, "update", valid, 0)
  <2>1. log' \in LogType
    <3>1. log' = Acked(Asked(log, c, "update", valid, 0), c, TRUE)
      BY <1>1, <1>4
    <3> QED  BY <1>2, <3>1, AnsweredType
  <2>2. [auto EXCEPT !.pending = next] \in SessionType
    BY DEF SessionType, Typed, TypeOK
  <2>3. BurstCounters'
    BY <1>1, <1>4 DEF BurstCounters, Typed, TypeOK, SessionType
  <2> QED  BY <1>1, <1>4, <2>1, <2>2, <2>3 DEF Typed, TypeOK
<1> QED  BY <1>3, <1>4

LEMMA MainPulseDoneTyped == ASSUME Typed, MainPulseDone PROVE Typed'
<1> DEFINE a == Updated(auto)
<1>1. a \in SessionType
  BY UpdatedType DEF Typed, TypeOK
<1>2. \/ EndSession(FALSE) \/ BeginBurstEvent(a) \/ StopEndOrWait(a)
  BY DEF MainPulseDone
<1> HIDE DEF a
<1>3. SessionTyped'
  BY <1>1, <1>2, EndSessionTyped, BeginBurstTyped, StopEndOrWaitTyped
<1>4. UNCHANGED <<activeMode, stroke, burst>>
  BY DEF MainPulseDone
<1> QED  BY <1>3, <1>4 DEF SessionTyped, Typed, TypeOK

LEMMA IntraPulseDoneTyped == ASSUME Typed, IntraPulseDone PROVE Typed'
<1> DEFINE counted == [auto EXCEPT !.done = @ + 1]
           a == Updated(counted)
<1>1. counted \in SessionType
  <2>1. auto \in SessionType /\ (auto.done < auto.target \/ auto.done = 0)
    BY DEF IntraPulseDone, Typed, TypeOK, BurstCounters
  <2>2. auto.done \in 0..MaxBurstStrokes /\ auto.target \in 0..MaxBurstStrokes
    BY <2>1 DEF SessionType
  <2>3. auto.done + 1 \in 0..MaxBurstStrokes
    BY <2>1, <2>2, BurstStrokesAssumption
  <2> QED  BY <2>1, <2>3 DEF SessionType
<1>2. a \in SessionType
  BY <1>1, UpdatedType
<1>3. \/ EndSession(FALSE)
      \/ StopEndOrWait(a)
      \/ a.done < a.target /\ IntraPulse(a)
      \/ a.done < a.target /\ Release /\ Continue([a EXCEPT !.state = "BurstGap"])
  BY DEF IntraPulseDone
<1> HIDE DEF a
<1>4. ASSUME a.done < a.target, Release, Continue([a EXCEPT !.state = "BurstGap"])
      PROVE  SessionTyped'
  <2> DEFINE b == [a EXCEPT !.state = "BurstGap"]
  <2>1. b \in SessionType /\ b.done = a.done /\ b.target = a.target
    BY <1>2 DEF SessionType, SessionStates
  <2>2. Continue(b)
    BY <1>4
  <2> HIDE DEF b
  <2> QED  BY <1>4, <2>1, <2>2, ContinueTyped DEF Release, Callbacks, SessionTyped
<1>5. SessionTyped'
  BY <1>2, <1>3, <1>4, EndSessionTyped, IntraPulseTyped, StopEndOrWaitTyped
<1>6. UNCHANGED <<activeMode, stroke, burst>>
  BY DEF IntraPulseDone
<1> QED  BY <1>5, <1>6 DEF SessionTyped, Typed, TypeOK

LEMMA ForgetTyped == ASSUME Forget PROVE activeMode' \in Modes
BY DEF Forget, Modes

LEMMA StartDelayElapsedTyped == ASSUME Typed, StartDelayElapsed PROVE Typed'
<1>1. Updated(auto) \in SessionType
  BY UpdatedType DEF Typed, TypeOK
<1>2. SessionTyped'
  BY <1>1, EndSessionTyped, MainPulseTyped DEF StartDelayElapsed
<1>3. activeMode' \in Modes /\ UNCHANGED <<stroke, burst>>
  BY ForgetTyped DEF StartDelayElapsed
<1> QED  BY <1>2, <1>3 DEF SessionTyped, Typed, TypeOK

LEMMA BurstGapPollTyped == ASSUME Typed, BurstGapPoll PROVE Typed'
<1> DEFINE a == Updated(auto)
<1>1. /\ a \in SessionType
      /\ a.done = auto.done \/ a.done = 0
      /\ a.state = "WaitingGap" \/ a.target = auto.target
  BY UpdatedType DEF Typed, TypeOK
<1>2. a.done < a.target \/ a.done = 0
  <2>1. auto.done < auto.target \/ auto.done = 0
    BY DEF BurstGapPoll, Typed, BurstCounters
  <2>2. CASE auto.pending = "none"
    BY <2>1, <2>2 DEF Updated
  <2>3. CASE auto.pending = "bursts"
    BY <2>1, <2>3 DEF Updated, Typed, TypeOK, SessionType
  <2>4. CASE auto.pending = "plain"
    BY <2>4 DEF BurstGapPoll, Updated, Typed, TypeOK, SessionType
  <2> QED  BY <2>2, <2>3, <2>4 DEF Typed, TypeOK, SessionType
<1>3. EndSession(FALSE) \/ IntraPulse(a)
  BY DEF BurstGapPoll
<1> HIDE DEF a
<1>4. SessionTyped'
  BY <1>1, <1>2, <1>3, EndSessionTyped, IntraPulseTyped
<1>5. activeMode' \in Modes /\ UNCHANGED <<stroke, burst>>
  BY ForgetTyped DEF BurstGapPoll
<1> QED  BY <1>4, <1>5 DEF SessionTyped, Typed, TypeOK

LEMMA WaitingGapPollTyped == ASSUME Typed, WaitingGapPoll PROVE Typed'
<1> DEFINE a == Updated(auto)
<1>1. a \in SessionType /\ auto \in SessionType
  BY UpdatedType DEF Typed, TypeOK
<1>2. \/ EndSession(TRUE) \/ EndSession(FALSE)
      \/ BeginBurstEvent(auto) \/ BeginBurstEvent(a) \/ MainPulse(a)
  BY DEF WaitingGapPoll
<1> HIDE DEF a
<1>3. SessionTyped'
  BY <1>1, <1>2, EndSessionTyped, BeginBurstTyped, MainPulseTyped
<1>4. activeMode' \in Modes /\ UNCHANGED <<stroke, burst>>
  BY ForgetTyped DEF WaitingGapPoll
<1> QED  BY <1>3, <1>4 DEF SessionTyped, Typed, TypeOK
LEMMA AbortTyped == ASSUME Typed, NEW c \in Cmds, Abort(c) PROVE Typed'
<1> DEFINE asked == Acked(Asked(log, c, "abort", TRUE, 0), c, TRUE)
<1>1. 0 \in 0..MaxBurstStrokes /\ "abort" \in Kinds
  BY BurstStrokesAssumption DEF Kinds
<1>2. asked \in LogType
  BY <1>1, AnsweredType
<1>3. \/ Reject(c, "abort", TRUE, 0)
      \/ (AbortStroke(asked) \/ AbortBurst(asked) \/ AbortSession(asked)) /\ activeMode' = "none"
  BY DEF Abort
<1> HIDE DEF asked
<1>4. CASE Reject(c, "abort", TRUE, 0)
  BY <1>1, <1>4, RejectTyped
<1>5. CASE AbortStroke(asked) /\ activeMode' = "none"
  <2>1. stroke' \in StrokeType
    BY <1>5 DEF AbortStroke, NoStroke, StrokeType, CmdOrNone
  <2>2. log' \in LogType
    BY <1>2, <1>5, AckedType DEF AbortStroke
  <2> QED  BY <1>5, <2>1, <2>2 DEF AbortStroke, AbortRelay, Release, Callbacks, Modes,
                                   Typed, TypeOK, BurstCounters
<1>6. CASE AbortBurst(asked) /\ activeMode' = "none"
  <2>1. burst' \in BurstType
    BY <1>6, BurstStrokesAssumption DEF AbortBurst, NoBurst, BurstType, BurstStates, CmdOrNone
  <2>2. log' \in LogType
    BY <1>2, <1>6, AckedType DEF AbortBurst
  <2> QED  BY <1>6, <2>1, <2>2 DEF AbortBurst, AbortRelay, Release, Callbacks, Modes,
                                   Typed, TypeOK, BurstCounters
<1>7. CASE AbortSession(asked) /\ activeMode' = "none"
  <2>1. /\ auto' \in SessionType /\ BurstCounters' /\ log' \in LogType
        /\ notices' \in [started : Nat, completed : Nat]
    BY <1>2, <1>7, FinishTyped DEF AbortSession
  <2>2. relay' \in {"Idle", "On"} /\ callback' \in Callbacks
    BY <1>7 DEF AbortSession, AbortRelay, Release, Callbacks, Typed, TypeOK
  <2> QED  BY <1>7, <2>1, <2>2 DEF AbortSession, Modes, Typed, TypeOK
<1> QED  BY <1>3, <1>4, <1>5, <1>6, <1>7

LEMMA InitTyped == Init => Typed
<1> SUFFICES ASSUME Init PROVE Typed
  OBVIOUS
<1>1. 0 \in 0..MaxBurstStrokes
  BY BurstStrokesAssumption
<1>2. stroke \in StrokeType /\ burst \in BurstType /\ auto \in SessionType
  BY <1>1 DEF Init, NoStroke, NoBurst, NoSession, StrokeType, BurstType, SessionType,
              BurstStates, SessionStates, CmdOrNone
<1>3. log \in LogType
  <2>1. NoCmd \in CmdType
    BY <1>1 DEF NoCmd, CmdType, Kinds
  <2> QED  BY <2>1 DEF Init, LogType
<1>4. BurstCounters
  BY DEF Init, NoSession, BurstCounters
<1> QED  BY <1>2, <1>3, <1>4 DEF Init, Callbacks, Modes, Typed, TypeOK

LEMMA NextTyped == Typed /\ [Next]_vars => Typed'
<1> SUFFICES ASSUME Typed, [Next]_vars PROVE Typed'
  OBVIOUS
<1>1. ASSUME NEW c \in Cmds, Command(c) PROVE Typed'
  BY <1>1, StrokeTyped, BurstTyped, AbortTyped, StartAutomaticTyped, StopAutomaticTyped,
     UpdateAutomaticTyped DEF Command
<1>2. CASE RelayPoll
  BY <1>2, StrokePulseDoneTyped, BurstPulseDoneTyped, MainPulseDoneTyped, IntraPulseDoneTyped
     DEF RelayPoll
<1>3. CASE ExecPoll
  BY <1>3, BurstGapElapsedTyped, StartDelayElapsedTyped, BurstGapPollTyped, WaitingGapPollTyped
     DEF ExecPoll
<1>4. CASE UNCHANGED vars
  BY <1>4 DEF vars, Typed, TypeOK, BurstCounters
<1> QED  BY <1>1, <1>2, <1>3, <1>4 DEF Next

(* Type correctness of the relay side, for any commands and burst length. *)
THEOREM TypeCorrect == Spec => []TypeOK
<1>1. Typed => TypeOK
  BY DEF Typed
<1> QED  BY <1>1, InitTyped, NextTyped, PTL DEF Spec
-----------------------------------------------------------------------------
(* The relay and the modes agree: the inductive invariant behind RelayOwned.
   OneMotion is needed with it: a start looks only at the mode activeMode_
   points at, and must not find another one holding the relay. *)
Owned == Typed /\ OneMotion /\ RelayOwned

LEMMA RejectOwned ==
  ASSUME Owned, NEW c, NEW kind, NEW valid, NEW want, Reject(c, kind, valid, want)
  PROVE  OneMotion' /\ RelayOwned'
BY DEF Reject, Owned, OneMotion, RelayOwned, Owner

LEMMA StrokeOwned == ASSUME Owned, NEW c \in Cmds, Stroke(c) PROVE OneMotion' /\ RelayOwned'
<1>1. CASE \E valid \in BOOLEAN : Reject(c, "stroke", valid, 1)
  BY <1>1, RejectOwned
<1>2. CASE /\ ~IsActive /\ relay # "On" /\ Energise("stroke")
           /\ stroke' = [active |-> TRUE, corr |-> c]
           /\ activeMode' = "single" /\ UNCHANGED <<burst, auto>>
  <2>1. ~burst.active /\ ~auto.active
    BY <1>2 DEF Owned, OneMotion, IsActive
  <2>2. stroke'.active /\ ~burst'.active /\ ~auto'.active
    BY <1>2, <2>1
  <2> QED  BY <1>2, <2>2 DEF OneMotion, RelayOwned, Owner, Energise
<1> QED  BY <1>1, <1>2 DEF Stroke, Refused, Owned, Typed, TypeOK

LEMMA StrokePulseDoneOwned == ASSUME Owned, StrokePulseDone PROVE OneMotion' /\ RelayOwned'
<1>1. ~stroke'.active /\ ~burst'.active /\ ~auto'.active
  BY DEF StrokePulseDone, NoStroke, Owned, OneMotion
<1> QED  BY <1>1 DEF StrokePulseDone, Release, OneMotion, RelayOwned, Owner

LEMMA BurstOwned == ASSUME Owned, NEW c \in Cmds, Burst(c) PROVE OneMotion' /\ RelayOwned'
<1>1. CASE \E valid \in BOOLEAN, n \in 1..MaxBurstStrokes : Reject(c, "burst", valid, n)
  BY <1>1, RejectOwned
<1>2. CASE /\ ~IsActive /\ relay # "On" /\ Energise("burst")
           /\ \E n \in 1..MaxBurstStrokes :
                burst' = [active |-> TRUE, state |-> "Pulse", target |-> n,
                          done |-> 0, corr |-> c]
           /\ activeMode' = "burst" /\ UNCHANGED <<stroke, auto>>
  <2>1. ~stroke.active /\ ~auto.active
    BY <1>2 DEF Owned, OneMotion, IsActive
  <2>2. burst'.active /\ burst'.state = "Pulse" /\ ~stroke'.active /\ ~auto'.active
    BY <1>2, <2>1
  <2> QED  BY <1>2, <2>2 DEF OneMotion, RelayOwned, Owner, Energise
<1> QED  BY <1>1, <1>2 DEF Burst, Refused, Owned, Typed, TypeOK

LEMMA BurstPulseDoneOwned == ASSUME Owned, BurstPulseDone PROVE OneMotion' /\ RelayOwned'
<1>1. activeMode' = "burst" /\ ~stroke'.active /\ ~auto'.active
  BY DEF BurstPulseDone, Owned, OneMotion
<1>2. \/ Release /\ burst' = NoBurst
      \/ Energise("burst") /\ burst' = [burst EXCEPT !.done = burst.done + 1]
      \/ Release /\ burst' = [burst EXCEPT !.done = burst.done + 1, !.state = "Gap"]
  BY DEF BurstPulseDone
<1>3. burst.active /\ burst.state = "Pulse" /\ burst \in BurstType
  BY DEF BurstPulseDone, Owned, Typed, TypeOK
<1>4. \/ Release /\ ~burst'.active
      \/ Energise("burst") /\ burst'.active /\ burst'.state = "Pulse"
      \/ Release /\ burst'.active /\ burst'.state = "Gap"
  <2>1. ~NoBurst.active
    BY DEF NoBurst
  <2>2. ASSUME NEW n
        PROVE  /\ [burst EXCEPT !.done = n].active /\ [burst EXCEPT !.done = n].state = "Pulse"
               /\ [burst EXCEPT !.done = n, !.state = "Gap"].active
               /\ [burst EXCEPT !.done = n, !.state = "Gap"].state = "Gap"
    BY <1>3 DEF BurstType
  <2> QED  BY <1>2, <2>1, <2>2, ZenonT(40)
<1> QED  BY <1>1, <1>4 DEF Release, Energise, OneMotion, RelayOwned, Owner

LEMMA BurstGapElapsedOwned == ASSUME Owned, BurstGapElapsed PROVE OneMotion' /\ RelayOwned'
<1>1. activeMode' = "burst" /\ ~stroke'.active /\ ~auto'.active
  BY DEF BurstGapElapsed, Owned, OneMotion
<1>2. burst'.active /\ burst'.state = "Pulse"
  BY DEF BurstGapElapsed, Owned, Typed, TypeOK, BurstType
<1> QED  BY <1>1, <1>2 DEF BurstGapElapsed, Energise, OneMotion, RelayOwned, Owner
(* How a step of the session leaves relay and session. *)
Held ==
  \/ relay = "Idle" /\ callback = "none" /\ ~(auto.active /\ auto.state \in {"Pulse", "BurstPulse"})
  \/ relay = "On" /\ callback = "main" /\ auto.active /\ auto.state = "Pulse"
  \/ relay = "On" /\ callback = "intra" /\ auto.active /\ auto.state = "BurstPulse"

LEMMA HeldOwned ==
  ASSUME Held', ~stroke'.active, ~burst'.active, auto'.active => activeMode' = "automatic"
  PROVE  OneMotion' /\ RelayOwned'
BY DEF Held, OneMotion, RelayOwned, Owner

LEMMA EndSessionHeld == ASSUME NEW ok, EndSession(ok) PROVE Held'
BY DEF EndSession, FinishSession, NoSession, Release, Held

LEMMA MainPulseHeld ==
  ASSUME NEW a \in SessionType, a.active, MainPulse(a)
  PROVE  Held'
<1>1. [a EXCEPT !.state = "Pulse"].active /\ [a EXCEPT !.state = "Pulse"].state = "Pulse"
  BY DEF SessionType
<1> QED  BY <1>1 DEF MainPulse, Continue, Energise, Held

LEMMA IntraPulseHeld ==
  ASSUME NEW a \in SessionType, a.active, IntraPulse(a)
  PROVE  Held'
<1>1. /\ [a EXCEPT !.state = "BurstPulse"].active
      /\ [a EXCEPT !.state = "BurstPulse"].state = "BurstPulse"
  BY DEF SessionType
<1> QED  BY <1>1 DEF IntraPulse, Continue, Energise, Held

LEMMA BeginBurstHeld ==
  ASSUME NEW a \in SessionType, a.active, BeginBurstEvent(a)
  PROVE  Held'
<1>1. PICK n \in 1..MaxBurstStrokes : IntraPulse([a EXCEPT !.target = n, !.done = 0])
  BY DEF BeginBurstEvent
<1> DEFINE b == [a EXCEPT !.target = n, !.done = 0]
<1>2. b \in SessionType /\ b.active
  <2>1. n \in 0..MaxBurstStrokes /\ 0 \in 0..MaxBurstStrokes
    BY BurstStrokesAssumption
  <2> QED  BY <2>1 DEF SessionType
<1>3. IntraPulse(b)
  BY <1>1
<1> HIDE DEF b
<1> QED  BY <1>2, <1>3, IntraPulseHeld

LEMMA StopEndOrWaitHeld ==
  ASSUME NEW a \in SessionType, StopEndOrWait(a)
  PROVE  Held'
<1>1. CASE EndSession(TRUE)
  BY <1>1, EndSessionHeld
<1>2. CASE WaitForGap(a)
  <2>1. [a EXCEPT !.state = "WaitingGap"].state = "WaitingGap"
    BY DEF SessionType
  <2> QED  BY <1>2, <2>1 DEF WaitForGap, Continue, Release, Held
<1> QED  BY <1>1, <1>2 DEF StopEndOrWait

LEMMA StartAutomaticOwned ==
  ASSUME Owned, NEW c \in Cmds, StartAutomatic(c)
  PROVE  OneMotion' /\ RelayOwned'
<1>1. CASE \E valid \in BOOLEAN : Reject(c, "start", valid, 0)
  BY <1>1, RejectOwned
<1>2. CASE /\ ~IsActive /\ relay # "On" /\ activeMode' = "automatic"
           /\ UNCHANGED <<stroke, burst>>
           /\ \E delayed, burstsOn \in BOOLEAN :
                /\ auto' = [NoSession EXCEPT !.active = TRUE, !.burstsOn = burstsOn,
                              !.state = IF delayed THEN "StartDelay" ELSE "Pulse"]
                /\ IF delayed THEN UNCHANGED <<relay, callback>> ELSE Energise("main")
  <2>1. ~stroke'.active /\ ~burst'.active
    BY <1>2 DEF Owned, OneMotion, IsActive
  <2>2. relay = "Idle" /\ callback = "none"
    BY <1>2 DEF Owned, RelayOwned, Typed, TypeOK
  <2>3. Held'
    <3>1. PICK delayed \in BOOLEAN, burstsOn \in BOOLEAN :
            /\ auto' = [NoSession EXCEPT !.active = TRUE, !.burstsOn = burstsOn,
                          !.state = IF delayed THEN "StartDelay" ELSE "Pulse"]
            /\ IF delayed THEN UNCHANGED <<relay, callback>> ELSE Energise("main")
      BY <1>2
    <3>2. CASE delayed
      <4>1. auto'.state = "StartDelay"
        BY <3>1, <3>2 DEF NoSession
      <4> QED  BY <2>2, <3>1, <3>2, <4>1 DEF Held
    <3>3. CASE ~delayed
      <4>1. auto'.state = "Pulse" /\ auto'.active
        BY <3>1, <3>3 DEF NoSession
      <4> QED  BY <3>1, <3>3, <4>1 DEF Held, Energise
    <3> QED  BY <3>2, <3>3
  <2> QED  BY <1>2, <2>1, <2>3, HeldOwned
<1> QED  BY <1>1, <1>2 DEF StartAutomatic, Refused
(* A stop or an update only leaves a note in the session. *)
LEMMA NoteOwned ==
  ASSUME Owned, UNCHANGED <<relay, callback, activeMode, stroke, burst>>,
         auto'.active = auto.active, auto'.state = auto.state
  PROVE  OneMotion' /\ RelayOwned'
BY DEF Owned, OneMotion, RelayOwned, Owner

LEMMA StopAutomaticOwned ==
  ASSUME Owned, NEW c \in Cmds, StopAutomatic(c)
  PROVE  OneMotion' /\ RelayOwned'
<1>1. CASE Reject(c, "stop", TRUE, 0)
  BY <1>1, RejectOwned
<1>2. CASE /\ auto' = [auto EXCEPT !.stop = c]
           /\ UNCHANGED <<relay, callback, activeMode, stroke, burst>>
  <2>1. auto'.active = auto.active /\ auto'.state = auto.state
    BY <1>2 DEF Owned, Typed, TypeOK, SessionType
  <2> QED  BY <1>2, <2>1, NoteOwned
<1> QED  BY <1>1, <1>2 DEF StopAutomatic

LEMMA UpdateAutomaticOwned ==
  ASSUME Owned, NEW c \in Cmds, UpdateAutomatic(c)
  PROVE  OneMotion' /\ RelayOwned'
<1>1. CASE \E valid \in BOOLEAN : Reject(c, "update", valid, 0)
  BY <1>1, RejectOwned
<1>2. CASE /\ \E next \in {"bursts", "plain"} : auto' = [auto EXCEPT !.pending = next]
           /\ UNCHANGED <<relay, callback, activeMode, stroke, burst>>
  <2>1. auto'.active = auto.active /\ auto'.state = auto.state
    BY <1>2 DEF Owned, Typed, TypeOK, SessionType
  <2> QED  BY <1>2, <2>1, NoteOwned
<1> QED  BY <1>1, <1>2 DEF UpdateAutomatic

LEMMA MainPulseDoneOwned == ASSUME Owned, MainPulseDone PROVE OneMotion' /\ RelayOwned'
<1> DEFINE a == Updated(auto)
<1>1. a \in SessionType /\ a.active
  BY UpdatedType DEF MainPulseDone, Owned, Typed, TypeOK
<1>2. \/ EndSession(FALSE) \/ BeginBurstEvent(a) \/ StopEndOrWait(a)
  BY DEF MainPulseDone
<1>3. activeMode' = "automatic" /\ ~stroke'.active /\ ~burst'.active
  BY DEF MainPulseDone, Owned, OneMotion
<1> HIDE DEF a
<1>4. Held'
  BY <1>1, <1>2, EndSessionHeld, BeginBurstHeld, StopEndOrWaitHeld
<1> QED  BY <1>3, <1>4, HeldOwned

LEMMA IntraPulseDoneOwned == ASSUME Owned, IntraPulseDone PROVE OneMotion' /\ RelayOwned'
<1> DEFINE counted == [auto EXCEPT !.done = @ + 1]
           a == Updated(counted)
<1>1. counted \in SessionType /\ counted.active
  <2>1. auto \in SessionType /\ auto.active /\ (auto.done < auto.target \/ auto.done = 0)
    BY DEF IntraPulseDone, Owned, Typed, TypeOK, BurstCounters
  <2>2. auto.done \in 0..MaxBurstStrokes /\ auto.target \in 0..MaxBurstStrokes
    BY <2>1 DEF SessionType
  <2>3. auto.done + 1 \in 0..MaxBurstStrokes
    BY <2>1, <2>2, BurstStrokesAssumption
  <2> QED  BY <2>1, <2>3 DEF SessionType
<1>2. a \in SessionType /\ a.active
  BY <1>1, UpdatedType
<1>3. \/ EndSession(FALSE) \/ StopEndOrWait(a) \/ IntraPulse(a)
      \/ Release /\ Continue([a EXCEPT !.state = "BurstGap"])
  BY DEF IntraPulseDone
<1>4. activeMode' = "automatic" /\ ~stroke'.active /\ ~burst'.active
  BY DEF IntraPulseDone, Owned, OneMotion
<1> HIDE DEF a
<1>5. ASSUME Release, Continue([a EXCEPT !.state = "BurstGap"])
      PROVE  Held'
  <2>1. [a EXCEPT !.state = "BurstGap"].state = "BurstGap"
    BY <1>2 DEF SessionType
  <2> QED  BY <1>5, <2>1 DEF Release, Continue, Held
<1>6. Held'
  BY <1>2, <1>3, <1>5, EndSessionHeld, StopEndOrWaitHeld, IntraPulseHeld
<1> QED  BY <1>4, <1>6, HeldOwned

(* A poll of the session ends in Held, and forgets the mode if it ended it. *)
LEMMA SessionPollOwned ==
  ASSUME Owned, SessionActive, Held', Forget, UNCHANGED <<stroke, burst>>
  PROVE  OneMotion' /\ RelayOwned'
<1>1. ~stroke'.active /\ ~burst'.active
  BY DEF Owned, OneMotion, SessionActive
<1>2. auto'.active => activeMode' = "automatic"
  BY DEF Forget
<1> QED  BY <1>1, <1>2, HeldOwned

LEMMA ExecPollOwned == ASSUME Owned, ExecPoll PROVE OneMotion' /\ RelayOwned'
<1> DEFINE a == Updated(auto)
<1>1. auto \in SessionType /\ a \in SessionType /\ a.active = auto.active
  BY UpdatedType DEF Owned, Typed, TypeOK
<1>2. CASE BurstGapElapsed
  BY <1>2, BurstGapElapsedOwned
<1>3. CASE StartDelayElapsed
  <2>1. SessionActive /\ Forget /\ UNCHANGED <<stroke, burst>>
        /\ (EndSession(FALSE) \/ MainPulse(a))
    BY <1>3 DEF StartDelayElapsed
  <2> HIDE DEF a
  <2> QED  BY <1>1, <2>1, EndSessionHeld, MainPulseHeld, SessionPollOwned DEF SessionActive
<1>4. CASE BurstGapPoll
  <2>1. SessionActive /\ Forget /\ UNCHANGED <<stroke, burst>>
        /\ (EndSession(FALSE) \/ IntraPulse(a))
    BY <1>4 DEF BurstGapPoll
  <2> HIDE DEF a
  <2> QED  BY <1>1, <2>1, EndSessionHeld, IntraPulseHeld, SessionPollOwned DEF SessionActive
<1>5. CASE WaitingGapPoll
  <2>1. /\ SessionActive /\ Forget /\ UNCHANGED <<stroke, burst>>
        /\ \/ EndSession(TRUE) \/ EndSession(FALSE) \/ BeginBurstEvent(auto)
           \/ BeginBurstEvent(a) \/ MainPulse(a)
    BY <1>5 DEF WaitingGapPoll
  <2> HIDE DEF a
  <2> QED  BY <1>1, <2>1, EndSessionHeld, BeginBurstHeld, MainPulseHeld, SessionPollOwned
           DEF SessionActive
<1> QED  BY <1>2, <1>3, <1>4, <1>5 DEF ExecPoll

LEMMA AbortOwned == ASSUME Owned, NEW c \in Cmds, Abort(c) PROVE OneMotion' /\ RelayOwned'
<1>1. CASE Reject(c, "abort", TRUE, 0)
  BY <1>1, RejectOwned
<1>2. ASSUME NEW l, AbortStroke(l) PROVE OneMotion' /\ RelayOwned'
  <2>1. ~stroke'.active /\ ~burst'.active /\ ~auto'.active
    BY <1>2 DEF AbortStroke, NoStroke, Owned, OneMotion
  <2> QED  BY <1>2, <2>1 DEF AbortStroke, AbortRelay, Release, OneMotion, RelayOwned, Owner
<1>3. ASSUME NEW l, AbortBurst(l) PROVE OneMotion' /\ RelayOwned'
  <2>1. ~stroke'.active /\ ~burst'.active /\ ~auto'.active
    BY <1>3 DEF AbortBurst, NoBurst, Owned, OneMotion
  <2>2. relay' = "Idle" /\ callback' = "none"
    BY <1>3 DEF AbortBurst, AbortRelay, Release, Owned, Typed, TypeOK, OneMotion, RelayOwned, Owner
  <2> QED  BY <2>1, <2>2 DEF OneMotion, RelayOwned, Owner
<1>4. ASSUME NEW l, AbortSession(l) PROVE OneMotion' /\ RelayOwned'
  <2>1. ~stroke'.active /\ ~burst'.active /\ ~auto'.active
    BY <1>4 DEF AbortSession, SessionActive, FinishSession, NoSession, Owned, OneMotion
  <2>2. relay' = "Idle" /\ callback' = "none"
    BY <1>4 DEF AbortSession, SessionActive, AbortRelay, Release, Owned, Typed, TypeOK,
                OneMotion, RelayOwned, Owner
  <2> QED  BY <2>1, <2>2 DEF OneMotion, RelayOwned, Owner
<1> QED  BY <1>1, <1>2, <1>3, <1>4 DEF Abort

LEMMA InitOwned == Init => Owned
<1> SUFFICES ASSUME Init PROVE Owned
  OBVIOUS
<1>1. ~stroke.active /\ ~burst.active /\ ~auto.active
  BY DEF Init, NoStroke, NoBurst, NoSession
<1> QED  BY <1>1, InitTyped DEF Init, Owned, OneMotion, RelayOwned, Owner

LEMMA NextOwned == Owned /\ [Next]_vars => Owned'
<1> SUFFICES ASSUME Owned, [Next]_vars PROVE Owned'
  OBVIOUS
<1>1. Typed'
  BY NextTyped DEF Owned
<1>2. ASSUME NEW c \in Cmds, Command(c) PROVE OneMotion' /\ RelayOwned'
  BY <1>2, StrokeOwned, BurstOwned, AbortOwned, StartAutomaticOwned, StopAutomaticOwned,
     UpdateAutomaticOwned DEF Command
<1>3. CASE RelayPoll
  BY <1>1, <1>3, StrokePulseDoneOwned, BurstPulseDoneOwned, MainPulseDoneOwned,
     IntraPulseDoneOwned DEF RelayPoll, Owned
<1>4. CASE ExecPoll
  BY <1>1, <1>4, ExecPollOwned DEF Owned
<1>5. CASE UNCHANGED vars
  BY <1>1, <1>5 DEF vars, Owned, OneMotion, RelayOwned, Owner
<1> QED  BY <1>1, <1>2, <1>3, <1>4, <1>5 DEF Next, Owned

(* The relay is energised exactly while the one running mode is in a pulse and
   its callback is that mode's; at most one mode is in motion, the one abort
   would find: for any commands and burst length (AutomaticRelay,
   ExecutionMode, CommandHandler). *)
THEOREM RelayIsSafe == Spec => []RelaySafe
<1>1. Owned => RelaySafe
  BY DEF Owned, RelaySafe
<1> QED  BY <1>1, InitOwned, NextOwned, PTL DEF Spec
-----------------------------------------------------------------------------
(* What the history operators do to one command's entry. *)
LEMMA AskedAt ==
  ASSUME NEW l \in LogType, NEW c \in Cmds, NEW d \in Cmds, NEW kind, NEW valid, NEW want
  PROVE  Asked(l, c, kind, valid, want)[d] =
           IF d = c THEN [kind |-> kind, valid |-> valid, want |-> want,
                          fired |-> 0, acks |-> <<>>]
           ELSE l[d]
BY DEF Asked, LogType

LEMMA AckedAt ==
  ASSUME NEW l \in LogType, NEW c, NEW d \in Cmds, NEW ok
  PROVE  /\ Acked(l, c, ok)[d].kind = l[d].kind /\ Acked(l, c, ok)[d].valid = l[d].valid
         /\ Acked(l, c, ok)[d].want = l[d].want /\ Acked(l, c, ok)[d].fired = l[d].fired
         /\ Acked(l, c, ok)[d].acks = IF d = c THEN Append(l[d].acks, ok) ELSE l[d].acks
<1>1. l[d] \in CmdType
  BY DEF LogType
<1>2. Acked(l, c, ok)[d] = IF d = c THEN [l[d] EXCEPT !.acks = Append(@, ok)] ELSE l[d]
  BY DEF Acked, LogType
<1> QED  BY <1>1, <1>2 DEF CmdType

LEMMA FiredAt ==
  ASSUME NEW l \in LogType, NEW c, NEW d \in Cmds
  PROVE  /\ Fired(l, c)[d].kind = l[d].kind /\ Fired(l, c)[d].valid = l[d].valid
         /\ Fired(l, c)[d].want = l[d].want /\ Fired(l, c)[d].acks = l[d].acks
         /\ Fired(l, c)[d].fired = IF d = c THEN l[d].fired + 1 ELSE l[d].fired
<1>1. l[d] \in CmdType
  BY DEF LogType
<1>2. Fired(l, c)[d] = IF d = c THEN [l[d] EXCEPT !.fired = @ + 1] ELSE l[d]
  BY DEF Fired, LogType
<1> QED  BY <1>1, <1>2 DEF CmdType

(* A command that is answered as it is received. *)
LEMMA AnsweredAt ==
  ASSUME NEW l \in LogType, NEW c \in Cmds, NEW d \in Cmds, NEW kind \in Kinds,
         NEW valid \in BOOLEAN, NEW want \in 0..MaxBurstStrokes, NEW ok \in BOOLEAN
  PROVE  LET n == Acked(Asked(l, c, kind, valid, want), c, ok) IN
         /\ n \in LogType
         /\ d # c => /\ n[d].kind = l[d].kind /\ n[d].want = l[d].want
                     /\ n[d].fired = l[d].fired /\ n[d].acks = l[d].acks
         /\ d = c => /\ n[d].kind = kind /\ n[d].valid = valid /\ n[d].want = want
                     /\ n[d].fired = 0 /\ n[d].acks = <<ok>>
<1> DEFINE a == Asked(l, c, kind, valid, want)
<1>1. a \in LogType
  BY AskedType
<1>2. a[d] = IF d = c THEN [kind |-> kind, valid |-> valid, want |-> want,
                            fired |-> 0, acks |-> <<>>] ELSE l[d]
  BY AskedAt
<1> HIDE DEF a
<1>3. Acked(a, c, ok) \in LogType
  BY <1>1, AckedType
<1>4. Append(<<>>, ok) = <<ok>>
  OBVIOUS
<1>5. /\ Acked(a, c, ok)[d].kind = a[d].kind /\ Acked(a, c, ok)[d].valid = a[d].valid
      /\ Acked(a, c, ok)[d].want = a[d].want /\ Acked(a, c, ok)[d].fired = a[d].fired
      /\ Acked(a, c, ok)[d].acks = IF d = c THEN Append(a[d].acks, ok) ELSE a[d].acks
  BY <1>1, AckedAt
<1>6. CASE d = c
  BY <1>2, <1>3, <1>4, <1>5, <1>6 DEF a
<1>7. CASE d # c
  BY <1>2, <1>3, <1>5, <1>7 DEF a
<1> QED  BY <1>6, <1>7
-----------------------------------------------------------------------------
(* The shapes a step can have for the sender of commands. *)
Refusal(c) == \E kind \in Kinds \ {"none"}, valid \in BOOLEAN, want \in 0..MaxBurstStrokes :
  /\ Fresh(c) /\ Reject(c, kind, valid, want)
  /\ kind \in {"stroke", "burst", "start"} /\ valid => IsActive \/ relay = "On" \/ burst.active \/ auto.active

Idles == ~stroke.active /\ ~burst.active /\ ~auto.active

StrokeBegins(c) ==
  /\ Fresh(c) /\ Idles
  /\ stroke' = [active |-> TRUE, corr |-> c] /\ log' = Asked(log, c, "stroke", TRUE, 1)
  /\ UNCHANGED <<burst, auto, notices>>

BurstBegins(c) == \E n \in 1..MaxBurstStrokes :
  /\ Fresh(c) /\ Idles
  /\ burst' = [active |-> TRUE, state |-> "Pulse", target |-> n, done |-> 0, corr |-> c]
  /\ log' = Asked(log, c, "burst", TRUE, n)
  /\ UNCHANGED <<stroke, auto, notices>>

SessionBegins(c) ==
  /\ Fresh(c) /\ Idles
  /\ auto'.active /\ auto'.stop = None
  /\ notices' = [notices EXCEPT !.started = @ + 1]
  /\ log' = Acked(Asked(log, c, "start", TRUE, 0), c, TRUE)
  /\ UNCHANGED <<stroke, burst>>

(* A stop or an update that the session has taken note of. *)
SessionNotes(c) == \E kind \in {"stop", "update"} :
  /\ Fresh(c) /\ auto.active /\ auto'.active
  /\ auto'.stop = IF kind = "stop" THEN c ELSE auto.stop
  /\ kind = "stop" => auto.stop = None
  /\ log' = Acked(Asked(log, c, kind, TRUE, 0), c, TRUE)
  /\ UNCHANGED <<stroke, burst, notices>>

SessionEnds(ok) == auto.active /\ FinishSession(ok, log) /\ UNCHANGED <<stroke, burst>>

BurstEnds ==
  /\ burst.active /\ burst.done + 1 = burst.target /\ burst' = NoBurst
  /\ log' = Acked(Fired(log, burst.corr), burst.corr, TRUE)
  /\ UNCHANGED <<stroke, auto, notices>>

BurstGoesOn ==
  /\ burst.active /\ burst'.active /\ burst'.corr = burst.corr
  /\ burst'.target = burst.target /\ burst'.done = burst.done + 1
  /\ burst.done + 1 < burst.target
  /\ log' = Fired(log, burst.corr)
  /\ UNCHANGED <<stroke, auto, notices>>

Unseen ==
  /\ UNCHANGED <<stroke, notices, log>>
  /\ burst'.active = burst.active /\ burst'.corr = burst.corr
  /\ burst'.target = burst.target /\ burst'.done = burst.done
  /\ auto'.active = auto.active /\ auto'.stop = auto.stop

(* A motion that is aborted; its command's answer comes after the abort's. *)
Aborts(c) ==
  LET asked == Acked(Asked(log, c, "abort", TRUE, 0), c, TRUE) IN
  Fresh(c) /\ (AbortStroke(asked) \/ AbortBurst(asked) \/ AbortSession(asked))

Shapes ==
  \/ \E c \in Cmds : \/ Refusal(c) \/ StrokeBegins(c) \/ BurstBegins(c)
                     \/ SessionBegins(c) \/ SessionNotes(c) \/ Aborts(c)
  \/ \E ok \in BOOLEAN : SessionEnds(ok)
  \/ StrokePulseDone \/ BurstEnds \/ BurstGoesOn \/ Unseen

(* Every command has its place: what is in motion is not yet answered, and
   what is answered is not in motion. *)
Waiting(c) == log[c].acks = <<>>
Succeeded(c) == log[c].acks = <<TRUE>>
EntryTrue(c) ==
  /\ Fresh(c) => Waiting(c)
  /\ stroke.active /\ stroke.corr = c =>
       log[c].kind = "stroke" /\ log[c].want = 1 /\ log[c].fired = 0 /\ Waiting(c)
  /\ burst.active /\ burst.corr = c =>
       /\ log[c].kind = "burst" /\ log[c].want = burst.target
       /\ log[c].fired = burst.done /\ Waiting(c)
  /\ auto.stop = c => log[c].kind = "stop"
  /\ log[c].kind \in {"stroke", "burst"} =>
       /\ log[c].fired <= log[c].want
       /\ Succeeded(c) => log[c].fired = log[c].want

Motions ==
  /\ stroke.active => stroke.corr \in Cmds
  /\ burst.active => burst.corr \in Cmds /\ burst.done < burst.target
  /\ auto.stop # None => auto.active

Accounted == Owned /\ Motions /\ OneNoticePerSession /\ \A c \in Cmds : EntryTrue(c)
-----------------------------------------------------------------------------
LEMMA ActiveFound ==
  ASSUME Accounted
  PROVE  /\ IsActive <=> ~Idles
         /\ Idles => relay = "Idle" /\ auto.stop = None
         /\ SessionActive <=> auto.active
BY DEF Accounted, Owned, OneMotion, RelayOwned, Owner, Typed, TypeOK, IsActive, Idles, Motions,
       SessionActive

(* What a step of the session that ends nothing shows: nothing. *)
LEMMA PulseUnseen ==
  ASSUME NEW a \in SessionType, a.active = auto.active, a.stop = auto.stop,
         UNCHANGED <<stroke, burst>>,
         MainPulse(a) \/ IntraPulse(a) \/ BeginBurstEvent(a) \/ WaitForGap(a)
         \/ Continue([a EXCEPT !.state = "BurstGap"])
  PROVE  Unseen
<1>1. ASSUME NEW b, NEW s, Continue([b EXCEPT !.state = s]),
             b \in SessionType, b.active = auto.active, b.stop = auto.stop
      PROVE  Unseen
  <2>1. /\ [b EXCEPT !.state = s].active = b.active
        /\ [b EXCEPT !.state = s].stop = b.stop
    BY <1>1 DEF SessionType
  <2> QED  BY <1>1, <2>1 DEF Continue, Unseen
<1>2. ASSUME NEW b \in SessionType, b.active = auto.active, b.stop = auto.stop, IntraPulse(b)
      PROVE  Unseen
  <2>1. Continue([b EXCEPT !.state = "BurstPulse"])
    BY <1>2 DEF IntraPulse
  <2> QED  BY <1>1, <1>2, <2>1
<1>3. CASE BeginBurstEvent(a)
  <2>1. PICK n \in 1..MaxBurstStrokes : IntraPulse([a EXCEPT !.target = n, !.done = 0])
    BY <1>3 DEF BeginBurstEvent
  <2> DEFINE b == [a EXCEPT !.target = n, !.done = 0]
  <2>2. b \in SessionType /\ b.active = a.active /\ b.stop = a.stop
    <3>1. n \in 0..MaxBurstStrokes /\ 0 \in 0..MaxBurstStrokes
      BY BurstStrokesAssumption
    <3> QED  BY <3>1 DEF SessionType
  <2>3. IntraPulse(b)
    BY <2>1
  <2> HIDE DEF b
  <2> QED  BY <1>2, <2>2, <2>3
<1>4. CASE MainPulse(a)
  <2>1. Continue([a EXCEPT !.state = "Pulse"])
    BY <1>4 DEF MainPulse
  <2> QED  BY <1>1, <2>1
<1>5. CASE WaitForGap(a)
  <2>1. Continue([a EXCEPT !.state = "WaitingGap"])
    BY <1>5 DEF WaitForGap
  <2> QED  BY <1>1, <2>1
<1>6. CASE IntraPulse(a)
  BY <1>2, <1>6
<1>7. CASE Continue([a EXCEPT !.state = "BurstGap"])
  BY <1>1, <1>7
<1> QED  BY <1>3, <1>4, <1>5, <1>6, <1>7

LEMMA EndSeen ==
  ASSUME auto.active, NEW ok \in BOOLEAN, EndSession(ok), UNCHANGED <<stroke, burst>>
  PROVE  SessionEnds(ok)
BY DEF EndSession, SessionEnds

LEMMA StrokeShape == ASSUME Accounted, NEW c \in Cmds, Stroke(c) PROVE Refusal(c) \/ StrokeBegins(c)
<1>1. PICK valid \in BOOLEAN :
        /\ Fresh(c)
        /\ \/ Refused(valid) /\ Reject(c, "stroke", valid, 1)
           \/ /\ ~Refused(valid)
              /\ stroke' = [active |-> TRUE, corr |-> c]
              /\ log' = Asked(log, c, "stroke", valid, 1)
              /\ UNCHANGED <<burst, auto, notices>>
  BY DEF Stroke
<1>2. 1 \in 0..MaxBurstStrokes /\ "stroke" \in Kinds \ {"none"}
  BY BurstStrokesAssumption DEF Kinds
<1>3. CASE Refused(valid) /\ Reject(c, "stroke", valid, 1)
  BY <1>1, <1>2, <1>3 DEF Refusal, Refused
<1>4. CASE ~(Refused(valid) /\ Reject(c, "stroke", valid, 1))
  <2>1. valid = TRUE /\ Idles
    BY <1>1, <1>4, ActiveFound DEF Refused
  <2> QED  BY <1>1, <1>4, <2>1 DEF StrokeBegins
<1> QED  BY <1>3, <1>4

LEMMA BurstShape == ASSUME Accounted, NEW c \in Cmds, Burst(c) PROVE Refusal(c) \/ BurstBegins(c)
<1>1. PICK valid \in BOOLEAN, n \in 1..MaxBurstStrokes :
        /\ Fresh(c)
        /\ \/ (Refused(valid) \/ burst.active) /\ Reject(c, "burst", valid, n)
           \/ /\ ~Refused(valid)
              /\ burst' = [active |-> TRUE, state |-> "Pulse", target |-> n,
                           done |-> 0, corr |-> c]
              /\ log' = Asked(log, c, "burst", valid, n)
              /\ UNCHANGED <<stroke, auto, notices>>
  BY DEF Burst
<1>2. n \in 0..MaxBurstStrokes /\ "burst" \in Kinds \ {"none"}
  BY BurstStrokesAssumption DEF Kinds
<1>3. CASE (Refused(valid) \/ burst.active) /\ Reject(c, "burst", valid, n)
  BY <1>1, <1>2, <1>3 DEF Refusal, Refused
<1>4. CASE ~((Refused(valid) \/ burst.active) /\ Reject(c, "burst", valid, n))
  <2>1. valid = TRUE /\ Idles
    BY <1>1, <1>4, ActiveFound DEF Refused
  <2> QED  BY <1>1, <1>4, <2>1 DEF BurstBegins
<1> QED  BY <1>3, <1>4

LEMMA StartShape ==
  ASSUME Accounted, NEW c \in Cmds, StartAutomatic(c)
  PROVE  Refusal(c) \/ SessionBegins(c)
<1> DEFINE session(delayed, burstsOn) ==
      [NoSession EXCEPT !.active = TRUE, !.burstsOn = burstsOn,
                        !.state = IF delayed THEN "StartDelay" ELSE "Pulse"]
<1>1. PICK valid \in BOOLEAN, delayed \in BOOLEAN, burstsOn \in BOOLEAN :
        /\ Fresh(c)
        /\ \/ (Refused(valid) \/ auto.active) /\ Reject(c, "start", valid, 0)
           \/ /\ ~Refused(valid)
              /\ auto' = session(delayed, burstsOn)
              /\ notices' = [notices EXCEPT !.started = @ + 1]
              /\ log' = Acked(Asked(log, c, "start", valid, 0), c, TRUE)
              /\ UNCHANGED <<stroke, burst>>
  BY DEF StartAutomatic
<1>2. 0 \in 0..MaxBurstStrokes /\ "start" \in Kinds \ {"none"}
  BY BurstStrokesAssumption DEF Kinds
<1>3. CASE (Refused(valid) \/ auto.active) /\ Reject(c, "start", valid, 0)
  BY <1>1, <1>2, <1>3 DEF Refusal, Refused
<1>4. CASE ~((Refused(valid) \/ auto.active) /\ Reject(c, "start", valid, 0))
  <2>1. valid = TRUE /\ Idles
    BY <1>1, <1>4, ActiveFound DEF Refused
  <2>2. session(delayed, burstsOn).active /\ session(delayed, burstsOn).stop = None
    BY DEF NoSession
  <2> HIDE DEF session
  <2> QED  BY <1>1, <1>4, <2>1, <2>2 DEF SessionBegins
<1> QED  BY <1>3, <1>4

LEMMA NoteShape ==
  ASSUME Accounted, NEW c \in Cmds, StopAutomatic(c) \/ UpdateAutomatic(c)
  PROVE  Refusal(c) \/ SessionNotes(c)
<1>1. 0 \in 0..MaxBurstStrokes /\ {"stop", "update"} \subseteq Kinds \ {"none", "stroke", "burst", "start"}
  BY BurstStrokesAssumption DEF Kinds
<1>2. auto \in SessionType
  BY DEF Accounted, Owned, Typed, TypeOK
<1>3. CASE StopAutomatic(c)
  <2>1. CASE Reject(c, "stop", TRUE, 0)
    BY <1>1, <1>3, <2>1 DEF StopAutomatic, Refusal
  <2>2. CASE ~Reject(c, "stop", TRUE, 0)
    <3>1. auto' = [auto EXCEPT !.stop = c] /\ auto.active /\ auto.stop = None
      BY <1>3, <2>2 DEF StopAutomatic, SessionActive
    <3>2. auto'.active /\ auto'.stop = c
      BY <1>2, <3>1 DEF SessionType
    <3> QED  BY <1>3, <2>2, <3>1, <3>2 DEF StopAutomatic, SessionNotes
  <2> QED  BY <2>1, <2>2
<1>4. CASE UpdateAutomatic(c)
  <2>1. PICK valid \in BOOLEAN, next \in {"bursts", "plain"} :
        /\ Fresh(c)
        /\ \/ Reject(c, "update", valid, 0)
           \/ /\ SessionActive /\ valid
              /\ auto' = [auto EXCEPT !.pending = next]
              /\ log' = Acked(Asked(log, c, "update", valid, 0), c, TRUE)
              /\ UNCHANGED <<stroke, burst, notices>>
    BY <1>4 DEF UpdateAutomatic
  <2>2. CASE Reject(c, "update", valid, 0)
    BY <1>1, <2>1, <2>2 DEF Refusal
  <2>3. CASE ~Reject(c, "update", valid, 0)
    <3>1. auto'.active = auto.active /\ auto'.stop = auto.stop
      BY <1>2, <2>1, <2>3 DEF SessionType
    <3>2. valid = TRUE /\ auto.active
      BY <2>1, <2>3 DEF SessionActive
    <3> QED  BY <2>1, <2>3, <3>1, <3>2 DEF SessionNotes
  <2> QED  BY <2>2, <2>3
<1> QED  BY <1>3, <1>4

LEMMA AbortShape == ASSUME NEW c \in Cmds, Abort(c) PROVE Refusal(c) \/ Aborts(c)
<1>1. 0 \in 0..MaxBurstStrokes /\ "abort" \in Kinds \ {"none", "stroke", "burst", "start"}
  BY BurstStrokesAssumption DEF Kinds
<1>2. CASE Reject(c, "abort", TRUE, 0)
  BY <1>1, <1>2 DEF Abort, Refusal
<1>3. CASE ~Reject(c, "abort", TRUE, 0)
  BY <1>3 DEF Abort, Aborts
<1> QED  BY <1>2, <1>3

LEMMA BurstPulseShape ==
  ASSUME Accounted, BurstPulseDone
  PROVE  BurstEnds \/ BurstGoesOn
<1> DEFINE n == burst.done + 1
<1>1. /\ burst.active /\ burst \in BurstType /\ burst.done < burst.target
      /\ burst.done \in Nat /\ burst.target \in Nat
  BY DEF BurstPulseDone, Accounted, Motions, Owned, Typed, TypeOK, BurstType
<1>2. CASE AllFired(n)
  <2>1. n = burst.target
    BY <1>1, <1>2 DEF AllFired
  <2> QED  BY <1>1, <1>2, <2>1 DEF BurstPulseDone, BurstEnds
<1>3. CASE ~AllFired(n)
  <2>1. n < burst.target
    BY <1>1, <1>3 DEF AllFired
  <2>2. burst' \in {[burst EXCEPT !.done = n], [burst EXCEPT !.done = n, !.state = "Gap"]}
        /\ log' = Fired(log, burst.corr) /\ UNCHANGED <<stroke, auto, notices>>
    BY <1>3 DEF BurstPulseDone
  <2>3. /\ burst'.active /\ burst'.corr = burst.corr
        /\ burst'.target = burst.target /\ burst'.done = n
    BY <1>1, <2>2 DEF BurstType
  <2> QED  BY <1>1, <2>1, <2>2, <2>3 DEF BurstGoesOn
<1> QED  BY <1>2, <1>3

(* The session with one more pulse of its burst counted. *)
LEMMA CountedType ==
  ASSUME auto \in SessionType, BurstCounters, IntraPulseDone
  PROVE  LET a == Updated([auto EXCEPT !.done = @ + 1]) IN
         a \in SessionType /\ a.active = auto.active /\ a.stop = auto.stop
<1> DEFINE counted == [auto EXCEPT !.done = @ + 1]
<1>1. auto.done < auto.target \/ auto.done = 0
  BY DEF IntraPulseDone, BurstCounters
<1>2. auto.done \in 0..MaxBurstStrokes /\ auto.target \in 0..MaxBurstStrokes
  BY DEF SessionType
<1>3. auto.done + 1 \in 0..MaxBurstStrokes
  BY <1>1, <1>2, BurstStrokesAssumption
<1>4. counted \in SessionType /\ counted.active = auto.active /\ counted.stop = auto.stop
  BY <1>3 DEF SessionType
<1> QED  BY <1>4, UpdatedType

LEMMA SessionPulseShape ==
  ASSUME Accounted, MainPulseDone \/ IntraPulseDone
  PROVE  Unseen \/ \E ok \in BOOLEAN : SessionEnds(ok)
<1>1. auto.active /\ UNCHANGED <<stroke, burst>> /\ auto \in SessionType
  BY DEF MainPulseDone, IntraPulseDone, Accounted, Owned, Typed, TypeOK
<1>2. PICK a \in SessionType :
        /\ a.active = auto.active /\ a.stop = auto.stop
        /\ \/ \E ok \in BOOLEAN : EndSession(ok)
           \/ IntraPulse(a) \/ BeginBurstEvent(a) \/ WaitForGap(a)
           \/ Continue([a EXCEPT !.state = "BurstGap"])
  <2>1. CASE MainPulseDone
    <3> DEFINE a == Updated(auto)
    <3>1. a \in SessionType /\ a.active = auto.active /\ a.stop = auto.stop
      BY <1>1, UpdatedType
    <3>2. \/ \E ok \in BOOLEAN : EndSession(ok)
          \/ BeginBurstEvent(a) \/ WaitForGap(a)
      BY <2>1 DEF MainPulseDone, StopEndOrWait
    <3> HIDE DEF a
    <3> QED  BY <3>1, <3>2
  <2>2. CASE IntraPulseDone
    <3> DEFINE a == Updated([auto EXCEPT !.done = @ + 1])
    <3>2. a \in SessionType /\ a.active = auto.active /\ a.stop = auto.stop
      BY <1>1, <2>2, CountedType DEF Accounted, Owned, Typed
    <3>3. \/ \E ok \in BOOLEAN : EndSession(ok)
          \/ IntraPulse(a) \/ WaitForGap(a)
          \/ Continue([a EXCEPT !.state = "BurstGap"])
      BY <2>2 DEF IntraPulseDone, StopEndOrWait
    <3> HIDE DEF a
    <3> QED  BY <3>2, <3>3
  <2> QED  BY <2>1, <2>2
<1> QED  BY <1>1, <1>2, PulseUnseen, EndSeen

LEMMA ExecPollShape ==
  ASSUME Accounted, ExecPoll
  PROVE  Unseen \/ \E ok \in BOOLEAN : SessionEnds(ok)
<1>1. auto \in SessionType /\ burst \in BurstType
  BY DEF Accounted, Owned, Typed, TypeOK
<1>2. CASE BurstGapElapsed
  <2>1. burst' = [burst EXCEPT !.state = "Pulse"] /\ UNCHANGED <<stroke, auto, notices, log>>
    BY <1>2 DEF BurstGapElapsed
  <2>2. /\ burst'.active = burst.active /\ burst'.corr = burst.corr
        /\ burst'.target = burst.target /\ burst'.done = burst.done
    BY <1>1, <2>1 DEF BurstType
  <2> QED  BY <2>1, <2>2 DEF Unseen
<1>3. CASE ~BurstGapElapsed
  <2> DEFINE a == Updated(auto)
  <2>1. a \in SessionType /\ a.active = auto.active /\ a.stop = auto.stop
    BY <1>1, UpdatedType
  <2>2. /\ auto.active /\ UNCHANGED <<stroke, burst>>
        /\ \/ EndSession(FALSE) \/ EndSession(TRUE)
           \/ MainPulse(a) \/ IntraPulse(a) \/ BeginBurstEvent(a) \/ BeginBurstEvent(auto)
    BY <1>3 DEF ExecPoll, StartDelayElapsed, BurstGapPoll, WaitingGapPoll, SessionActive
  <2> HIDE DEF a
  <2> QED  BY <1>1, <2>1, <2>2, PulseUnseen, EndSeen
<1> QED  BY <1>2, <1>3

LEMMA NextShape == ASSUME Accounted, [Next]_vars PROVE Shapes
<1>1. ASSUME NEW c \in Cmds, Command(c) PROVE Shapes
  BY <1>1, StrokeShape, BurstShape, StartShape, NoteShape, AbortShape DEF Command, Shapes
<1>2. CASE RelayPoll
  BY <1>2, BurstPulseShape, SessionPulseShape DEF RelayPoll, Shapes
<1>3. CASE ExecPoll
  BY <1>3, ExecPollShape DEF Shapes
<1>4. CASE UNCHANGED vars
  BY <1>4 DEF vars, Unseen, Shapes
<1> QED  BY <1>1, <1>2, <1>3, <1>4 DEF Next
-----------------------------------------------------------------------------
LEMMA Typical ==
  ASSUME Accounted
  PROVE  /\ log \in LogType /\ notices \in [started : Nat, completed : Nat]
         /\ burst \in BurstType /\ auto \in SessionType /\ NoSession.stop = None
         /\ ~NoSession.active /\ ~NoBurst.active /\ ~NoStroke.active
         /\ 0 \in 0..MaxBurstStrokes /\ 1 \in 0..MaxBurstStrokes
BY BurstStrokesAssumption DEF Accounted, Owned, Typed, TypeOK, NoSession, NoBurst, NoStroke

(* A command that the step does not touch. *)
LEMMA Untouched ==
  ASSUME NEW d \in Cmds, EntryTrue(d),
         log'[d].kind = log[d].kind, log'[d].want = log[d].want,
         log'[d].fired = log[d].fired, log'[d].acks = log[d].acks,
         stroke'.active /\ stroke'.corr = d => stroke.active /\ stroke.corr = d,
         burst'.active /\ burst'.corr = d =>
           /\ burst.active /\ burst.corr = d
           /\ burst'.target = burst.target /\ burst'.done = burst.done,
         auto'.stop = d => auto.stop = d
  PROVE  EntryTrue(d)'
<1>1. (Fresh(d)' <=> Fresh(d)) /\ (Waiting(d)' <=> Waiting(d)) /\ (Succeeded(d)' <=> Succeeded(d))
  BY DEF Fresh, Waiting, Succeeded
<1> QED  BY <1>1 DEF EntryTrue

(* A command answered by the step, and no longer in motion. *)
LEMMA Over ==
  ASSUME NEW d \in Cmds, NEW ok \in BOOLEAN,
         log'[d].kind # "none", log'[d].acks = <<ok>>, log'[d].fired <= log'[d].want,
         ok /\ log'[d].kind \in {"stroke", "burst"} => log'[d].fired = log'[d].want,
         ~(stroke'.active /\ stroke'.corr = d), ~(burst'.active /\ burst'.corr = d),
         auto'.stop = d => log'[d].kind = "stop"
  PROVE  EntryTrue(d)'
<1>1. ~Fresh(d)'
  BY DEF Fresh
<1>2. ASSUME Succeeded(d)' PROVE ok
  <2>1. <<ok>> = <<TRUE>>
    BY <1>2 DEF Succeeded
  <2> QED  BY <2>1
<1> QED  BY <1>1, <1>2 DEF EntryTrue

(* A command whose motion the step begins. *)
LEMMA Begun ==
  ASSUME NEW d \in Cmds, log'[d].fired = 0, log'[d].acks = <<>>, ~(auto'.stop = d),
         \/ /\ stroke'.active /\ ~burst'.active /\ log'[d].kind = "stroke" /\ log'[d].want = 1
         \/ /\ burst'.active /\ ~stroke'.active /\ log'[d].kind = "burst" /\ burst'.done = 0
            /\ log'[d].want = burst'.target /\ burst'.target \in 1..MaxBurstStrokes
  PROVE  EntryTrue(d)'
<1>1. ~Fresh(d)' /\ Waiting(d)'
  BY DEF Fresh, Waiting
<1>2. ~Succeeded(d)'
  BY DEF Succeeded
<1> QED  BY <1>1, <1>2 DEF EntryTrue

(* A command that is neither a stroke nor a burst. *)
LEMMA PlainTrue ==
  ASSUME NEW d \in Cmds, log'[d].kind \notin {"none", "stroke", "burst"},
         ~(stroke'.active /\ stroke'.corr = d), ~(burst'.active /\ burst'.corr = d),
         auto'.stop # d
  PROVE  EntryTrue(d)'
BY DEF EntryTrue, Fresh

(* A command answered as it is received leaves the others' entries alone and
   its own in order, unless it is in motion or a stroke or burst that succeeds. *)
LEMMA AnsweredTrue ==
  ASSUME Accounted, NEW c \in Cmds, NEW kind \in Kinds \ {"none"}, NEW valid \in BOOLEAN,
         NEW want \in 0..MaxBurstStrokes, NEW ok \in BOOLEAN,
         Fresh(c), kind \in {"stroke", "burst"} => ok = FALSE,
         log' = Acked(Asked(log, c, kind, valid, want), c, ok),
         UNCHANGED <<stroke, burst>>, auto'.stop = auto.stop \/ (auto'.stop = c /\ kind = "stop")
  PROVE  \A d \in Cmds : EntryTrue(d)'
<1> SUFFICES ASSUME NEW d \in Cmds PROVE EntryTrue(d)'
  OBVIOUS
<1>1. /\ d # c => /\ log'[d].kind = log[d].kind /\ log'[d].want = log[d].want
                  /\ log'[d].fired = log[d].fired /\ log'[d].acks = log[d].acks
      /\ d = c => /\ log'[d].kind = kind /\ log'[d].want = want
                  /\ log'[d].fired = 0 /\ log'[d].acks = <<ok>>
  BY Typical, AnsweredAt
<1>2. EntryTrue(c) /\ EntryTrue(d)
  BY DEF Accounted
<1>3. CASE d # c
  <2>1. auto'.stop = d => auto.stop = d
    BY <1>3
  <2> QED  BY <1>1, <1>2, <1>3, <2>1, Untouched
<1>4. CASE d = c
  <2>1. ~(stroke.active /\ stroke.corr = c) /\ ~(burst.active /\ burst.corr = c) /\ auto.stop # c
    BY <1>2 DEF EntryTrue, Fresh
  <2>2. /\ 0 <= want /\ kind # "none" /\ ~(ok /\ kind \in {"stroke", "burst"})
        /\ log'[c].fired <= log'[c].want
    BY <1>1, <1>4
  <2>3. auto'.stop = c => kind = "stop"
    BY <2>1
  <2> QED  BY <1>1, <1>4, <2>1, <2>2, <2>3, Over
<1> QED  BY <1>3, <1>4

LEMMA RefusalTrue ==
  ASSUME Accounted, NEW c \in Cmds, Refusal(c)
  PROVE  Motions' /\ OneNoticePerSession' /\ \A d \in Cmds : EntryTrue(d)'
<1>1. PICK kind \in Kinds \ {"none"}, valid \in BOOLEAN, want \in 0..MaxBurstStrokes :
        Fresh(c) /\ Reject(c, kind, valid, want)
  BY DEF Refusal
<1>2. UNCHANGED <<stroke, burst, auto, notices>>
      /\ log' = Acked(Asked(log, c, kind, valid, want), c, FALSE)
  BY <1>1 DEF Reject
<1>3. \A d \in Cmds : EntryTrue(d)'
  BY <1>1, <1>2, AnsweredTrue
<1> QED  BY <1>2, <1>3 DEF Accounted, Motions, OneNoticePerSession

LEMMA SessionCommandTrue ==
  ASSUME Accounted, NEW c \in Cmds, SessionBegins(c) \/ SessionNotes(c)
  PROVE  Motions' /\ OneNoticePerSession' /\ \A d \in Cmds : EntryTrue(d)'
<1>1. {"start", "stop", "update"} \subseteq Kinds \ {"none", "stroke", "burst"}
  BY DEF Kinds
<1>2. CASE SessionBegins(c)
  <2>1. auto'.stop = auto.stop
    BY <1>2, ActiveFound DEF SessionBegins
  <2>2. \A d \in Cmds : EntryTrue(d)'
    BY <1>1, <1>2, <2>1, Typical, AnsweredTrue DEF SessionBegins
  <2>3. OneNoticePerSession'
    BY <1>2, Typical DEF SessionBegins, Idles, Accounted, OneNoticePerSession
  <2> QED  BY <1>2, <2>2, <2>3 DEF SessionBegins, Accounted, Motions
<1>3. CASE SessionNotes(c)
  <2>1. PICK kind \in {"stop", "update"} :
          /\ Fresh(c) /\ auto.active /\ auto'.active
          /\ auto'.stop = IF kind = "stop" THEN c ELSE auto.stop
          /\ log' = Acked(Asked(log, c, kind, TRUE, 0), c, TRUE)
          /\ UNCHANGED <<stroke, burst, notices>>
    BY <1>3 DEF SessionNotes
  <2>2. \A d \in Cmds : EntryTrue(d)'
    BY <1>1, <2>1, Typical, AnsweredTrue
  <2> QED  BY <2>1, <2>2 DEF Accounted, Motions, OneNoticePerSession
<1> QED  BY <1>2, <1>3

LEMMA StrokeBeginsTrue ==
  ASSUME Accounted, NEW c \in Cmds, StrokeBegins(c)
  PROVE  Motions' /\ OneNoticePerSession' /\ \A d \in Cmds : EntryTrue(d)'
<1>1. /\ UNCHANGED <<auto, notices, burst>> /\ Fresh(c) /\ Idles
      /\ stroke' = [active |-> TRUE, corr |-> c] /\ log' = Asked(log, c, "stroke", TRUE, 1)
  BY DEF StrokeBegins
<1>2. stroke'.active /\ stroke'.corr = c /\ ~burst'.active
  BY <1>1 DEF Idles
<1>3. Motions' /\ OneNoticePerSession'
  BY <1>1, <1>2 DEF Accounted, Motions, OneNoticePerSession
<1>4. ASSUME NEW d \in Cmds PROVE EntryTrue(d)'
  <2>1. log'[d] = IF d = c THEN [kind |-> "stroke", valid |-> TRUE, want |-> 1,
                                 fired |-> 0, acks |-> <<>>] ELSE log[d]
    BY <1>1, Typical DEF Asked, LogType
  <2>2. EntryTrue(c) /\ EntryTrue(d)
    BY DEF Accounted
  <2>3. CASE d # c
    <3>1. ~(stroke'.active /\ stroke'.corr = d) /\ ~burst'.active
      BY <1>2, <2>3
    <3> QED  BY <1>1, <2>1, <2>2, <2>3, <3>1, Untouched
  <2>4. CASE d = c
    <3>1. auto'.stop # d
      BY <1>1, <2>2, <2>4 DEF EntryTrue, Fresh
    <3> QED  BY <1>2, <2>1, <2>4, <3>1, Begun
  <2> QED  BY <2>3, <2>4
<1> QED  BY <1>3, <1>4

LEMMA BurstBeginsTrue ==
  ASSUME Accounted, NEW c \in Cmds, BurstBegins(c)
  PROVE  Motions' /\ OneNoticePerSession' /\ \A d \in Cmds : EntryTrue(d)'
<1>1. PICK n \in 1..MaxBurstStrokes :
        /\ UNCHANGED <<auto, notices, stroke>> /\ Fresh(c) /\ Idles
        /\ burst' = [active |-> TRUE, state |-> "Pulse", target |-> n, done |-> 0, corr |-> c]
        /\ log' = Asked(log, c, "burst", TRUE, n)
  BY DEF BurstBegins
<1>2. /\ burst'.active /\ burst'.corr = c /\ ~stroke'.active
      /\ burst'.target = n /\ burst'.done = 0 /\ 0 < n
  BY <1>1 DEF Idles
<1>3. Motions' /\ OneNoticePerSession'
  BY <1>1, <1>2 DEF Accounted, Motions, OneNoticePerSession
<1>4. ASSUME NEW d \in Cmds PROVE EntryTrue(d)'
  <2>1. log'[d] = IF d = c THEN [kind |-> "burst", valid |-> TRUE, want |-> n,
                                 fired |-> 0, acks |-> <<>>] ELSE log[d]
    BY <1>1, Typical DEF Asked, LogType
  <2>2. EntryTrue(c) /\ EntryTrue(d)
    BY DEF Accounted
  <2>3. CASE d # c
    <3>1. ~(burst'.active /\ burst'.corr = d) /\ ~stroke'.active
      BY <1>2, <2>3
    <3> QED  BY <1>1, <2>1, <2>2, <2>3, <3>1, Untouched
  <2>4. CASE d = c
    <3>1. auto'.stop # d
      BY <1>1, <2>2, <2>4 DEF EntryTrue, Fresh
    <3> QED  BY <1>2, <2>1, <2>4, <3>1, Begun
  <2> QED  BY <2>3, <2>4
<1> QED  BY <1>3, <1>4

(* A motion that has run to its end is answered. *)
LEMMA MotionEnded ==
  ASSUME Accounted, NEW m \in Cmds, NEW ok \in BOOLEAN, ok = TRUE,
         log' = Acked(Fired(log, m), m, ok), UNCHANGED <<auto, notices>>,
         ~stroke'.active, ~burst'.active,
         log[m].kind \in {"stroke", "burst"}, Waiting(m),
         log[m].fired + 1 = log[m].want
  PROVE  Motions' /\ OneNoticePerSession' /\ \A d \in Cmds : EntryTrue(d)'
<1>1. Fired(log, m) \in LogType
  BY Typical, FiredType
<1>2. ASSUME NEW d \in Cmds PROVE EntryTrue(d)'
  <2> DEFINE l == Fired(log, m)
  <2>1. /\ l[d].kind = log[d].kind /\ l[d].want = log[d].want /\ l[d].acks = log[d].acks
        /\ l[d].fired = IF d = m THEN log[d].fired + 1 ELSE log[d].fired
    BY Typical, FiredAt
  <2>2. l \in LogType /\ log' = Acked(l, m, ok)
    BY <1>1
  <2> HIDE DEF l
  <2>3. /\ log'[d].kind = l[d].kind /\ log'[d].want = l[d].want /\ log'[d].fired = l[d].fired
        /\ log'[d].acks = IF d = m THEN Append(l[d].acks, ok) ELSE l[d].acks
    <3>1. l[d] \in CmdType /\ log'[d] = IF d = m THEN [l[d] EXCEPT !.acks = Append(@, ok)] ELSE l[d]
      BY <2>2 DEF Acked, LogType
    <3> QED  BY <3>1 DEF CmdType
  <2>4. EntryTrue(d)
    BY DEF Accounted
  <2>5. CASE d # m
    BY <2>1, <2>3, <2>4, <2>5, Untouched
  <2>6. CASE d = m
    <3>1. log[m].want \in Nat
      BY Typical DEF LogType, CmdType
    <3>2. log'[d].acks = <<ok>>
      <4>1. Append(<<>>, ok) = <<ok>>
        OBVIOUS
      <4>2. l[d].acks = <<>>
        BY <2>1, <2>6 DEF Waiting
      <4> QED  BY <2>3, <2>6, <4>1, <4>2
    <3>3. auto'.stop # d
      BY <2>4, <2>6 DEF EntryTrue
    <3>4. log'[d].want = log[m].want /\ log'[d].fired = log[m].want /\ log'[d].kind # "none"
          /\ log'[d].fired <= log'[d].want
      BY <2>1, <2>3, <2>6, <3>1
    <3> QED  BY <2>6, <3>1, <3>2, <3>3, <3>4, Over
  <2> QED  BY <2>5, <2>6
<1>3. Motions' /\ OneNoticePerSession'
  BY DEF Accounted, Motions, OneNoticePerSession
<1> QED  BY <1>2, <1>3

LEMMA StrokeEndsTrue ==
  ASSUME Accounted, StrokePulseDone
  PROVE  Motions' /\ OneNoticePerSession' /\ \A d \in Cmds : EntryTrue(d)'
<1>1. /\ stroke.active /\ ~stroke'.active /\ UNCHANGED <<burst, auto, notices>>
      /\ log' = Acked(Fired(log, stroke.corr), stroke.corr, TRUE)
  BY Typical DEF StrokePulseDone
<1>2. ~burst.active /\ stroke.corr \in Cmds
  BY <1>1 DEF Accounted, Owned, OneMotion, Motions
<1>3. EntryTrue(stroke.corr)
  BY <1>2 DEF Accounted
<1>4. /\ log[stroke.corr].kind = "stroke" /\ Waiting(stroke.corr)
      /\ log[stroke.corr].fired = 0 /\ log[stroke.corr].want = 1
  BY <1>1, <1>3 DEF EntryTrue
<1>5. log[stroke.corr].fired + 1 = log[stroke.corr].want
  BY <1>4
<1> QED  BY <1>1, <1>2, <1>4, <1>5, MotionEnded

LEMMA BurstEndsTrue ==
  ASSUME Accounted, BurstEnds
  PROVE  Motions' /\ OneNoticePerSession' /\ \A d \in Cmds : EntryTrue(d)'
<1>1. /\ burst.active /\ ~burst'.active /\ UNCHANGED <<stroke, auto, notices>>
      /\ log' = Acked(Fired(log, burst.corr), burst.corr, TRUE)
      /\ burst.done + 1 = burst.target
  BY Typical DEF BurstEnds
<1>2. ~stroke.active /\ burst.corr \in Cmds
  BY <1>1 DEF Accounted, Owned, OneMotion, Motions
<1>3. EntryTrue(burst.corr)
  BY <1>2 DEF Accounted
<1>4. /\ log[burst.corr].kind = "burst" /\ Waiting(burst.corr)
      /\ log[burst.corr].fired = burst.done /\ log[burst.corr].want = burst.target
  BY <1>1, <1>3 DEF EntryTrue
<1> QED  BY <1>1, <1>2, <1>4, MotionEnded

LEMMA BurstGoesOnTrue ==
  ASSUME Accounted, BurstGoesOn
  PROVE  Motions' /\ OneNoticePerSession' /\ \A d \in Cmds : EntryTrue(d)'
<1>1. /\ burst.active /\ burst'.active /\ UNCHANGED <<stroke, auto, notices>>
      /\ burst'.corr = burst.corr /\ burst'.target = burst.target
      /\ burst'.done = burst.done + 1 /\ burst.done + 1 < burst.target
      /\ log' = Fired(log, burst.corr)
  BY DEF BurstGoesOn
<1>2. ~stroke.active /\ burst.corr \in Cmds /\ burst.done \in Nat /\ burst.target \in Nat
  BY <1>1, Typical DEF Accounted, Owned, OneMotion, Motions, BurstType
<1>3. ASSUME NEW d \in Cmds PROVE EntryTrue(d)'
  <2>1. /\ log'[d].kind = log[d].kind /\ log'[d].want = log[d].want
        /\ log'[d].acks = log[d].acks
        /\ log'[d].fired = IF d = burst.corr THEN log[d].fired + 1 ELSE log[d].fired
    BY <1>1, Typical, FiredAt
  <2>2. EntryTrue(d)
    BY DEF Accounted
  <2>3. CASE d # burst.corr
    <3>1. ~(burst'.active /\ burst'.corr = d) /\ ~(stroke'.active /\ stroke'.corr = d)
      BY <1>1, <1>2, <2>3
    <3> QED  BY <1>1, <2>1, <2>2, <2>3, <3>1, Untouched
  <2>4. CASE d = burst.corr
    <3>1. /\ log[d].kind = "burst" /\ Waiting(d)
          /\ log[d].fired = burst.done /\ log[d].want = burst.target /\ auto.stop # d
      BY <1>1, <2>2, <2>4 DEF EntryTrue
    <3>2. ~Fresh(d)' /\ Waiting(d)'
      BY <2>1, <3>1 DEF Fresh, Waiting
    <3>3. ~Succeeded(d)'
      BY <2>1, <3>1 DEF Waiting, Succeeded
    <3>4. ~stroke'.active /\ auto'.stop # d
      BY <1>1, <1>2, <3>1
    <3>5. /\ log'[d].kind = "burst" /\ log'[d].want = burst'.target
          /\ log'[d].fired = burst'.done /\ burst'.done <= burst'.target
      BY <1>1, <1>2, <2>1, <2>4, <3>1
    <3> QED  BY <3>2, <3>3, <3>4, <3>5 DEF EntryTrue
  <2> QED  BY <2>3, <2>4
<1>4. Motions' /\ OneNoticePerSession'
  BY <1>1, <1>2 DEF Accounted, Motions, OneNoticePerSession
<1> QED  BY <1>3, <1>4

(* The end of a session answers at most the stop that is waiting. *)
LEMMA SessionEndsTrue ==
  ASSUME Accounted, auto.active, NEW l \in LogType, NEW ok \in BOOLEAN, FinishSession(ok, l),
         NEW d \in Cmds
  PROVE  /\ OneNoticePerSession' /\ ~auto'.active /\ auto'.stop = None
         /\ log'[d].kind = l[d].kind /\ log'[d].want = l[d].want
         /\ log'[d].fired = l[d].fired
         /\ d # auto.stop => log'[d].acks = l[d].acks
<1>1. auto' = NoSession /\ notices' = [notices EXCEPT !.completed = @ + 1]
      /\ log' = IF auto.stop = None THEN l ELSE Acked(l, auto.stop, ok)
  BY DEF FinishSession
<1>2. OneNoticePerSession' /\ ~auto'.active /\ auto'.stop = None
  BY <1>1, Typical DEF Accounted, OneNoticePerSession
<1>3. CASE log' = l
  BY <1>2, <1>3
<1>4. CASE log' = Acked(l, auto.stop, ok)
  <2>1. /\ l[d] \in CmdType
        /\ log'[d] = IF d = auto.stop THEN [l[d] EXCEPT !.acks = Append(@, ok)] ELSE l[d]
    BY <1>4 DEF Acked, LogType
  <2> QED  BY <1>2, <2>1 DEF CmdType
<1>5. log' = l \/ log' = Acked(l, auto.stop, ok)
  BY <1>1
<1> QED  BY <1>3, <1>4, <1>5

LEMMA EndTrue ==
  ASSUME Accounted, NEW ok \in BOOLEAN, SessionEnds(ok)
  PROVE  Motions' /\ OneNoticePerSession' /\ \A d \in Cmds : EntryTrue(d)'
<1>1. auto.active /\ FinishSession(ok, log) /\ UNCHANGED <<stroke, burst>>
  BY DEF SessionEnds
<1>2. ~auto'.active /\ auto'.stop = None /\ OneNoticePerSession'
  BY <1>1, Typical DEF FinishSession, Accounted, OneNoticePerSession
<1>3. ASSUME NEW d \in Cmds PROVE EntryTrue(d)'
  <2>1. /\ log'[d].kind = log[d].kind /\ log'[d].want = log[d].want
        /\ log'[d].fired = log[d].fired
        /\ d # auto.stop => log'[d].acks = log[d].acks
    BY <1>1, Typical, SessionEndsTrue
  <2>2. EntryTrue(d) /\ auto'.stop # d
    BY <1>2, NoneAssumption DEF Accounted
  <2>3. CASE d # auto.stop
    BY <1>1, <2>1, <2>2, <2>3, Untouched
  <2>4. CASE d = auto.stop
    <3>1. log[d].kind = "stop" /\ ~(stroke.active /\ stroke.corr = d)
          /\ ~(burst.active /\ burst.corr = d)
      BY <2>2, <2>4 DEF EntryTrue
    <3> QED  BY <1>1, <2>1, <2>2, <3>1, PlainTrue
  <2> QED  BY <2>3, <2>4
<1>4. Motions'
  BY <1>1, <1>2 DEF Accounted, Motions
<1> QED  BY <1>2, <1>3, <1>4

(* The log of an abort that is answered before the motion it ends. *)
LEMMA AbortAsked ==
  ASSUME Accounted, NEW c \in Cmds, NEW d \in Cmds
  PROVE  LET asked == Acked(Asked(log, c, "abort", TRUE, 0), c, TRUE) IN
         /\ asked \in LogType
         /\ d # c => /\ asked[d].kind = log[d].kind /\ asked[d].want = log[d].want
                     /\ asked[d].fired = log[d].fired /\ asked[d].acks = log[d].acks
         /\ d = c => asked[d].kind = "abort"
<1>1. PICK t \in BOOLEAN : t = TRUE
  OBVIOUS
<1> DEFINE asked == Acked(Asked(log, c, "abort", t, 0), c, t)
<1>2. "abort" \in Kinds /\ log \in LogType /\ 0 \in 0..MaxBurstStrokes
  BY Typical DEF Kinds
<1>3. /\ asked \in LogType
      /\ d # c => /\ asked[d].kind = log[d].kind /\ asked[d].want = log[d].want
                  /\ asked[d].fired = log[d].fired /\ asked[d].acks = log[d].acks
      /\ d = c => asked[d].kind = "abort"
  BY <1>2, AnsweredAt
<1> QED  BY <1>1, <1>3

(* A stroke or burst that is cut short is answered as failed. *)
LEMMA CutShort ==
  ASSUME Accounted, NEW c \in Cmds, NEW m \in Cmds, Fresh(c), ~auto.active,
         NEW ok \in BOOLEAN, ok = FALSE,
         log' = Acked(Acked(Asked(log, c, "abort", TRUE, 0), c, TRUE), m, ok),
         ~stroke'.active, ~burst'.active, UNCHANGED <<auto, notices>>,
         log[m].kind \in {"stroke", "burst"}, Waiting(m)
  PROVE  Motions' /\ OneNoticePerSession' /\ \A d \in Cmds : EntryTrue(d)'
<1> DEFINE asked == Acked(Asked(log, c, "abort", TRUE, 0), c, TRUE)
<1>1. ASSUME NEW d \in Cmds
      PROVE  /\ asked \in LogType
             /\ d # c => /\ asked[d].kind = log[d].kind /\ asked[d].want = log[d].want
                         /\ asked[d].fired = log[d].fired /\ asked[d].acks = log[d].acks
             /\ d = c => asked[d].kind = "abort"
  BY AbortAsked
<1>2. asked \in LogType /\ log' = Acked(asked, m, ok) /\ m # c
  BY <1>1 DEF Fresh
<1> HIDE DEF asked
<1>3. ASSUME NEW d \in Cmds PROVE EntryTrue(d)'
  <2>1. /\ log'[d].kind = asked[d].kind /\ log'[d].want = asked[d].want
        /\ log'[d].fired = asked[d].fired
        /\ log'[d].acks = IF d = m THEN Append(asked[d].acks, ok) ELSE asked[d].acks
    <3>1. /\ asked[d] \in CmdType
          /\ log'[d] = IF d = m THEN [asked[d] EXCEPT !.acks = Append(@, ok)] ELSE asked[d]
      BY <1>2 DEF Acked, LogType
    <3> QED  BY <3>1 DEF CmdType
  <2>2. auto'.stop # d /\ EntryTrue(d)
    BY NoneAssumption DEF Accounted, Motions
  <2>3. CASE d = c
    BY <1>1, <1>2, <2>1, <2>2, <2>3, PlainTrue
  <2>4. CASE d = m
    <3>1. log'[d].acks = <<ok>>
      <4>1. Append(<<>>, ok) = <<ok>>
        OBVIOUS
      <4>2. asked[d].acks = <<>>
        BY <1>1, <1>2, <2>4 DEF Waiting
      <4> QED  BY <2>1, <2>4, <4>1, <4>2
    <3>2. log[d].fired <= log[d].want
      BY <2>2, <2>4 DEF EntryTrue
    <3>3. log'[d].kind # "none" /\ log'[d].fired <= log'[d].want
      BY <1>1, <1>2, <2>1, <2>4, <3>2
    <3> QED  BY <2>2, <3>1, <3>3, Over
  <2>5. CASE d # c /\ d # m
    BY <1>1, <2>1, <2>2, <2>5, Untouched
  <2> QED  BY <2>3, <2>4, <2>5
<1>4. Motions' /\ OneNoticePerSession'
  BY DEF Accounted, Motions, OneNoticePerSession
<1> QED  BY <1>3, <1>4

LEMMA AbortTrue ==
  ASSUME Accounted, NEW c \in Cmds, Aborts(c)
  PROVE  Motions' /\ OneNoticePerSession' /\ \A d \in Cmds : EntryTrue(d)'
<1> DEFINE asked == Acked(Asked(log, c, "abort", TRUE, 0), c, TRUE)
<1>1. Fresh(c) /\ (AbortStroke(asked) \/ AbortBurst(asked) \/ AbortSession(asked))
  BY DEF Aborts
<1>2. ASSUME NEW d \in Cmds
      PROVE  /\ asked \in LogType
             /\ d # c => /\ asked[d].kind = log[d].kind /\ asked[d].want = log[d].want
                         /\ asked[d].fired = log[d].fired /\ asked[d].acks = log[d].acks
             /\ d = c => asked[d].kind = "abort"
  BY AbortAsked
<1>3. \A d \in Cmds : EntryTrue(d)
  BY DEF Accounted
<1>4. /\ stroke.active => ~burst.active /\ ~auto.active
      /\ burst.active => ~stroke.active /\ ~auto.active
      /\ auto.active => ~stroke.active /\ ~burst.active
  BY DEF Accounted, Owned, OneMotion
<1>5. CASE AbortStroke(asked)
  <2>1. /\ stroke.active /\ ~stroke'.active /\ UNCHANGED <<burst, auto, notices>>
        /\ log' = Acked(asked, stroke.corr, FALSE)
    BY <1>5, Typical DEF AbortStroke
  <2>2. stroke.corr \in Cmds
    BY <2>1 DEF Accounted, Motions
  <2>3. log[stroke.corr].kind = "stroke" /\ Waiting(stroke.corr)
    BY <1>3, <2>1, <2>2 DEF EntryTrue
  <2> QED  BY <1>1, <1>4, <2>1, <2>2, <2>3, CutShort
<1>6. CASE AbortBurst(asked)
  <2>1. /\ burst.active /\ ~burst'.active /\ UNCHANGED <<stroke, auto, notices>>
        /\ log' = Acked(asked, burst.corr, FALSE)
    BY <1>6, Typical DEF AbortBurst
  <2>2. burst.corr \in Cmds
    BY <2>1 DEF Accounted, Motions
  <2>3. log[burst.corr].kind = "burst" /\ Waiting(burst.corr)
    BY <1>3, <2>1, <2>2 DEF EntryTrue
  <2> QED  BY <1>1, <1>4, <2>1, <2>2, <2>3, CutShort
<1>7. CASE AbortSession(asked)
  <2>1. auto.active /\ FinishSession(FALSE, asked) /\ UNCHANGED <<stroke, burst>>
    BY <1>7 DEF AbortSession, SessionActive
  <2>2. ~auto'.active /\ auto'.stop = None /\ OneNoticePerSession'
    BY <2>1, Typical DEF FinishSession, Accounted, OneNoticePerSession
  <2>3. asked \in LogType
    BY <1>2
  <2> HIDE DEF asked
  <2>4. ASSUME NEW d \in Cmds PROVE EntryTrue(d)'
    <3>1. /\ log'[d].kind = asked[d].kind /\ log'[d].want = asked[d].want
          /\ log'[d].fired = asked[d].fired
          /\ d # auto.stop => log'[d].acks = asked[d].acks
      <4>1. PICK ok \in BOOLEAN : ok = FALSE
        OBVIOUS
      <4>2. FinishSession(ok, asked)
        BY <2>1, <4>1
      <4> QED  BY <2>1, <2>3, <4>2, SessionEndsTrue
    <3>2. EntryTrue(d) /\ auto'.stop # d /\ ~stroke'.active /\ ~burst'.active
      BY <1>3, <1>4, <2>1, <2>2, NoneAssumption
    <3>3. CASE d = c
      BY <1>2, <3>1, <3>2, <3>3, PlainTrue
    <3>4. CASE d # c /\ d = auto.stop
      <4>1. log[d].kind = "stop"
        BY <3>2, <3>4 DEF EntryTrue
      <4> QED  BY <1>2, <3>1, <3>2, <3>4, <4>1, PlainTrue
    <3>5. CASE d # c /\ d # auto.stop
      BY <1>2, <3>1, <3>2, <3>5, Untouched
    <3> QED  BY <3>3, <3>4, <3>5
  <2>5. Motions'
    BY <1>4, <2>1, <2>2 DEF Motions
  <2> QED  BY <2>2, <2>4, <2>5
<1> QED  BY <1>1, <1>5, <1>6, <1>7

LEMMA UnseenTrue ==
  ASSUME Accounted, Unseen
  PROVE  Motions' /\ OneNoticePerSession' /\ \A d \in Cmds : EntryTrue(d)'
<1>1. ASSUME NEW d \in Cmds PROVE EntryTrue(d)'
  <2>1. EntryTrue(d) /\ log' = log
    BY DEF Accounted, Unseen
  <2> QED  BY <2>1, Untouched DEF Unseen
<1>2. Motions'
  BY DEF Unseen, Accounted, Motions
<1>3. OneNoticePerSession'
  BY DEF Unseen, Accounted, OneNoticePerSession
<1> QED  BY <1>1, <1>2, <1>3

LEMMA NextAccounted == Accounted /\ [Next]_vars => Accounted'
<1> SUFFICES ASSUME Accounted, [Next]_vars PROVE Accounted'
  OBVIOUS
<1>1. Shapes
  BY NextShape
<1>2. Motions' /\ OneNoticePerSession' /\ \A d \in Cmds : EntryTrue(d)'
  BY <1>1, RefusalTrue, SessionCommandTrue, StrokeBeginsTrue, BurstBeginsTrue, StrokeEndsTrue, BurstEndsTrue, BurstGoesOnTrue, EndTrue, AbortTrue,
     UnseenTrue DEF Shapes
<1>3. Owned'
  BY NextOwned DEF Accounted
<1> QED  BY <1>2, <1>3 DEF Accounted

LEMMA InitAccounted == Init => Accounted
<1> SUFFICES ASSUME Init PROVE Accounted
  OBVIOUS
<1>1. ~stroke.active /\ ~burst.active /\ ~auto.active /\ auto.stop = None
  BY DEF Init, NoStroke, NoBurst, NoSession
<1>2. ASSUME NEW c \in Cmds PROVE EntryTrue(c)
  <2>1. log[c].kind = "none" /\ Waiting(c) /\ auto.stop # c
    BY <1>1, NoneAssumption DEF Init, NoCmd, Waiting
  <2> QED  BY <1>1, <2>1 DEF EntryTrue
<1>3. Motions /\ OneNoticePerSession
  BY <1>1 DEF Init, Motions, OneNoticePerSession
<1>4. Owned
  BY InitOwned
<1> QED  BY <1>2, <1>3, <1>4 DEF Accounted

(* A success says that all pulses ran to their end, and each session is
   announced once when it begins and once when it is over, for any commands
   and burst length (CommandHandler::sendAck, finishSession). *)
THEOREM AnswersAreTrue == Spec => []AnswersTrue
<1>1. ASSUME Accounted, NEW c \in Cmds, log[c].kind \in {"stroke", "burst"}
      PROVE  /\ log[c].fired <= log[c].want
             /\ log[c].acks = <<TRUE>> => log[c].fired = log[c].want
  <2>1. EntryTrue(c)
    BY <1>1 DEF Accounted
  <2>2. log[c].acks = <<TRUE>> => Succeeded(c)
    BY DEF Succeeded
  <2> QED  BY <1>1, <2>1, <2>2 DEF EntryTrue
<1>2. Accounted => AnswersTrue
  BY <1>1 DEF Accounted, AnswersTrue, SuccessFiredAll
<1> QED  BY <1>2, InitAccounted, NextAccounted, PTL DEF Spec
-----------------------------------------------------------------------------
(* An idle device accepts. *)
LEMMA IdleAccepts ==
  ASSUME Accounted, [Next]_vars, NEW c \in Cmds,
         Settled, log[c].kind = "none", log'[c].valid,
         log'[c].kind \in {"stroke", "burst", "start"}
  PROVE  log'[c].acks # <<FALSE>>
<1>1. Idles /\ ~IsActive /\ relay # "On" /\ ~stroke.active /\ ~burst.active /\ ~auto.active
  BY ActiveFound DEF Settled, Idles
<1>2. log \in LogType /\ log[c].kind # log'[c].kind
  BY Typical
<1>3. ASSUME NEW d \in Cmds, NEW kind \in Kinds, NEW valid \in BOOLEAN,
             NEW want \in 0..MaxBurstStrokes, NEW ok \in BOOLEAN,
             log' = Acked(Asked(log, d, kind, valid, want), d, ok)
      PROVE  d = c /\ log'[c].kind = kind /\ log'[c].valid = valid /\ log'[c].acks = <<ok>>
  <2> DEFINE n == Acked(Asked(log, d, kind, valid, want), d, ok)
  <2>1. /\ c # d => n[c].kind = log[c].kind
        /\ c = d => /\ n[c].kind = kind /\ n[c].valid = valid /\ n[c].acks = <<ok>>
    BY <1>2, AnsweredAt
  <2>2. log' = n
    BY <1>3
  <2> HIDE DEF n
  <2> QED  BY <1>2, <2>1, <2>2
<1>4. ASSUME NEW d \in Cmds, Refusal(d) PROVE FALSE
  <2>1. PICK kind \in Kinds \ {"none"}, valid \in BOOLEAN, want \in 0..MaxBurstStrokes :
          /\ log' = Acked(Asked(log, d, kind, valid, want), d, FALSE)
          /\ kind \in {"stroke", "burst", "start"} /\ valid =>
               IsActive \/ relay = "On" \/ burst.active \/ auto.active
    BY <1>4 DEF Refusal, Reject
  <2>2. kind \in Kinds /\ FALSE \in BOOLEAN
    BY <2>1
  <2>3. log'[c].kind = kind /\ log'[c].valid = valid
    BY <1>3, <2>1, <2>2
  <2> QED  BY <1>1, <2>1, <2>3
<1>5. ASSUME NEW d \in Cmds, StrokeBegins(d) \/ BurstBegins(d) PROVE log'[c].acks = <<>>
  <2>1. PICK kind, want : log' = Asked(log, d, kind, TRUE, want)
    BY <1>5 DEF StrokeBegins, BurstBegins
  <2>2. log'[c] = IF c = d THEN [kind |-> kind, valid |-> TRUE, want |-> want,
                                 fired |-> 0, acks |-> <<>>] ELSE log[c]
    BY <1>2, <2>1 DEF Asked, LogType
  <2> QED  BY <1>2, <2>2
<1>6. ASSUME NEW d \in Cmds, SessionBegins(d) PROVE log'[c].acks = <<TRUE>>
  <2>1. "start" \in Kinds /\ 0 \in 0..MaxBurstStrokes
    BY Typical DEF Kinds
  <2>2. PICK t \in BOOLEAN : t = TRUE
    OBVIOUS
  <2>3. log' = Acked(Asked(log, d, "start", t, 0), d, t)
    BY <1>6, <2>2 DEF SessionBegins
  <2>4. log'[c].acks = <<t>>
    BY <1>3, <2>1, <2>3
  <2> QED  BY <2>2, <2>4
<1>7. \E d \in Cmds : Refusal(d) \/ StrokeBegins(d) \/ BurstBegins(d) \/ SessionBegins(d)
  <2>1. ~StrokePulseDone /\ ~BurstEnds /\ ~BurstGoesOn /\ ~Unseen
    BY <1>1, <1>2 DEF StrokePulseDone, BurstEnds, BurstGoesOn, Unseen
  <2>2. \A ok \in BOOLEAN : ~SessionEnds(ok)
    BY <1>1 DEF SessionEnds
  <2>3. \A d \in Cmds : ~SessionNotes(d) /\ ~Aborts(d)
    BY <1>1 DEF SessionNotes, Aborts, AbortStroke, AbortBurst, AbortSession, SessionActive
  <2> QED  BY <2>1, <2>2, <2>3, NextShape DEF Shapes
<1>8. <<>> # <<FALSE>> /\ <<TRUE>> # <<FALSE>>
  <2>1. Len(<<>>) # Len(<<FALSE>>)
    OBVIOUS
  <2>2. <<TRUE>>[1] # <<FALSE>>[1]
    OBVIOUS
  <2> QED  BY <2>1, <2>2
<1> QED  BY <1>4, <1>5, <1>6, <1>7, <1>8

(* A session that has been asked to stop begins no further main stroke. *)
LEMMA StopHeeded ==
  ASSUME Accounted, [Next]_vars, auto.stop # None, auto.state \notin {"StartDelay", "Pulse"}
  PROVE  auto'.state # "Pulse"
<1>1. auto \in SessionType /\ auto.active /\ ~stroke.active /\ ~burst.active
  BY Typical DEF Accounted, Owned, OneMotion, Motions
<1>2. ASSUME NEW b \in SessionType, NEW s \in SessionStates \ {"Pulse"},
             Continue([b EXCEPT !.state = s])
      PROVE  auto'.state # "Pulse"
  BY <1>2 DEF Continue, SessionType
<1>3. NoSession.state # "Pulse"
  BY DEF NoSession
<1>4. ASSUME NEW ok, NEW l, FinishSession(ok, l) PROVE auto'.state # "Pulse"
  BY <1>3, <1>4 DEF FinishSession
<1>5. {"WaitingGap", "BurstPulse", "BurstGap"} \subseteq SessionStates \ {"Pulse"}
  BY DEF SessionStates
<1>6. CASE IntraPulseDone
  <2> DEFINE a == Updated([auto EXCEPT !.done = @ + 1])
  <2>1. \/ \E ok : FinishSession(ok, log)
        \/ \E s \in {"WaitingGap", "BurstPulse", "BurstGap"} : Continue([a EXCEPT !.state = s])
    BY <1>6 DEF IntraPulseDone, StopEndOrWait, EndSession, WaitForGap, IntraPulse
  <2>2. a \in SessionType
    BY <1>1, <1>6, CountedType DEF Accounted, Owned, Typed
  <2> HIDE DEF a
  <2> QED  BY <1>2, <1>4, <1>5, <2>1, <2>2
<1>7. CASE BurstGapPoll
  <2>1. \/ \E ok : FinishSession(ok, log)
        \/ Continue([Updated(auto) EXCEPT !.state = "BurstPulse"])
    BY <1>7 DEF BurstGapPoll, EndSession, IntraPulse
  <2>2. Updated(auto) \in SessionType
    BY <1>1, UpdatedType
  <2> QED  BY <1>2, <1>4, <1>5, <2>1, <2>2
<1>8. CASE WaitingGapPoll
  <2>1. FinishSession(TRUE, log)
    BY <1>8 DEF WaitingGapPoll, EndSession, GoesOn
  <2> QED  BY <1>4, <2>1
<1>9. ASSUME NEW c \in Cmds, Command(c) PROVE auto'.state # "Pulse"
  <2>1. CASE UNCHANGED auto
    BY <2>1
  <2>2. CASE StopAutomatic(c)
    BY <2>1, <2>2 DEF StopAutomatic, Reject
  <2>3. CASE UpdateAutomatic(c)
    <3>1. auto' = auto \/ \E next : auto' = [auto EXCEPT !.pending = next]
      BY <2>3 DEF UpdateAutomatic, Reject
    <3> QED  BY <1>1, <3>1 DEF SessionType
  <2>4. CASE StartAutomatic(c)
    BY <1>1, <2>4 DEF StartAutomatic, Reject
  <2>5. CASE Stroke(c) \/ Burst(c)
    BY <2>5 DEF Stroke, Burst, Reject
  <2>6. CASE Abort(c)
    BY <1>4, <2>6 DEF Abort, AbortStroke, AbortBurst, AbortSession, Reject
  <2> QED  BY <1>9, <2>2, <2>3, <2>4, <2>5, <2>6 DEF Command
<1>10. CASE MainPulseDone \/ StartDelayElapsed
  BY <1>10 DEF MainPulseDone, StartDelayElapsed
<1>11. CASE StrokePulseDone \/ BurstPulseDone \/ BurstGapElapsed \/ UNCHANGED vars
  BY <1>11 DEF StrokePulseDone, BurstPulseDone, BurstGapElapsed, vars
<1> QED  BY <1>6, <1>7, <1>8, <1>9, <1>10, <1>11 DEF Next, RelayPoll, ExecPoll

(* An idle device refuses no valid stroke, burst or session, and a requested
   stop lets no further main stroke begin (ExecutionContext,
   AutomaticSessionMode). *)
THEOREM DeviceStartsAndStops == Spec => StartsAndStops
<1>1. Accounted /\ [Next]_vars =>
        [\A c \in Cmds :
           (/\ Settled /\ log[c].kind = "none" /\ log'[c].valid
            /\ log'[c].kind \in {"stroke", "burst", "start"}) => log'[c].acks # <<FALSE>>]_vars
  BY IdleAccepts
<1>2. Accounted /\ [Next]_vars =>
        [auto.stop # None /\ auto.state \notin {"StartDelay", "Pulse"} => auto'.state # "Pulse"]_vars
  BY StopHeeded
<1> QED  BY <1>1, <1>2, InitAccounted, NextAccounted, PTL
         DEF Spec, StartsAndStops, IdleDeviceAccepts, StopStartsNoMain
-----------------------------------------------------------------------------
(* What the sender of commands can see of a log: the commands received, and
   their answers. *)
Heard(l) == {c \in Cmds : l[c].kind # "none"}
Answers(l) == [c \in Cmds |-> l[c].acks]

LEMMA AckedSeen ==
  ASSUME NEW l \in LogType, NEW c \in Cmds, NEW ok
  PROVE  /\ Heard(Acked(l, c, ok)) = Heard(l)
         /\ Answers(Acked(l, c, ok)) = [Answers(l) EXCEPT ![c] = Append(@, ok)]
<1> DEFINE n == Acked(l, c, ok)
<1>1. ASSUME NEW d \in Cmds
      PROVE  n[d].kind = l[d].kind /\ n[d].acks = IF d = c THEN Append(l[d].acks, ok) ELSE l[d].acks
  BY AckedAt
<1> HIDE DEF n
<1>2. Heard(n) = Heard(l)
  BY <1>1 DEF Heard
<1>3. Answers(n) = [Answers(l) EXCEPT ![c] = Append(@, ok)]
  BY <1>1 DEF Answers
<1> QED  BY <1>2, <1>3 DEF n

LEMMA FiredSeen ==
  ASSUME NEW l \in LogType, NEW c
  PROVE  Heard(Fired(l, c)) = Heard(l) /\ Answers(Fired(l, c)) = Answers(l)
<1> DEFINE n == Fired(l, c)
<1>1. ASSUME NEW d \in Cmds PROVE n[d].kind = l[d].kind /\ n[d].acks = l[d].acks
  BY FiredAt
<1> HIDE DEF n
<1>2. Heard(n) = Heard(l) /\ Answers(n) = Answers(l)
  BY <1>1 DEF Heard, Answers
<1> QED  BY <1>2 DEF n

LEMMA AskedSeen ==
  ASSUME NEW l \in LogType, NEW c \in Cmds, NEW kind \in Kinds \ {"none"}, NEW valid, NEW want,
         l[c].acks = <<>>
  PROVE  /\ Heard(Asked(l, c, kind, valid, want)) = Heard(l) \cup {c}
         /\ Answers(Asked(l, c, kind, valid, want)) = Answers(l)
<1> DEFINE n == Asked(l, c, kind, valid, want)
<1>1. ASSUME NEW d \in Cmds
      PROVE  /\ n[d].kind = IF d = c THEN kind ELSE l[d].kind
             /\ n[d].acks = l[d].acks
  <2>1. n[d] = IF d = c THEN [kind |-> kind, valid |-> valid, want |-> want,
                              fired |-> 0, acks |-> <<>>] ELSE l[d]
    BY AskedAt
  <2> HIDE DEF n
  <2> QED  BY <2>1
<1> HIDE DEF n
<1>2. Heard(n) = Heard(l) \cup {c}
  BY <1>1 DEF Heard
<1>3. Answers(n) = Answers(l)
  BY <1>1 DEF Answers
<1> QED  BY <1>2, <1>3 DEF n

(* A command that is received and answered in one step. *)
LEMMA AnsweredSeen ==
  ASSUME Accounted, NEW c \in Cmds, Fresh(c), NEW kind \in Kinds \ {"none"},
         NEW valid \in BOOLEAN, NEW want \in 0..MaxBurstStrokes, NEW ok
  PROVE  LET n == Acked(Asked(log, c, kind, valid, want), c, ok) IN
         /\ c \notin Heard(log) /\ Heard(n) = Heard(log) \cup {c}
         /\ Answers(n) = Service!Answer(Answers(log), c, ok)
<1>1. log \in LogType /\ log[c].acks = <<>> /\ kind \in Kinds
  BY Typical DEF Accounted, EntryTrue, Waiting
<1> DEFINE a == Asked(log, c, kind, valid, want)
<1>2. a \in LogType
  BY <1>1, AskedType
<1>3. Heard(a) = Heard(log) \cup {c} /\ Answers(a) = Answers(log)
  BY <1>1, AskedSeen
<1> HIDE DEF a
<1>4. Heard(Acked(a, c, ok)) = Heard(a) /\ Answers(Acked(a, c, ok)) = [Answers(a) EXCEPT ![c] = Append(@, ok)]
  BY <1>2, AckedSeen
<1>5. c \notin Heard(log)
  BY DEF Fresh, Heard
<1> QED  BY <1>3, <1>4, <1>5 DEF a, Service!Answer
-----------------------------------------------------------------------------
(* The same for the answers as they are written out in the actions. *)
LEMMA RefusedSeen ==
  ASSUME Accounted, NEW c \in Cmds, Fresh(c), NEW kind \in Kinds \ {"none"},
         NEW valid \in BOOLEAN, NEW want \in 0..MaxBurstStrokes
  PROVE  LET n == Acked(Asked(log, c, kind, valid, want), c, FALSE) IN
         /\ c \notin Heard(log) /\ Heard(n) = Heard(log) \cup {c}
         /\ Answers(n) = Service!Answer(Answers(log), c, FALSE)
<1>1. PICK no \in BOOLEAN : no = FALSE
  OBVIOUS
<1> DEFINE n == Acked(Asked(log, c, kind, valid, want), c, no)
<1>2. /\ c \notin Heard(log) /\ Heard(n) = Heard(log) \cup {c}
      /\ Answers(n) = Service!Answer(Answers(log), c, no)
  BY AnsweredSeen
<1> QED  BY <1>1, <1>2

LEMMA AcceptedSeen ==
  ASSUME Accounted, NEW c \in Cmds, Fresh(c), NEW kind \in Kinds \ {"none"}
  PROVE  LET n == Acked(Asked(log, c, kind, TRUE, 0), c, TRUE) IN
         /\ c \notin Heard(log) /\ Heard(n) = Heard(log) \cup {c}
         /\ Answers(n) = Service!Answer(Answers(log), c, TRUE)
<1>1. PICK yes \in BOOLEAN : yes = TRUE
  OBVIOUS
<1>2. 0 \in 0..MaxBurstStrokes
  BY Typical
<1> DEFINE n == Acked(Asked(log, c, kind, yes, 0), c, yes)
<1>3. /\ c \notin Heard(log) /\ Heard(n) = Heard(log) \cup {c}
      /\ Answers(n) = Service!Answer(Answers(log), c, yes)
  BY <1>2, AnsweredSeen
<1> QED  BY <1>1, <1>3

LEMMA OverSeen ==
  ASSUME NEW l \in LogType, NEW c \in Cmds
  PROVE  /\ Heard(Acked(l, c, TRUE)) = Heard(l) /\ Heard(Acked(l, c, FALSE)) = Heard(l)
         /\ Answers(Acked(l, c, TRUE)) = Service!Answer(Answers(l), c, TRUE)
         /\ Answers(Acked(l, c, FALSE)) = Service!Answer(Answers(l), c, FALSE)
<1>1. ASSUME NEW ok
      PROVE  /\ Heard(Acked(l, c, ok)) = Heard(l)
             /\ Answers(Acked(l, c, ok)) = Service!Answer(Answers(l), c, ok)
  BY AckedSeen DEF Service!Answer
<1>2. PICK yes \in BOOLEAN, no \in BOOLEAN : yes = TRUE /\ no = FALSE
  OBVIOUS
<1>3. /\ Heard(Acked(l, c, yes)) = Heard(l) /\ Heard(Acked(l, c, no)) = Heard(l)
      /\ Answers(Acked(l, c, yes)) = Service!Answer(Answers(l), c, yes)
      /\ Answers(Acked(l, c, no)) = Service!Answer(Answers(l), c, no)
  BY <1>1
<1> QED  BY <1>2, <1>3

LEMMA MotionAsked ==
  ASSUME Accounted, NEW c \in Cmds, Fresh(c), NEW kind \in {"stroke", "burst"}, NEW want
  PROVE  LET n == Asked(log, c, kind, TRUE, want) IN
         /\ c \notin Heard(log) /\ Heard(n) = Heard(log) \cup {c}
         /\ Answers(n) = Answers(log)
<1>1. log \in LogType /\ log[c].acks = <<>> /\ c \notin Heard(log)
  BY Typical DEF Accounted, EntryTrue, Waiting, Fresh, Heard
<1>2. kind \in Kinds \ {"none"}
  BY DEF Kinds
<1>3. PICK yes \in BOOLEAN : yes = TRUE
  OBVIOUS
<1> DEFINE n == Asked(log, c, kind, yes, want)
<1>4. Heard(n) = Heard(log) \cup {c} /\ Answers(n) = Answers(log)
  BY <1>1, <1>2, AskedSeen
<1> QED  BY <1>1, <1>3, <1>4
-----------------------------------------------------------------------------
(* The sender's view of the state, unfolded. *)
RunningIs ==
  /\ stroke.active => Running = stroke.corr
  /\ burst.active => Running = burst.corr
  /\ auto.active => Running = "session"
  /\ Idles => Running = "idle"

LEMMA RunningNow == Accounted => RunningIs
<1> SUFFICES ASSUME Accounted PROVE RunningIs
  OBVIOUS
<1>1. /\ stroke.active => ~burst.active /\ ~auto.active
      /\ burst.active => ~stroke.active /\ ~auto.active
      /\ auto.active => ~stroke.active /\ ~burst.active
  BY DEF Accounted, Owned, OneMotion
<1> QED  BY <1>1 DEF RunningIs, Running, Idles

LEMMA RunningThen == Accounted' => RunningIs'
BY RunningNow, PTL

LEMMA RefusalStep == ASSUME Accounted, Accounted', NEW c \in Cmds, Refusal(c) PROVE Service!Refuse(c)
<1>1. PICK kind \in Kinds \ {"none"}, valid \in BOOLEAN, want \in 0..MaxBurstStrokes :
        /\ Fresh(c) /\ UNCHANGED <<stroke, burst, auto>>
        /\ log' = Acked(Asked(log, c, kind, valid, want), c, FALSE)
  BY DEF Refusal, Reject
<1>2. c \notin Heard(log) /\ Heard(log') = Heard(log) \cup {c}
      /\ Answers(log') = Service!Answer(Answers(log), c, FALSE)
  BY <1>1, RefusedSeen
<1>3. Running' = Running
  BY <1>1 DEF Running
<1> QED  BY <1>1, <1>2, <1>3 DEF Service!Refuse, Service!Receive, Heard, Answers

LEMMA MotionStep ==
  ASSUME Accounted, Accounted', NEW c \in Cmds, StrokeBegins(c) \/ BurstBegins(c)
  PROVE  Service!AcceptMotion(c)
<1>1. PICK kind \in {"stroke", "burst"}, want \in Nat :
        Fresh(c) /\ Idles /\ auto' = auto /\ log' = Asked(log, c, kind, TRUE, want)
  <2>1. CASE StrokeBegins(c)
    BY <2>1 DEF StrokeBegins
  <2>2. CASE BurstBegins(c)
    <3>1. PICK n \in 1..MaxBurstStrokes :
            Fresh(c) /\ Idles /\ auto' = auto /\ log' = Asked(log, c, "burst", TRUE, n)
      BY <2>2 DEF BurstBegins
    <3>2. n \in Nat /\ "burst" \in {"stroke", "burst"}
      OBVIOUS
    <3> QED  BY <3>1, <3>2, Zenon
  <2> QED  BY <2>1, <2>2
<1>4. /\ c \notin Heard(log) /\ Heard(log') = Heard(log) \cup {c}
      /\ Answers(log') = Answers(log)
  BY <1>1, MotionAsked
<1>5. Running = "idle"
  BY <1>1, RunningNow DEF RunningIs
<1>6. Running' = c
  <2>1. (stroke'.active /\ stroke'.corr = c) \/ (burst'.active /\ burst'.corr = c)
    <3>1. CASE StrokeBegins(c)
      BY <3>1 DEF StrokeBegins
    <3>2. CASE BurstBegins(c)
      <4>1. PICK n : burst' = [active |-> TRUE, state |-> "Pulse", target |-> n,
                               done |-> 0, corr |-> c]
        BY <3>2 DEF BurstBegins
      <4> QED  BY <4>1
    <3> QED  BY <3>1, <3>2
  <2> QED  BY <2>1, RunningThen DEF RunningIs
<1> QED  BY <1>1, <1>4, <1>5, <1>6
         DEF Service!AcceptMotion, Service!Receive, Heard, Answers

LEMMA SessionBeginsStep ==
  ASSUME Accounted, Accounted', NEW c \in Cmds, SessionBegins(c)
  PROVE  Service!AcceptSession(c)
<1>1. /\ Fresh(c) /\ Idles /\ auto'.active /\ auto'.stop = None
      /\ log' = Acked(Asked(log, c, "start", TRUE, 0), c, TRUE)
  BY DEF SessionBegins
<1>2. "start" \in Kinds \ {"none"}
  BY DEF Kinds
<1>3. c \notin Heard(log) /\ Heard(log') = Heard(log) \cup {c}
      /\ Answers(log') = Service!Answer(Answers(log), c, TRUE)
  BY <1>1, <1>2, AcceptedSeen
<1>4. Running = "idle" /\ Running' = "session" /\ auto'.stop = auto.stop
  BY <1>1, RunningNow, RunningThen, ActiveFound DEF RunningIs
<1> QED  BY <1>3, <1>4 DEF Service!AcceptSession, Service!Receive, Heard, Answers

LEMMA NotesStep ==
  ASSUME Accounted, Accounted', NEW c \in Cmds, SessionNotes(c)
  PROVE  Service!AcceptStop(c) \/ Service!AcceptUpdate(c)
<1>1. PICK kind \in {"stop", "update"} :
        /\ Fresh(c) /\ auto.active /\ auto'.active
        /\ auto'.stop = IF kind = "stop" THEN c ELSE auto.stop
        /\ kind = "stop" => auto.stop = None
        /\ log' = Acked(Asked(log, c, kind, TRUE, 0), c, TRUE)
  BY DEF SessionNotes
<1>2. kind \in Kinds \ {"none"}
  BY DEF Kinds
<1>3. c \notin Heard(log) /\ Heard(log') = Heard(log) \cup {c}
      /\ Answers(log') = Service!Answer(Answers(log), c, TRUE)
  BY <1>1, <1>2, AcceptedSeen
<1>4. Running = "session" /\ Running' = "session"
  BY <1>1, RunningNow, RunningThen DEF RunningIs
<1>5. CASE kind = "stop"
  BY <1>1, <1>3, <1>4, <1>5 DEF Service!AcceptStop, Service!Receive, Heard, Answers
<1>6. CASE kind = "update"
  BY <1>1, <1>3, <1>4, <1>6 DEF Service!AcceptUpdate, Service!Receive, Heard, Answers
<1> QED  BY <1>5, <1>6

LEMMA CompleteStep ==
  ASSUME Accounted, Accounted', StrokePulseDone \/ BurstEnds
  PROVE  Service!Complete
<1>1. PICK c \in Cmds :
        /\ Running = c /\ Running' = "idle" /\ auto'.stop = auto.stop
        /\ log' = Acked(Fired(log, c), c, TRUE)
  <2>1. CASE StrokePulseDone
    <3>1. /\ stroke.active /\ ~stroke'.active /\ UNCHANGED <<burst, auto>>
          /\ log' = Acked(Fired(log, stroke.corr), stroke.corr, TRUE)
      BY <2>1, Typical DEF StrokePulseDone
    <3>2. Idles' /\ stroke.corr \in Cmds
      BY <3>1 DEF Idles, Accounted, Owned, OneMotion, Motions
    <3> QED  BY <3>1, <3>2, RunningNow, RunningThen DEF RunningIs
  <2>2. CASE BurstEnds
    <3>1. /\ burst.active /\ ~burst'.active /\ UNCHANGED <<stroke, auto>>
          /\ log' = Acked(Fired(log, burst.corr), burst.corr, TRUE)
      BY <2>2, Typical DEF BurstEnds
    <3>2. Idles' /\ burst.corr \in Cmds
      BY <3>1 DEF Idles, Accounted, Owned, OneMotion, Motions
    <3> QED  BY <3>1, <3>2, RunningNow, RunningThen DEF RunningIs
  <2> QED  BY <2>1, <2>2
<1>2. Fired(log, c) \in LogType /\ Heard(Fired(log, c)) = Heard(log)
      /\ Answers(Fired(log, c)) = Answers(log)
  BY Typical, FiredSeen, FiredType
<1>3. Heard(log') = Heard(log) /\ Answers(log') = Service!Answer(Answers(log), c, TRUE)
  BY <1>1, <1>2, OverSeen
<1>4. c # "session"
  BY LabelsAssumption
<1> QED  BY <1>1, <1>3, <1>4 DEF Service!Complete, Service!Over, Heard, Answers

(* What the end of a session adds to the answers. *)
LEMMA FinishSeen ==
  ASSUME Accounted, auto.active, NEW l \in LogType, NEW ok, FinishSession(ok, l)
  PROVE  /\ Heard(log') = Heard(l)
         /\ Answers(log') = Service!Over(Answers(l), ok)
<1>1. Running = "session" /\ auto.stop \in Cmds \cup {None}
  BY RunningNow, Typical DEF RunningIs, SessionType, CmdOrNone
<1>2. CASE auto.stop = None
  BY <1>1, <1>2 DEF FinishSession, Service!Over
<1>3. CASE auto.stop # None
  <2>1. log' = Acked(l, auto.stop, ok) /\ auto.stop \in Cmds
    BY <1>1, <1>3 DEF FinishSession
  <2>2. /\ Heard(log') = Heard(l)
        /\ Answers(log') = [Answers(l) EXCEPT ![auto.stop] = Append(@, ok)]
    BY <2>1, AckedSeen
  <2> QED  BY <1>1, <1>3, <2>2 DEF Service!Over, Service!Answer
<1> QED  BY <1>2, <1>3

LEMMA EndStep ==
  ASSUME Accounted, Accounted', NEW ok \in BOOLEAN, SessionEnds(ok)
  PROVE  Service!EndSession
<1>1. auto.active /\ FinishSession(ok, log) /\ UNCHANGED <<stroke, burst>> /\ log \in LogType
  BY Typical DEF SessionEnds
<1>2. ~auto'.active /\ auto'.stop = None
  BY <1>1, Typical DEF FinishSession
<1>3. Idles'
  BY <1>1, <1>2 DEF Idles, Accounted, Owned, OneMotion
<1>4. Running = "session" /\ Running' = "idle"
  BY <1>1, <1>3, RunningNow, RunningThen DEF RunningIs
<1>5. Heard(log') = Heard(log) /\ Answers(log') = Service!Over(Answers(log), ok)
  BY <1>1, FinishSeen
<1> QED  BY <1>2, <1>4, <1>5 DEF Service!EndSession, Heard, Answers

LEMMA AbortStep ==
  ASSUME Accounted, Accounted', NEW c \in Cmds, Aborts(c)
  PROVE  Service!Abort(c)
<1> DEFINE asked == Acked(Asked(log, c, "abort", TRUE, 0), c, TRUE)
<1>1. Fresh(c) /\ (AbortStroke(asked) \/ AbortBurst(asked) \/ AbortSession(asked))
  BY DEF Aborts
<1>2. "abort" \in Kinds \ {"none"}
  BY DEF Kinds
<1>3. /\ c \notin Heard(log) /\ Heard(asked) = Heard(log) \cup {c}
      /\ Answers(asked) = Service!Answer(Answers(log), c, TRUE)
  BY <1>1, <1>2, AcceptedSeen
<1>4. asked \in LogType
  BY AbortAsked
<1> HIDE DEF asked
<1>5. CASE AbortStroke(asked) \/ AbortBurst(asked)
  <2>1. PICK m \in Cmds :
          /\ Running = m /\ Idles' /\ auto.stop = None /\ auto'.stop = None
          /\ log' = Acked(asked, m, FALSE)
    <3>1. CASE AbortStroke(asked)
      <4>1. /\ stroke.active /\ ~stroke'.active /\ UNCHANGED <<burst, auto>>
            /\ log' = Acked(asked, stroke.corr, FALSE)
        BY <3>1, Typical DEF AbortStroke
      <4>2. Idles' /\ stroke.corr \in Cmds /\ auto.stop = None
        BY <4>1 DEF Idles, Accounted, Owned, OneMotion, Motions
      <4> QED  BY <4>1, <4>2, RunningNow DEF RunningIs
    <3>2. CASE AbortBurst(asked)
      <4>1. /\ burst.active /\ ~burst'.active /\ UNCHANGED <<stroke, auto>>
            /\ log' = Acked(asked, burst.corr, FALSE)
        BY <3>2, Typical DEF AbortBurst
      <4>2. Idles' /\ burst.corr \in Cmds /\ auto.stop = None
        BY <4>1 DEF Idles, Accounted, Owned, OneMotion, Motions
      <4> QED  BY <4>1, <4>2, RunningNow DEF RunningIs
    <3> QED  BY <1>5, <3>1, <3>2
  <2>2. Heard(log') = Heard(asked) /\ Answers(log') = Service!Answer(Answers(asked), m, FALSE)
    BY <1>4, <2>1, OverSeen
  <2>3. Running' = "idle" /\ m # "session" /\ m # "idle"
    BY <2>1, RunningThen, LabelsAssumption DEF RunningIs
  <2> QED  BY <1>3, <2>1, <2>2, <2>3
           DEF Service!Abort, Service!Receive, Service!Over, Heard, Answers
<1>6. CASE AbortSession(asked)
  <2>1. auto.active /\ FinishSession(FALSE, asked) /\ UNCHANGED <<stroke, burst>>
    BY <1>6 DEF AbortSession, SessionActive
  <2>2. ~auto'.active /\ auto'.stop = None
    BY <2>1, Typical DEF FinishSession
  <2>3. Idles'
    BY <2>1, <2>2 DEF Idles, Accounted, Owned, OneMotion
  <2>4. Running = "session" /\ Running' = "idle"
    BY <2>1, <2>3, RunningNow, RunningThen DEF RunningIs
  <2>5. Heard(log') = Heard(asked) /\ Answers(log') = Service!Over(Answers(asked), FALSE)
    BY <1>4, <2>1, FinishSeen
  <2> QED  BY <1>3, <2>2, <2>4, <2>5 DEF Service!Abort, Service!Receive, Heard, Answers
<1> QED  BY <1>1, <1>5, <1>6

LEMMA StutterStep ==
  ASSUME Accounted, Accounted', BurstGoesOn \/ Unseen
  PROVE  UNCHANGED Service!mvars
<1>1. auto'.stop = auto.stop /\ stroke' = stroke /\ burst'.active = burst.active
      /\ burst'.corr = burst.corr /\ auto'.active = auto.active
  BY DEF BurstGoesOn, Unseen
<1>2. Running' = Running
  BY <1>1 DEF Running
<1>3. Heard(log') = Heard(log) /\ Answers(log') = Answers(log)
  BY Typical, FiredSeen DEF BurstGoesOn, Unseen
<1> QED  BY <1>1, <1>2, <1>3 DEF Service!mvars, Heard, Answers

(* Every step of the device is a step of the service it promises, or one that
   the sender of commands cannot see: it answers each stroke and burst once, when
   it is over, and an accepted stop twice (ExecutionContext, the modes,
   CommandHandler::sendAck).  That the motions do end is left to the model
   checker. *)
THEOREM DeviceIsMotionService == Spec => Service!Spec
<1>1. Init => Service!Init
  <2> SUFFICES ASSUME Init PROVE Service!Init
    OBVIOUS
  <2>1. ~stroke.active /\ ~burst.active /\ ~auto.active /\ auto.stop = None
    BY DEF Init, NoStroke, NoBurst, NoSession
  <2>2. \A c \in Cmds : log[c].kind = "none" /\ log[c].acks = <<>>
    BY DEF Init, NoCmd
  <2> QED  BY <2>1, <2>2 DEF Service!Init, Running
<1>2. Accounted /\ Accounted' /\ [Next]_vars => [Service!Next]_(Service!mvars)
  <2> SUFFICES ASSUME Accounted, Accounted', [Next]_vars
               PROVE  Service!Next \/ UNCHANGED Service!mvars
    OBVIOUS
  <2> QED  BY NextShape, RefusalStep, MotionStep, SessionBeginsStep, NotesStep, CompleteStep,
              EndStep, AbortStep, StutterStep
           DEF Shapes, Service!Next, Service!Accept
<1> QED  BY <1>1, <1>2, InitAccounted, NextAccounted, PTL DEF Spec, Service!Spec
=============================================================================
