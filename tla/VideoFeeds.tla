------------------------------ MODULE VideoFeeds ------------------------------
(***************************************************************************)
(* The live video of the device in focus (useSessionVideoSources.ts): when *)
(* the feeds are shown, which session's tokens they use, and when they are *)
(* hidden again, with the device button's request (SiteUserReadyProvider,  *)
(* useSiteUserReadyStartFeed) and the hint that survives a reload.         *)
(*                                                                         *)
(* The hook is a handful of effects.  Something happens, the component     *)
(* renders, and every effect whose inputs changed runs, in the order of    *)
(* the source; what they set takes another render.  One Render step is one *)
(* such pass: "r" is what the render saw, "f" the hook's state as the      *)
(* effects change it.  Nothing else happens while a render is due, but for *)
(* the option that hides the feeds.  A deadline may pass at any time.      *)
(***************************************************************************)
EXTENDS PageDevices, Naturals

CONSTANTS MaxSessions, MaxActs, MaxFails \* bounds: sessions, operator's acts,
                                         \* token requests that fail

VARIABLES focus,   \* the device in focus
          dev,     \* per device: [session, kind, mode, scene, running, command]
          hidden,  \* the option "live video feeds: none"
          signal,  \* the device whose button asked for the feeds
          f,       \* the hook: states, refs and the token request under way
          hint,    \* the restore hint of each device, in the session storage
          flags,   \* [notify, rehydrate, bump]: a manual command has ended, a
                   \* session was found again, the session was written to
          seen,    \* what the last render saw
          ghost    \* history: [sessions, acts, fails, watched, timedOut]

feedsVars == <<focus, dev, hidden, signal, f, hint, flags, seen, ghost>>

Kinds == {"manual", "automatic"}
NoSession == 0
NoHint == [session |-> NoSession, kind |-> "manual", preview |-> FALSE]

(* useFocusSession, useFocusDeviceOperationMode, useDeviceSceneSessionActive. *)
Nothing == [session |-> NoSession, kind |-> "manual", mode |-> "manual",
            scene |-> FALSE, running |-> FALSE, command |-> "idle"]
Focused == IF focus = NoDevice THEN Nothing ELSE dev[focus]
Pending(d) == d.command \in {"manual", "recorded"}
CommandPending(d) == IF d.mode = "manual" THEN Pending(d) ELSE d.command = "automatic"

Now ==
  [focus |-> focus, session |-> Focused.session, kind |-> Focused.kind,
   mode |-> Focused.mode, scene |-> Focused.scene \/ Focused.session # NoSession,
   running |-> Focused.running, pending |-> Pending(Focused),
   busy |-> CommandPending(Focused), hidden |-> hidden, signal |-> signal,
   visible |-> f.visible, preview |-> f.preview, sources |-> f.sources,
   rehydrate |-> flags.rehydrate]
Due == ~f.mounted \/ flags.bump \/ Now # seen
Changed(r, keys) == ~f.mounted \/ \E key \in keys : seen[key] # r[key]

-----------------------------------------------------------------------------
(* The hook's own functions. *)

Unmounted ==
  [mounted |-> FALSE, visible |-> FALSE, preview |-> FALSE, sources |-> NoSession,
   deadline |-> FALSE, watch |-> FALSE, grace |-> FALSE, prev |-> NoSession,
   prevKind |-> "manual", prevFocus |-> NoDevice, loaded |-> NoSession,
   mint |-> NoSession, first |-> NoDevice]

(* hideFeeds.  It forgets the hint of the device that was in focus when the
   component was first rendered ("first"). *)
Hide(s) ==
  [f |-> [s.f EXCEPT !.deadline = FALSE, !.watch = FALSE, !.grace = FALSE,
                     !.loaded = NoSession, !.preview = FALSE, !.visible = FALSE,
                     !.sources = NoSession],
   hint |-> IF s.f.first = NoDevice THEN s.hint
            ELSE [s.hint EXCEPT ![s.f.first] = NoHint],
   flags |-> s.flags]

(* Seeded fault: the deadline is set but nobody watches it. *)
ScheduleOnly(s) == [s EXCEPT !.f.deadline = TRUE]
(* scheduleHideAfter, ensureHideWatch *)
Schedule(s) == [s EXCEPT !.f.deadline = TRUE, !.f.watch = TRUE]
(* Seeded fault: the deadline of an earlier act stays. *)
PauseNever(s) == s
(* pauseHideDeadline *)
Pause(s) == [s EXCEPT !.f.deadline = FALSE]
Shown(s, preview) == [s EXCEPT !.f.visible = TRUE, !.f.preview = preview]

CanStart(r) ==
  /\ r.scene /\ ~(r.visible /\ r.sources # NoSession) /\ ~r.busy
  /\ ~(r.mode = "automatic" /\ r.running)
(* startPreview; preparing a manual session fails when there is none. *)
StartPreview(s, r) ==
  IF /\ CanStart(r) /\ r.focus # NoDevice
     /\ r.mode = "manual" => r.session # NoSession /\ r.kind = "manual"
  THEN Schedule(Shown(s, TRUE)) ELSE s

-----------------------------------------------------------------------------
(* The effects, in their order. *)

(* Another session, or none any more. *)
SessionEffect(s, r) ==
  LET p == [s EXCEPT !.f.prev = r.session, !.f.prevKind = r.kind]
      ended == [p EXCEPT !.f.grace = TRUE, !.f.visible = TRUE]
      here == [p EXCEPT !.f.grace = FALSE]
  IN IF ~(Changed(r, {"session", "kind", "running", "focus"}) \/ flags.bump) THEN s
     ELSE IF r.session # NoSession
     THEN IF r.kind = "automatic" /\ r.running THEN Pause(Shown(here, FALSE)) ELSE here
     ELSE IF s.f.prevKind = "automatic" /\ s.f.prev # NoSession THEN Schedule(ended)
     ELSE IF ~s.f.grace /\ s.f.prev # NoSession THEN Hide(p) ELSE p

(* A manual command begins or ends. *)
CommandEffect(s, r) ==
  IF \/ ~(Changed(r, {"pending", "kind", "session"}) \/ flags.bump)
     \/ r.session = NoSession \/ r.kind # "manual" THEN s
  ELSE IF r.pending THEN [Pause(s) EXCEPT !.f.visible = TRUE]
  ELSE IF s.flags.notify
  THEN Schedule([Shown(s, FALSE) EXCEPT !.flags.notify = FALSE]) ELSE s

WriteHint(s, r) ==
  IF /\ Changed(r, {"visible", "focus", "preview", "kind", "session"})
     /\ r.visible /\ r.session # NoSession
  THEN [s EXCEPT !.hint[r.focus] =
          [session |-> r.session, kind |-> r.kind, preview |-> r.preview]]
  ELSE s

(* Feeds that were shown for this session before are shown again. *)
Restore(s, r) ==
  LET h == s.hint[r.focus]
      matches == h.session = r.session /\ h.kind = r.kind
      again == r.kind = "manual" /\ r.rehydrate /\ s.flags.rehydrate
      p == [s EXCEPT !.flags.rehydrate = @ /\ ~again]
  IN IF \/ ~Changed(r, {"running", "visible", "pending", "rehydrate", "kind", "session"})
        \/ r.visible \/ r.session = NoSession THEN s
     ELSE IF ~(matches \/ again) THEN s
     ELSE IF matches /\ h.preview THEN Schedule(Shown(p, TRUE))
     ELSE IF \/ r.kind = "manual" /\ r.pending
             \/ r.kind = "automatic" THEN Pause(Shown(p, FALSE))
     ELSE Schedule(Shown(p, FALSE))

(* Seeded fault: the answer to an earlier token request is taken as well. *)
CancelNever(s) == s
Cancel(s) == [s EXCEPT !.f.mint = NoSession]
LoadTokens(s, r) ==
  IF ~Changed(r, {"visible", "session"}) THEN s
  ELSE LET p == Cancel(s) IN
    IF ~s.f.grace /\ r.visible /\ r.session # NoSession /\ s.f.loaded # r.session
    THEN [p EXCEPT !.f.mint = r.session] ELSE p

FocusEffect(s, r) ==
  IF s.f.prevFocus = r.focus THEN s
  ELSE Hide([s EXCEPT !.f.prevFocus = r.focus])
HiddenEffect(s, r) ==
  IF Changed(r, {"visible", "hidden"}) /\ r.hidden /\ r.visible THEN Hide(s) ELSE s
(* useSiteUserReadyStartFeed: the signal is looked at again whenever the
   feeds may be started. *)
ReadyEffect(s, r) ==
  IF /\ Changed(r, {"signal", "hidden", "scene", "visible", "sources", "busy", "mode",
                 "running", "focus"})
     /\ r.signal # NoDevice /\ ~r.hidden
     /\ ~(r.visible /\ r.sources # NoSession) /\ CanStart(r)
  THEN StartPreview(s, r) ELSE s

Effects(r) ==
  LET s == [f |-> [f EXCEPT !.mounted = TRUE,
                            !.first = IF f.mounted THEN @ ELSE r.focus,
                            !.prevFocus = IF f.mounted THEN @ ELSE r.focus],
            hint |-> hint, flags |-> [flags EXCEPT !.bump = FALSE]]
      a == CommandEffect(SessionEffect(s, r), r)
      b == IF r.focus = NoDevice THEN a ELSE Restore(WriteHint(a, r), r)
  IN ReadyEffect(HiddenEffect(FocusEffect(LoadTokens(b, r), r), r), r)

Render ==
  /\ Due
  /\ \E r \in {Now} : \E s \in {Effects(r)} :
       seen' = r /\ f' = s.f /\ hint' = s.hint /\ flags' = s.flags
  /\ UNCHANGED <<focus, dev, hidden, signal, ghost>>

-----------------------------------------------------------------------------
(* Timers and answers. *)

Becomes(s) == f' = s.f /\ hint' = s.hint /\ flags' = s.flags
This == [f |-> f, hint |-> hint, flags |-> flags]

Deadline ==
  /\ ~Due /\ f.watch /\ f.deadline
  /\ Becomes(Hide(This))
  /\ ghost' = [ghost EXCEPT !.timedOut = TRUE]
  /\ UNCHANGED <<focus, dev, hidden, signal, seen>>

(* fetchSessionVideoTokensSafe: the server knows the sessions in progress,
   and refuses the others. *)
Known(session) == \E d \in Devices : dev[d].session = session
Minted ==
  /\ ~Due /\ f.mint # NoSession /\ Known(f.mint)
  /\ f' = [f EXCEPT !.loaded = f.mint, !.sources = f.mint, !.mint = NoSession]
  /\ UNCHANGED <<focus, dev, hidden, signal, hint, flags, seen, ghost>>
MintFails ==
  /\ ~Due /\ f.mint # NoSession
  /\ Known(f.mint) => ghost.fails < MaxFails
  /\ Becomes(Hide(Cancel(This)))
  /\ ghost' = [ghost EXCEPT !.watched = FALSE,
                            !.fails = IF Known(f.mint) THEN @ + 1 ELSE @]
  /\ UNCHANGED <<focus, dev, hidden, signal, seen>>

-----------------------------------------------------------------------------
(* What the rest of the page does. *)

Acts(watched) ==
  /\ ~Due /\ ghost.acts < MaxActs
  /\ ghost' = [ghost EXCEPT !.acts = @ + 1, !.timedOut = FALSE, !.watched = watched]

(* SubDeviceProvider: the registrations have come, or another device is
   chosen. *)
Focus(d) ==
  /\ focus # d /\ Acts(FALSE)
  /\ focus' = d
  /\ UNCHANGED <<dev, hidden, signal, f, hint, flags, seen>>

(* The scene is switched on and the session begins, or both end. *)
SceneOn(d) ==
  /\ focus = d /\ dev[d].session = NoSession /\ ghost.sessions < MaxSessions
  /\ ~Due /\ ghost.acts < MaxActs
  /\ ghost' = [ghost EXCEPT !.acts = @ + 1, !.sessions = @ + 1, !.timedOut = FALSE]
  /\ dev' = [dev EXCEPT ![d].session = ghost'.sessions, ![d].kind = dev[d].mode,
                        ![d].scene = TRUE]
  /\ UNCHANGED <<focus, hidden, signal, f, hint, flags, seen>>
SessionEnds(d) ==
  /\ dev[d].session # NoSession /\ Acts(ghost.watched)
  /\ \E scene \in BOOLEAN :
       dev' = [dev EXCEPT ![d].session = NoSession, ![d].running = FALSE,
                          ![d].scene = scene]
  /\ UNCHANGED <<focus, hidden, signal, f, hint, flags, seen>>

(* The device's mode is switched, and its session follows. *)
SwitchMode(d) ==
  /\ focus = d /\ dev[d].command = "idle" /\ Acts(ghost.watched)
  /\ \E mode \in Kinds \ {dev[d].mode} :
       dev' = [dev EXCEPT ![d].mode = mode, ![d].running = FALSE]
  /\ UNCHANGED <<focus, hidden, signal, f, hint, flags, seen>>
SyncMode(d) ==
  /\ ~Due /\ dev[d].session # NoSession /\ dev[d].kind # dev[d].mode
  /\ dev' = [dev EXCEPT ![d].kind = dev[d].mode]
  /\ UNCHANGED <<focus, hidden, signal, f, hint, flags, seen, ghost>>

(* A stroke or burst: sent, recorded when it succeeded, and its answer.
   "watched": it makes the device move, and no hidden feeds wait to be shown
   again by their hint (as they do when the page has turned back to a device:
   the README's remarks). *)
Command(d) ==
  /\ focus = d /\ dev[d].command = "idle" /\ dev[d].session # NoSession
  /\ dev[d].kind = dev[d].mode
  /\ Acts(\/ ghost.watched
          \/ /\ ~dev[d].running
             /\ f.visible \/ hint[d].session # dev[d].session)
  /\ dev' = [dev EXCEPT ![d].command = dev[d].mode]
  /\ UNCHANGED <<focus, hidden, signal, f, hint, flags, seen>>
Recorded(d) ==
  /\ ~Due /\ dev[d].command = "manual" /\ dev[d].session # NoSession
  /\ dev' = [dev EXCEPT ![d].command = "recorded"]
  /\ flags' = IF focus = d THEN [flags EXCEPT !.notify = TRUE, !.bump = TRUE]
              ELSE flags
  /\ UNCHANGED <<focus, hidden, signal, f, hint, seen, ghost>>
CommandReturns(d) ==
  /\ ~Due /\ dev[d].command # "idle"
  /\ \E running \in IF dev[d].command = "automatic" /\ dev[d].session # NoSession
                    THEN BOOLEAN ELSE {dev[d].running} :
       dev' = [dev EXCEPT ![d].command = "idle", ![d].running = running]
  /\ UNCHANGED <<focus, hidden, signal, f, hint, flags, seen, ghost>>

StartFeeds ==
  /\ ~hidden /\ CanStart(Now) /\ Acts(ghost.watched)
  /\ Becomes(StartPreview(This, Now))
  /\ UNCHANGED <<focus, dev, hidden, signal, seen>>
(* The device's button: the page turns to it, and unless its scene is on
   already asks for the feeds. *)
Press(d) ==
  /\ focus # d \/ (signal # d /\ ~dev[d].scene)
  /\ Acts(ghost.watched /\ focus = d)
  /\ focus' = d
  /\ signal' = IF dev[d].scene THEN signal ELSE d
  /\ UNCHANGED <<dev, hidden, f, hint, flags, seen>>
HideOption ==
  /\ ghost.acts < MaxActs
  /\ ghost' = [ghost EXCEPT !.acts = @ + 1, !.watched = FALSE, !.timedOut = FALSE]
  /\ hidden' = ~hidden
  /\ UNCHANGED <<focus, dev, signal, f, hint, flags, seen>>

(* The page is loaded again: the hints and the server's sessions are left,
   and the sessions are found again. *)
Reload ==
  /\ focus # NoDevice /\ Acts(FALSE)
  /\ focus' = NoDevice /\ signal' = NoDevice /\ f' = Unmounted
  /\ flags' = [notify |-> FALSE, rehydrate |-> FALSE, bump |-> FALSE]
  /\ dev' = [d \in Devices |-> [dev[d] EXCEPT !.command = "idle"]]
  /\ UNCHANGED <<hidden, hint, seen>>
Rehydrated(d) ==
  /\ ~Due /\ focus = d /\ dev[d].session # NoSession /\ dev[d].kind = "manual"
  /\ ~flags.rehydrate /\ ghost.acts < MaxActs
  /\ flags' = [flags EXCEPT !.rehydrate = TRUE, !.bump = TRUE]
  /\ ghost' = [ghost EXCEPT !.acts = @ + 1]
  /\ UNCHANGED <<focus, dev, hidden, signal, f, hint, seen>>

Device(d) == Focus(d) \/ SceneOn(d) \/ SessionEnds(d) \/ SwitchMode(d) \/ SyncMode(d)
             \/ Command(d) \/ Recorded(d) \/ CommandReturns(d) \/ Press(d) \/ Rehydrated(d)
FeedsNext == Render \/ Deadline \/ Minted \/ MintFails \/ StartFeeds \/ HideOption
        \/ Reload \/ \E d \in Devices : Device(d)

FeedsInit ==
  /\ focus = NoDevice /\ signal = NoDevice /\ hidden = FALSE
  /\ dev = [d \in Devices |-> Nothing]
  /\ f = Unmounted /\ hint = [d \in Devices |-> NoHint]
  /\ flags = [notify |-> FALSE, rehydrate |-> FALSE, bump |-> FALSE]
  /\ seen = Now
  /\ ghost = [sessions |-> 0, acts |-> 0, fails |-> 0,
              watched |-> FALSE, timedOut |-> FALSE]

(* React renders what was set, the watch looks at the deadline every 250 ms. *)
FeedsFairness == WF_feedsVars(Render) /\ WF_feedsVars(Deadline)
FeedsSpec == FeedsInit /\ [][FeedsNext]_feedsVars
FeedsFairSpec == FeedsSpec /\ FeedsFairness

-----------------------------------------------------------------------------

(* The feeds belong to the session in focus: addresses are held only while  *)
(* the feeds are shown, and once a render is done and no tokens are under   *)
(* way they are those of the session the device in focus is in, whatever    *)
(* sessions, devices and token answers came in between.                     *)
ShownIsSessions ==
  /\ f.sources # NoSession => f.visible
  /\ ~Due /\ f.mint = NoSession /\ Focused.session # NoSession
       => f.sources \in {NoSession, Focused.session}

(* Nothing hides the feeds while the device moves: from a command to its    *)
(* answer, and while a program runs, they are shown and no deadline of an   *)
(* earlier preview or command is left; until the operator turns to another  *)
(* device or hides them, or tokens are refused.                             *)
Moving ==
  /\ Focused.session # NoSession
  /\ \/ Focused.kind = "manual" /\ Pending(Focused)
     \/ Focused.kind = "automatic" /\ Focused.running
MotionKeepsFeeds ==
  ~Due /\ Moving /\ ghost.watched /\ ~hidden => f.visible /\ ~f.deadline

(* Feeds left on when a session has ended (an automatic session's last      *)
(* pictures, a grace) do not stay: they are hidden, or a session is there   *)
(* again.                                                                   *)
EndedSessionHides ==
  f.visible /\ Focused.session = NoSession
    ~> ~f.visible \/ Focused.session # NoSession

(* Feeds hidden by the timeout stay hidden until the operator or a device   *)
(* does something; no button is pressed here.                               *)
FeedsTimeOut == ~Due /\ ghost.timedOut /\ signal = NoDevice => ~f.visible
=============================================================================
