--------------------------- MODULE SommelierWindow ---------------------------
(***************************************************************************)
(* The window core of sommelier (src/sommelier/sommelier-window.cc): the   *)
(* per-window two-phase configure buffers (next_config / pending_config),  *)
(* the xdg_surface / xdg_toplevel listener callbacks, acknowledgement of   *)
(* configures against the size of the guest's buffer, and the             *)
(* reconciliation sl_window_update that pairs an X11 window with its       *)
(* wl_surface, resolves a parent and assigns an xdg role.                  *)
(*                                                                         *)
(* Three actors share one event-loop thread, so every handler below is one *)
(* atomic step, and the actors interleave between handlers:                *)
(*   - the compositor, which issues serial-numbered configures, activates  *)
(*     toplevels and asks them to close (a FIFO channel `inbox`);          *)
(*   - the X11 side (Xwayland and the X client), which maps, unmaps and    *)
(*     destroys windows and creates, commits and destroys wl_surfaces;     *)
(*   - sommelier itself, whose handlers are the actions that model the     *)
(*     functions of sommelier-window.cc.                                   *)
(*                                                                         *)
(* Geometry is one dimension: width stands for width and height, which the *)
(* code treats identically.  x/y, titles, frame colours, application ids  *)
(* and other data that no property distinguishes are left out.            *)
(***************************************************************************)
EXTENDS Integers, Sequences, FiniteSets, SequencesExt, Relation

CONSTANTS
  Win,           \* X11 windows known to sommelier (model values)
  None,          \* the null window / null pointer
  Managed,       \* the windows with window->managed set
  TransientFor,  \* WM_TRANSIENT_FOR of each window, None if unset
  XWayland,      \* ctx->xwayland
  CommitLoopFix, \* the build defines COMMIT_LOOP_FIX
  AuraShell,     \* ctx->aura_shell is bound
  ScaleFactor,   \* device pixels per logical pixel of the transform
  LogicalSizes,  \* nonzero sizes a toplevel configure may propose
  InitWidths,    \* widths an X window may be created with
  InitBorders,   \* border widths an X window may be created with
  ContentSizes,  \* buffer sizes the guest may commit
  StateSets,     \* xdg_toplevel state sets, apart from "activated"
  MaxSerial,     \* bound: last Wayland serial the compositor hands out
  MaxMaps,       \* bound: wl_surfaces created per window
  MaxInbox,      \* bound: events queued from the compositor
  MaxInputs,     \* bound: input events delivered to the guest's surfaces
  SerialBits,    \* width of last_event_serial (uint32_t, scaled down)
  SplitDispatch, \* X events may be handled between a toplevel configure
                 \* and the xdg_surface configure sent with it
  NoValue,       \* an unset identity property
  FixedId,       \* ctx->application_id, None if unset
  Identity       \* app_id_property, clazz and client_leader of each window

ASSUME /\ Managed \subseteq Win
       /\ None \notin Win
       /\ TransientFor \in [Win -> Win \cup {None}]
       /\ \A w \in Win : TransientFor[w] # w
       /\ XWayland \in BOOLEAN /\ CommitLoopFix \in BOOLEAN
       /\ AuraShell \in BOOLEAN
       /\ ScaleFactor \in Nat \ {0}
       /\ LogicalSizes \subseteq Nat \ {0}
       /\ ContentSizes \subseteq Nat \ {0}
       /\ MaxSerial \in Nat /\ MaxMaps \in Nat /\ MaxInbox \in Nat
       /\ MaxInputs \in Nat /\ SplitDispatch \in BOOLEAN
       /\ SerialBits \in Nat \ {0}
       /\ \A w \in Win : DOMAIN Identity[w] = {"prop", "clazz", "leader"}

XdgStates == {"fullscreen", "maximized", "activated", "resizing"}
ASSUME \A s \in StateSets : s \subseteq XdgStates \ {"activated"}

VARIABLES
  win,             \* sl_window fields of each window
  windows,         \* ctx->windows: the paired windows, most recent first
  focus,           \* ctx->host_focus_window
  needsInputFocus, \* ctx->needs_set_input_focus
  resource,        \* the guest wl_surface of the window's id exists
  contents,        \* host_surface->contents_width of that surface
  lastEventSerial, \* host_surface->last_event_serial of that surface
  maps,            \* wl_surfaces created so far for each window
  given,           \* the current wl_surface's id was sent to the window
  serial,          \* the compositor's last configure serial
  inputSerial,     \* the compositor's last input-event serial
  inbox,           \* compositor-to-sommelier events, in order
  issued,          \* configures issued to the current xdg_surface
  acks,            \* serials acked on the current xdg_surface, in order
  active,          \* the toplevel the compositor has activated
  compParent,      \* parent the compositor holds for each window's role
  appId            \* application id the compositor holds for its aura surface

vars == <<win, windows, focus, needsInputFocus, resource, contents,
          lastEventSerial, maps, given, serial, inputSerial, inbox, issued, acks,
          active, compParent, appId>>

-----------------------------------------------------------------------------
(* struct sl_config, abstracted: mask is "width/height/border are set", *)
(* size the width value, nstates the states_length.                     *)
EmptyConfig == [serial |-> 0, mask |-> FALSE, size |-> 0, nstates |-> 0]

(* sl_window as constructed: in the unpaired list, no handles.  abort    *)
(* records that one of the code's assert()s has failed.                 *)
NewWindow(w, width, border) ==
  [alive |-> TRUE, managed |-> w \in Managed, sid |-> FALSE,
   unpaired |-> TRUE, paired |-> FALSE, width |-> width, border |-> border,
   next |-> EmptyConfig, pending |-> EmptyConfig, activated |-> FALSE,
   allowResize |-> TRUE, compFullscreen |-> FALSE, xdgSurface |-> FALSE,
   toplevel |-> FALSE, popup |-> FALSE, aura |-> FALSE, realized |-> FALSE,
   deleteRequested |-> FALSE, abort |-> FALSE]

(* sl_transform_host_to_guest: logical to device pixels. *)
HostToGuest(n) == n * ScaleFactor

(* The size the guest's buffer must have: width + 2 * border_width. *)
Total(r) == r.width + 2 * r.border

(* Variants of sl_configure_window with a bug: next_config.serial not *)
(* reset (line 107 dropped), and border_width not forced to the       *)
(* configured value.                                                   *)
ConfigureWindowKeepsSerial(r) ==
  LET applied == IF r.next.mask
                 THEN [r EXCEPT !.width = r.next.size, !.border = 0]
                 ELSE r
  IN  [applied EXCEPT
         !.abort = @ \/ r.pending.serial # 0 \/ (r.next.mask /\ ~r.managed),
         !.pending = r.next,
         !.next = [r.next EXCEPT !.mask = FALSE, !.nstates = 0]]

ConfigureWindowKeepsBorder(r) ==
  LET applied == IF r.next.mask THEN [r EXCEPT !.width = r.next.size] ELSE r
  IN  [applied EXCEPT
         !.abort = @ \/ r.pending.serial # 0 \/ (r.next.mask /\ ~r.managed),
         !.pending = r.next,
         !.next = EmptyConfig]

(* sl_configure_window: apply next_config to the X geometry, push it to *)
(* X (frame, client at origin, configure notify and _NET_WM_STATE, none *)
(* of which the model keeps) and move it to pending_config.             *)
ConfigureWindow(r) ==
  LET applied == IF r.next.mask
                 THEN [r EXCEPT !.width = r.next.size, !.border = 0]
                 ELSE r
  IN  [applied EXCEPT
         !.abort = @ \/ r.pending.serial # 0 \/ (r.next.mask /\ ~r.managed),
         !.pending = r.next,
         !.next = EmptyConfig]

(* Variants of sl_process_pending_configure_acks with a bug: the queued *)
(* configure started before the pending serial is cleared, and the     *)
(* queued configure never started.                                      *)
ProcessAcksConfigureFirst(r, host, cont) ==
  IF \/ r.pending.serial = 0
     \/ CommitLoopFix /\ ~r.pending.mask /\ r.pending.nstates = 0
     \/ r.managed /\ host /\ Total(r) # cont
  THEN [ack |-> 0, win |-> r]
  ELSE [ack |-> IF r.xdgSurface THEN r.pending.serial ELSE 0,
        win |-> IF r.next.serial # 0
                THEN [ConfigureWindow(r) EXCEPT !.pending.serial = 0]
                ELSE [r EXCEPT !.pending.serial = 0]]

ProcessAcksNoChain(r, host, cont) ==
  IF \/ r.pending.serial = 0
     \/ CommitLoopFix /\ ~r.pending.mask /\ r.pending.nstates = 0
     \/ r.managed /\ host /\ Total(r) # cont
  THEN [ack |-> 0, win |-> r]
  ELSE [ack |-> IF r.xdgSurface THEN r.pending.serial ELSE 0,
        win |-> [r EXCEPT !.pending.serial = 0]]

(* sl_process_pending_configure_acks: ack pending_config when the       *)
(* contents have the window's size, then start the queued configure.   *)
(* Result: the serial acked to the compositor (0 if none) and the       *)
(* window; host is "a host_surface was passed", cont its contents.      *)
ProcessAcks(r, host, cont) ==
  LET stall == \/ r.pending.serial = 0
               \/ CommitLoopFix /\ ~r.pending.mask /\ r.pending.nstates = 0
               \/ r.managed /\ host /\ Total(r) # cont
      cleared == [r EXCEPT !.pending.serial = 0]
  IN  IF stall
      THEN [ack |-> 0, win |-> r]
      ELSE [ack |-> IF r.xdgSurface THEN r.pending.serial ELSE 0,
            win |-> IF r.next.serial # 0 THEN ConfigureWindow(cleared)
                                         ELSE cleared]

(* sl_commit: the ack followed by a wl_surface_commit. *)
Commit(r, host, cont) == ProcessAcks(r, host, cont)

(* The compositor's record of an ack. *)
RecordAck(w, a) ==
  acks' = IF a # 0 THEN [acks EXCEPT ![w] = Append(@, a)] ELSE acks

-----------------------------------------------------------------------------
(* Parent resolution of sl_window_update, over the paired list `list`. *)

(* A managed transient's WM_TRANSIENT_FOR window, if it is paired and  *)
(* has a toplevel; the scan stops at the first id match.               *)
TransientParent(w, list) ==
  LET hits == SelectSeq(list, LAMBDA s : s = TransientFor[w])
  IN  IF win[w].managed /\ TransientFor[w] # None /\ hits # <<>>
         /\ win[hits[1]].toplevel
      THEN hits[1] ELSE None

(* host_surface->last_event_serial: lastEventSerial counts the        *)
(* compositor's input serials, the field holds them at its width.      *)
LastEventSerial(s) == lastEventSerial[s] % (2 ^ SerialBits)

(* The realized paired window with the greatest last_event_serial, ties *)
(* going to the later one in the list, never the window itself.        *)
FallbackParent(w, list) ==
  LET Pick(acc, s) ==
        IF \/ ~win[s].realized
           \/ ~(win[s].sid /\ resource[s])
           \/ acc.best > LastEventSerial(s)
           \/ s = w
        THEN acc
        ELSE [p |-> s, best |-> LastEventSerial(s)]
  IN  FoldLeft(Pick, [p |-> None, best |-> 0], list).p

ResolveParent(w, list) ==
  IF ~win[w].managed \/ (TransientParent(w, list) = None
                         /\ TransientFor[w] # None)
  THEN FallbackParent(w, list)
  ELSE TransientParent(w, list)

(* Variant with a bug: the window is inserted whenever its resource    *)
(* exists, paired or not.                                               *)
PairedListAlwaysInsert(w, r, hostRes) ==
  IF hostRes THEN Cons(w, windows)
  ELSE IF ~r.sid /\ ~r.unpaired THEN Remove(windows, w)
  ELSE windows

(* ctx->windows after the pairing step of sl_window_update: w moves to *)
(* its head when its surface resource appears, and out of it when its  *)
(* surface id is cleared.                                               *)
PairedList(w, r, hostRes) ==
  IF hostRes /\ r.unpaired THEN Cons(w, windows)
  ELSE IF ~r.sid /\ ~r.unpaired THEN Remove(windows, w)
  ELSE windows

(* Variant with a bug: the xdg_popup is not destroyed. *)
TeardownKeepsPopup(r) ==
  [r EXCEPT !.aura = FALSE, !.toplevel = FALSE, !.xdgSurface = FALSE,
            !.realized = FALSE]

(* The terminal branch of sl_window_update without a host resource:  *)
(* aura surface, toplevel, popup and xdg_surface destroyed, and the   *)
(* window no longer realized.                                          *)
Teardown(r) ==
  [r EXCEPT !.aura = FALSE, !.toplevel = FALSE, !.popup = FALSE,
            !.xdgSurface = FALSE, !.realized = FALSE]

(* sl_window_update for window w whose fields are r, when the resource *)
(* of its id exists iff res and has contents cont.  Result: the window, *)
(* the new paired list, the parent the compositor holds for w, the ack  *)
(* sent and whether the role objects were torn down.                    *)
Update(w, r, res, cont) ==
  LET hostRes == r.sid /\ res
      pairNow == hostRes /\ r.unpaired
      unpairNow == ~r.sid /\ ~r.unpaired
      list == PairedList(w, r, hostRes)
      r1 == [r EXCEPT !.unpaired = (@ /\ ~pairNow) \/ unpairNow,
                      !.paired = @ /\ ~unpairNow]
      torn == Teardown(r1)
      parent == ResolveParent(w, list)
      asTop == XWayland \/ parent = None
      r2 == [r1 EXCEPT !.paired = TRUE, !.xdgSurface = TRUE,
                       !.aura = @ \/ AuraShell,
                       !.toplevel = @ \/ asTop,
                       !.popup = @ \/ ~asTop]
      cparent == CASE asTop /\ parent = None -> compParent[w]
                   [] asTop -> IF win[parent].toplevel THEN parent ELSE None
                   [] r1.popup -> compParent[w]
                   [] OTHER -> parent
      done == IF CommitLoopFix THEN Commit(r2, TRUE, cont)
                               ELSE [ack |-> 0, win |-> r2]
  IN  IF ~hostRes
      THEN [win |-> torn, windows |-> list, cparent |-> None, ack |-> 0,
            torn |-> TRUE]
      ELSE [win |-> [done.win EXCEPT !.realized = @ \/ cont # 0],
            windows |-> list, cparent |-> cparent, ack |-> done.ack,
            torn |-> FALSE]

(* The identity resolver, over each window's identity and aura surface. *)
AIWindow(w, r) ==
  [prop |-> Identity[w].prop, clazz |-> Identity[w].clazz,
   leader |-> Identity[w].leader, aura |-> r.aura]

AI == INSTANCE ApplicationId
        WITH win <- [w \in Win |-> AIWindow(w, win[w])],
             Props <- {Identity[w].prop : w \in Win} \ {NoValue},
             Classes <- {Identity[w].clazz : w \in Win} \ {NoValue},
             Leaders <- {Identity[w].leader : w \in Win} \ {None}

(* The id the compositor holds for w's aura surface after update u: the *)
(* surface and its id are destroyed on teardown; otherwise the surface   *)
(* exists (ctx->aura_shell) and sl_update_application_id sets the id.    *)
AppIdAfter(w, u) ==
  IF u.torn THEN None ELSE AI!UpdateApplicationId(w, AIWindow(w, u.win))

(* What the compositor sees of an update u of window w: destroyed role *)
(* objects drop their queued events, serials, acks and parent links.    *)
UpdateSeen(w, u) ==
  /\ windows' = u.windows
  /\ appId' = [appId EXCEPT ![w] = AppIdAfter(w, u)]
  /\ IF u.torn
     THEN /\ issued' = [issued EXCEPT ![w] = {}]
          /\ acks' = [acks EXCEPT ![w] = <<>>]
          /\ active' = IF active = w THEN None ELSE active
          /\ compParent' = [x \in Win |-> IF x = w \/ compParent[x] = w
                                          THEN None ELSE compParent[x]]
          /\ inbox' = SelectSeq(inbox, LAMBDA e : e.w # w)
     ELSE /\ RecordAck(w, u.ack)
          /\ compParent' = [compParent EXCEPT ![w] = u.cparent]
          /\ UNCHANGED <<issued, active, inbox>>

-----------------------------------------------------------------------------
(* sommelier's handlers of compositor events: the head of inbox. *)

(* Variant with a bug: the serial is always queued, even when no ack is *)
(* owed (the immediate apply-and-commit path dropped).                  *)
SurfaceConfiguredAlwaysQueue(w, r, s) ==
  [win |-> [r EXCEPT !.next.serial = s], ack |-> 0]

(* sl_internal_xdg_surface_configure for window w, fields r, serial s: *)
(* queue the serial; if no ack is owed, apply it at once and commit.    *)
(* Result: the window and the ack sent (0 if none).                     *)
SurfaceConfigured(w, r, s) ==
  LET queued == [r EXCEPT !.next.serial = s]
  IN  IF r.pending.serial = 0
      THEN Commit(ConfigureWindow(queued), r.sid /\ resource[w], contents[w])
      ELSE [win |-> queued, ack |-> 0]

HandleSurfaceConfigure ==
  /\ inbox # <<>>
  /\ Head(inbox).kind = "surface"
  /\ LET w == Head(inbox).w
         done == SurfaceConfigured(w, win[w], Head(inbox).serial)
     IN  /\ win' = [win EXCEPT ![w] = done.win]
         /\ RecordAck(w, done.ack)
  /\ inbox' = Tail(inbox)
  /\ UNCHANGED <<windows, focus, needsInputFocus, resource, contents,
                 lastEventSerial, maps, given, serial, inputSerial, issued, active, compParent, appId>>

(* The _NET_WM_STATE atoms a state set adds to next_config.states. *)
StateTags(states) ==
  (IF "fullscreen" \in states THEN 1 ELSE 0)
  + (IF "maximized" \in states THEN 2 ELSE 0)
  + (IF "activated" \in states THEN 1 ELSE 0)

(* Variant with a bug: the state index continues after the geometry   *)
(* values instead of starting at 0 (the inner `int i` dropped).         *)
NextConfigNoIndexReset(r, e) ==
  IF e.size # 0
  THEN [r.next EXCEPT !.mask = TRUE, !.size = HostToGuest(e.size),
                      !.nstates = 5 + StateTags(e.states)]
  ELSE [r.next EXCEPT !.nstates = StateTags(e.states)]

(* next_config after a toplevel configure e of a managed window r: a   *)
(* nonzero size sets width, height and border (0); 0x0 leaves what is   *)
(* queued; the state list is rebuilt from index 0.                      *)
NextConfig(r, e) ==
  [(IF e.size # 0
    THEN [r.next EXCEPT !.mask = TRUE, !.size = HostToGuest(e.size)]
    ELSE r.next)
   EXCEPT !.nstates = StateTags(e.states)]

(* Variant with a bug: a deactivated window never gives up the focus. *)
FocusAfterKeepsFocus(w, r, act) ==
  IF act # r.activated /\ act # (focus = w) /\ act THEN w ELSE focus

(* ctx->host_focus_window after window w's activated state becomes act *)
(* (was: r.activated).                                                  *)
FocusAfter(w, r, act) ==
  IF act # r.activated /\ act # (focus = w)
  THEN IF act THEN w ELSE None
  ELSE focus

(* sl_internal_xdg_toplevel_configure for window w, fields r, event e: *)
(* build next_config from the proposed size (0 = client decides) and    *)
(* states, and move the input focus when the activated state changes.   *)
(* Result: the window, focus and needs_set_input_focus.                 *)
ToplevelConfigured(w, r, e) ==
  LET act == "activated" \in e.states
      moved == act # r.activated /\ act # (focus = w)
  IN  IF ~r.managed
      THEN [win |-> r, focus |-> focus, needs |-> needsInputFocus]
      ELSE [win |-> [r EXCEPT
                       !.next = NextConfig(r, e),
                       !.allowResize =
                          e.states \cap {"fullscreen", "maximized", "resizing"}
                            = {},
                       !.compFullscreen = "fullscreen" \in e.states,
                       !.activated = act],
            focus |-> FocusAfter(w, r, act),
            needs |-> needsInputFocus \/ moved]

(* Dispatch of a toplevel configure.  With SplitDispatch the X side may *)
(* run between it and the xdg_surface configure that follows it in the  *)
(* same batch; without, sommelier dispatches the two in one step.       *)
HandleToplevelConfigure ==
  /\ inbox # <<>>
  /\ Head(inbox).kind = "toplevel"
  /\ LET e == Head(inbox)
         w == e.w
         t == ToplevelConfigured(w, win[w], e)
         done == SurfaceConfigured(w, t.win, inbox[2].serial)
     IN  /\ focus' = t.focus
         /\ needsInputFocus' = t.needs
         /\ IF SplitDispatch
            THEN /\ win' = [win EXCEPT ![w] = t.win]
                 /\ inbox' = Tail(inbox)
                 /\ UNCHANGED acks
            ELSE /\ win' = [win EXCEPT ![w] = done.win]
                 /\ RecordAck(w, done.ack)
                 /\ inbox' = Tail(Tail(inbox))
  /\ UNCHANGED <<windows, resource, contents, lastEventSerial, maps, given,
                 serial, inputSerial, issued, active, compParent, appId>>

(* sl_internal_xdg_toplevel_close: send WM_DELETE_WINDOW to the client. *)
HandleClose ==
  /\ inbox # <<>>
  /\ Head(inbox).kind = "close"
  /\ win' = [win EXCEPT ![Head(inbox).w].deleteRequested = TRUE]
  /\ inbox' = Tail(inbox)
  /\ UNCHANGED <<windows, focus, needsInputFocus, resource, contents,
                 lastEventSerial, maps, given, serial, inputSerial, issued, acks, active,
                 compParent, appId>>

Dispatch == HandleSurfaceConfigure \/ HandleToplevelConfigure \/ HandleClose

-----------------------------------------------------------------------------
(* The compositor.  It configures and closes only live role objects;   *)
(* a toplevel configure is followed by its xdg_surface configure.       *)

Issue(w, size) ==
  issued' = [issued EXCEPT ![w] = @ \cup {[serial |-> serial + 1,
                                            size |-> size]}]

ToplevelEvents(w, size, states, s) ==
  << [kind |-> "toplevel", w |-> w, size |-> size, states |-> states,
      serial |-> 0],
     [kind |-> "surface", w |-> w, size |-> 0, states |-> {}, serial |-> s] >>

SendToplevelConfigure(w, size, st) ==
  /\ win[w].toplevel
  /\ serial < MaxSerial /\ Len(inbox) + 2 <= MaxInbox
  /\ inbox' = inbox \o ToplevelEvents(w, size,
                 st \cup (IF active = w THEN {"activated"} ELSE {}), serial + 1)
  /\ Issue(w, size)
  /\ serial' = serial + 1
  /\ UNCHANGED <<win, windows, focus, needsInputFocus, resource, contents,
                 lastEventSerial, maps, given, inputSerial, acks, active, compParent, appId>>

SendPopupConfigure(w) ==
  /\ win[w].popup
  /\ serial < MaxSerial /\ Len(inbox) < MaxInbox
  /\ inbox' = Append(inbox, [kind |-> "surface", w |-> w, size |-> 0,
                             states |-> {}, serial |-> serial + 1])
  /\ Issue(w, 0)
  /\ serial' = serial + 1
  /\ UNCHANGED <<win, windows, focus, needsInputFocus, resource, contents,
                 lastEventSerial, maps, given, inputSerial, acks, active, compParent, appId>>

(* Activating w: a configure with "activated" to w, and one without to *)
(* the previously active toplevel (here sent first).                    *)
Activate(w) ==
  /\ win[w].toplevel /\ active # w
  /\ serial + (IF active = None THEN 1 ELSE 2) <= MaxSerial
  /\ Len(inbox) + (IF active = None THEN 2 ELSE 4) <= MaxInbox
  /\ inbox' = inbox \o
       (IF active = None THEN <<>>
        ELSE ToplevelEvents(active, 0, {}, serial + 2))
       \o ToplevelEvents(w, 0, {"activated"}, serial + 1)
  /\ issued' = [x \in Win |->
                  CASE x = w -> issued[x] \cup {[serial |-> serial + 1,
                                                  size |-> 0]}
                    [] x = active -> issued[x] \cup {[serial |-> serial + 2,
                                                       size |-> 0]}
                    [] OTHER -> issued[x]]
  /\ serial' = serial + (IF active = None THEN 1 ELSE 2)
  /\ active' = w
  /\ UNCHANGED <<win, windows, focus, needsInputFocus, resource, contents,
                 lastEventSerial, maps, given, inputSerial, acks, compParent, appId>>

SendClose(w) ==
  /\ win[w].toplevel /\ ~win[w].deleteRequested /\ Len(inbox) < MaxInbox
  /\ \A i \in 1..Len(inbox) : inbox[i].kind = "close" => inbox[i].w # w
  /\ inbox' = Append(inbox, [kind |-> "close", w |-> w, size |-> 0,
                             states |-> {}, serial |-> 0])
  /\ UNCHANGED <<win, windows, focus, needsInputFocus, resource, contents,
                 lastEventSerial, maps, given, serial, inputSerial, issued, acks, active,
                 compParent, appId>>

-----------------------------------------------------------------------------
(* The X11 side: Xwayland's wl_surfaces and the X events that reach    *)
(* sommelier, each followed by the sl_window_update sommelier runs.    *)

(* Xwayland creates the wl_surface of w; an unpaired window waiting    *)
(* for that id is updated.                                              *)
CreateSurface(w) ==
  /\ win[w].alive /\ ~resource[w] /\ maps[w] < MaxMaps
  /\ resource' = [resource EXCEPT ![w] = TRUE]
  /\ contents' = [contents EXCEPT ![w] = 0]
  /\ lastEventSerial' = [lastEventSerial EXCEPT ![w] = 0]
  /\ maps' = [maps EXCEPT ![w] = @ + 1]
  /\ given' = [given EXCEPT ![w] = win[w].sid]
  /\ IF win[w].sid /\ win[w].unpaired
     THEN LET u == Update(w, win[w], TRUE, 0)
          IN  /\ win' = [win EXCEPT ![w] = u.win]
              /\ UpdateSeen(w, u)
     ELSE UNCHANGED <<win, windows, issued, acks, active, compParent, inbox, appId>>
  /\ UNCHANGED <<focus, needsInputFocus, serial, inputSerial>>

(* WL_SURFACE_ID: the X window learns the id of its wl_surface, the   *)
(* current one or, if that was given before, the next one Xwayland     *)
(* creates.                                                             *)
Associate(w) ==
  /\ win[w].alive /\ ~win[w].sid /\ ~given[w]
  /\ given' = [given EXCEPT ![w] = resource[w]]
  /\ LET u == Update(w, [win[w] EXCEPT !.sid = TRUE], resource[w],
                     contents[w])
     IN  /\ win' = [win EXCEPT ![w] = u.win]
         /\ UpdateSeen(w, u)
  /\ UNCHANGED <<focus, needsInputFocus, resource, contents,
                 lastEventSerial, maps, serial, inputSerial>>

(* UnmapNotify: the window loses its surface id. *)
Unmap(w) ==
  /\ win[w].alive /\ win[w].sid
  /\ LET u == Update(w, [win[w] EXCEPT !.sid = FALSE], resource[w],
                     contents[w])
     IN  /\ win' = [win EXCEPT ![w] = u.win]
         /\ UpdateSeen(w, u)
  /\ UNCHANGED <<focus, needsInputFocus, resource, contents,
                 lastEventSerial, maps, given, serial, inputSerial>>

(* Xwayland destroys the wl_surface; a paired window using it loses    *)
(* its surface id and is updated.                                       *)
DestroySurface(w) ==
  /\ resource[w]
  /\ resource' = [resource EXCEPT ![w] = FALSE]
  /\ contents' = [contents EXCEPT ![w] = 0]
  /\ given' = [given EXCEPT ![w] = FALSE]
  /\ IF win[w].sid /\ ~win[w].unpaired
     THEN LET u == Update(w, [win[w] EXCEPT !.sid = FALSE], FALSE, 0)
          IN  /\ win' = [win EXCEPT ![w] = u.win]
              /\ UpdateSeen(w, u)
     ELSE UNCHANGED <<win, windows, issued, acks, active, compParent, inbox, appId>>
  /\ UNCHANGED <<focus, needsInputFocus, lastEventSerial, maps, serial,
                 inputSerial>>

(* The guest commits a buffer of size c; the paired window's owed ack  *)
(* is processed against it.                                             *)
SurfaceCommit(w, c) ==
  /\ win[w].alive /\ resource[w]
  /\ contents' = [contents EXCEPT ![w] = c]
  /\ IF win[w].sid /\ ~win[w].unpaired
     THEN LET done == Commit(win[w], TRUE, c)
          IN  /\ win' = [win EXCEPT ![w] = done.win]
              /\ RecordAck(w, done.ack)
     ELSE UNCHANGED <<win, acks>>
  /\ UNCHANGED <<windows, focus, needsInputFocus, resource, lastEventSerial,
                 maps, given, serial, inputSerial, inbox, issued, active, compParent, appId>>

(* An input event on the surface takes the next serial.  Wayland has  *)
(* one serial counter; the model counts input serials apart because     *)
(* last_event_serial is compared only with other last_event_serials.    *)
(* lastEventSerial keeps the count; LastEventSerial truncates it.       *)
Input(w) ==
  /\ win[w].alive /\ resource[w] /\ inputSerial < MaxInputs
  /\ inputSerial' = inputSerial + 1
  /\ lastEventSerial' = [lastEventSerial EXCEPT ![w] = inputSerial + 1]
  /\ UNCHANGED <<win, windows, focus, needsInputFocus, resource, contents,
                 maps, given, serial, inbox, issued, acks, active, compParent, appId>>

(* A property change (WM_NAME, hints, ...) of a window with a surface. *)
PropertyChange(w) ==
  /\ win[w].alive /\ win[w].sid
  /\ LET u == Update(w, win[w], resource[w], contents[w])
     IN  /\ win' = [win EXCEPT ![w] = u.win]
         /\ UpdateSeen(w, u)
  /\ UNCHANGED <<focus, needsInputFocus, resource, contents,
                 lastEventSerial, maps, given, serial, inputSerial>>

(* DestroyNotify: the window is unpaired, then ~sl_window clears the   *)
(* input focus it holds and unlinks it.                                 *)
DestroyWindow(w) ==
  /\ win[w].alive
  /\ LET u == IF win[w].sid
              THEN Update(w, [win[w] EXCEPT !.sid = FALSE], resource[w],
                          contents[w])
              ELSE [win |-> win[w], windows |-> windows, cparent |-> None,
                    ack |-> 0, torn |-> FALSE]
     IN  /\ win' = [win EXCEPT ![w] = [u.win EXCEPT !.alive = FALSE]]
         /\ IF win[w].sid
            THEN UpdateSeen(w, [u EXCEPT !.windows = Remove(@, w)])
            ELSE /\ windows' = Remove(windows, w)
                 /\ UNCHANGED <<issued, acks, active, compParent, inbox, appId>>
  /\ focus' = IF focus = w THEN None ELSE focus
  /\ needsInputFocus' = (needsInputFocus \/ focus = w)
  /\ UNCHANGED <<resource, contents, lastEventSerial, maps, given, serial, inputSerial>>

-----------------------------------------------------------------------------
Init ==
  /\ win \in {[w \in Win |-> NewWindow(w, wd[w], bd[w])] :
                wd \in [Win -> InitWidths], bd \in [Win -> InitBorders]}
  /\ windows = <<>>
  /\ focus = None
  /\ needsInputFocus = FALSE
  /\ resource = [w \in Win |-> FALSE]
  /\ contents = [w \in Win |-> 0]
  /\ lastEventSerial = [w \in Win |-> 0]
  /\ maps = [w \in Win |-> 0]
  /\ given = [w \in Win |-> FALSE]
  /\ serial = 0
  /\ inputSerial = 0
  /\ inbox = <<>>
  /\ issued = [w \in Win |-> {}]
  /\ acks = [w \in Win |-> <<>>]
  /\ active = None
  /\ compParent = [w \in Win |-> None]
  /\ appId = [w \in Win |-> None]

Compositor ==
  \E w \in Win :
    \/ \E size \in {0} \cup LogicalSizes, st \in StateSets :
         SendToplevelConfigure(w, size, st)
    \/ SendPopupConfigure(w)
    \/ Activate(w)
    \/ SendClose(w)

XSide ==
  \E w \in Win :
    \/ CreateSurface(w)
    \/ Associate(w)
    \/ Unmap(w)
    \/ DestroySurface(w)
    \/ \E c \in ContentSizes : SurfaceCommit(w, c)
    \/ Input(w)
    \/ PropertyChange(w)
    \/ DestroyWindow(w)

Next == Dispatch \/ Compositor \/ XSide

(* sommelier dispatches every queued event; Xwayland eventually commits *)
(* a buffer of the window's current size.                               *)
Fairness ==
  /\ WF_vars(Dispatch)
  /\ \A w \in Win : WF_vars(SurfaceCommit(w, Total(win[w])))

Spec == Init /\ [][Next]_vars /\ Fairness

-----------------------------------------------------------------------------
(* Properties. *)

Sizes == {0} \cup InitWidths \cup {HostToGuest(n) : n \in LogicalSizes}

ConfigType == [serial : 0..MaxSerial, mask : BOOLEAN, size : Sizes,
               nstates : 0..4]

Event == [kind : {"toplevel", "surface", "close"}, w : Win,
          size : {0} \cup LogicalSizes, states : SUBSET XdgStates,
          serial : 0..MaxSerial]

TypeOK ==
  /\ \A w \in Win :
       /\ win[w].next \in ConfigType /\ win[w].pending \in ConfigType
       /\ win[w].width \in Sizes /\ win[w].border \in {0} \cup InitBorders
       /\ {win[w].alive, win[w].sid, win[w].unpaired, win[w].paired,
           win[w].xdgSurface, win[w].toplevel, win[w].popup, win[w].aura,
           win[w].realized, win[w].activated, win[w].abort} \subseteq BOOLEAN
  /\ windows \in Seq(Win)
  /\ focus \in Win \cup {None} /\ active \in Win \cup {None}
  /\ resource \in [Win -> BOOLEAN]
  /\ contents \in [Win -> {0} \cup ContentSizes]
  /\ lastEventSerial \in [Win -> 0..MaxInputs]
  /\ serial \in 0..MaxSerial
  /\ inbox \in Seq(Event)
  /\ issued \in [Win -> SUBSET [serial : 1..MaxSerial,
                                size : {0} \cup LogicalSizes]]
  /\ acks \in [Win -> Seq(1..MaxSerial)]
  /\ compParent \in [Win -> Win \cup {None}]

(* sl_configure_window asserts that no configure is awaiting its ack    *)
(* and that only managed windows get a geometry: the callbacks and the  *)
(* ack chain of sl_process_pending_configure_acks never call it         *)
(* otherwise, so the process never aborts.                              *)
NoAssertFailure == \A w \in Win : ~win[w].abort

(* Every ack sommelier sends on an xdg_surface names a later serial     *)
(* than every ack it sent on it before: the pending/next double buffer  *)
(* never acks a configure twice or out of order.                        *)
AcksIncrease ==
  [][\A w \in Win :
       Len(acks'[w]) > Len(acks[w]) /\ Len(acks[w]) > 0 =>
         \A i \in 1..Len(acks[w]) : acks[w][i] < Last(acks'[w])]_vars

(* Anti-tearing: when a managed window acks a configure that proposed a *)
(* size, the buffer the guest has committed already has that size (in   *)
(* device pixels), so the compositor never shows a frame of another.    *)
AckMatchesRequest ==
  [][\A w \in Win :
       Len(acks'[w]) > Len(acks[w]) /\ win[w].managed =>
         \A i \in issued[w] :
           i.serial = Last(acks'[w]) /\ i.size # 0 =>
             contents'[w] = HostToGuest(i.size)]_vars

(* The input-focus window recorded by the toplevel configure callback  *)
(* is a live window whose last configure said it is activated: focus   *)
(* moves and window destruction never leave it dangling or stale.       *)
FocusHeldByActivated ==
  focus # None => win[focus].alive /\ win[focus].activated

IssuedSerials(w) == {i.serial : i \in issued[w]}

(* Every configure issued to a live xdg_surface is eventually acked,   *)
(* itself or through a later serial, or its surface goes away: the ack  *)
(* sommelier withholds until the buffer has the right size is not       *)
(* withheld forever.                                                    *)
EventuallyAcked ==
  \A w \in Win, s \in 1..MaxSerial :
    s \in IssuedSerials(w) ~>
      \/ s \notin IssuedSerials(w)
      \/ \E i \in 1..Len(acks[w]) : acks[w][i] >= s

(* ctx->windows holds exactly the live windows whose unpaired flag is  *)
(* clear, each once: pairing, unpairing and destruction keep the list   *)
(* that parent resolution scans in step with the flags.                 *)
PairedListConsistent ==
  /\ IsInjective(windows)
  /\ \A w \in Win : (w \in Range(windows)) <=> (win[w].alive /\ ~win[w].unpaired)

(* The configure engine implements ConfigureQueue: pending_config is the *)
(* owed configure, next_config the one waiting behind it, and every ack   *)
(* sommelier sends, the immediate one of the xdg_surface callback, the   *)
(* chained one of sl_process_pending_configure_acks and the commit of    *)
(* sl_window_update, is an ack of the owed serial in that order.         *)
CQ == INSTANCE ConfigureQueue
        WITH owed <- [w \in Win |-> win[w].pending.serial],
             queued <- [w \in Win |-> win[w].next.serial],
             acked <- acks

ConfigureQueueRefined == CQ!Spec

(* The toplevel configure callback, the popup positioner and the aura  *)
(* set_parent read window->paired_surface: whenever a window has an      *)
(* xdg_surface or a role it is alive, paired, and its wl_surface exists, *)
(* because unmap, surface destruction and window destruction all tear    *)
(* the roles down before the surface is disowned.                        *)
RolesHavePairedSurface ==
  \A w \in Win :
    win[w].xdgSurface \/ win[w].toplevel \/ win[w].popup =>
      /\ win[w].alive /\ win[w].paired /\ ~win[w].unpaired
      /\ win[w].sid /\ resource[w]


-----------------------------------------------------------------------------
(* Statements of the spec and of the xdg-shell protocol that the code   *)
(* does not keep; each is checked by a run expected to violate it.      *)

(* xdg-shell: ack_configure names a serial of a configure the same      *)
(* xdg_surface received.                                                *)
AckIssuedToSurface ==
  [][\A w \in Win :
       Len(acks'[w]) > Len(acks[w]) => Last(acks'[w]) \in IssuedSerials(w)
    ]_vars

(* spec 3: the state list of a configure buffer holds at most 3 atoms. *)
StatesFitBuffer ==
  \A w \in Win : win[w].next.nstates <= 3 /\ win[w].pending.nstates <= 3

(* Once sommelier has dispatched every compositor event, its input     *)
(* focus window is the managed toplevel the compositor has activated.   *)
FocusFollowsCompositor ==
  inbox = <<>> /\ active # None /\ win[active].managed => focus = active

(* spec 3: a window has at most one role, toplevel or popup. *)
RoleExclusive == \A w \in Win : ~(win[w].toplevel /\ win[w].popup)

(* The parent links sommelier hands the compositor form no cycle. *)
ParentAcyclic ==
  LET tc == TransitiveClosure([p \in Win \X Win |-> compParent[p[1]] = p[2]],
                              Win)
  IN  \A w \in Win : ~tc[w, w]

(* The reference choice of the fallback: among the realized paired    *)
(* windows other than w, the one whose last input came latest, by the   *)
(* compositor's order of input events (later in the list on a tie of    *)
(* windows that never had input).                                        *)
LatestInputParent(w, list) ==
  LET cand == {i \in DOMAIN list :
                 /\ win[list[i]].realized
                 /\ win[list[i]].sid /\ resource[list[i]]
                 /\ list[i] # w}
      later(i, j) == \/ lastEventSerial[list[i]] > lastEventSerial[list[j]]
                     \/ lastEventSerial[list[i]] = lastEventSerial[list[j]] /\ i > j
  IN  IF cand = {} THEN None
      ELSE list[CHOOSE i \in cand : \A j \in cand \ {i} : later(i, j)]

(* The last-event fallback of sl_window_update (lines 442-468) picks   *)
(* the window that had the most recent input, as its comment promises,  *)
(* for every unmanaged window at every point of the run.                *)
FallbackPicksLatestInput ==
  \A w \in Win \ Managed : FallbackParent(w, windows) = LatestInputParent(w, windows)

=============================================================================
