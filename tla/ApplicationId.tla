---------------------------- MODULE ApplicationId ----------------------------
(***************************************************************************)
(* sl_update_application_id (src/sommelier/sommelier-window.cc): the     *)
(* application id sommelier gives a window's aura surface, from a fixed   *)
(* process-wide id or from the window's identity properties in priority   *)
(* order.  The X side changes those properties and maps and unmaps the    *)
(* window; each change is followed by sl_window_update, which creates or  *)
(* destroys the aura surface and calls sl_update_application_id.          *)
(*                                                                         *)
(* An id is a record [fmt, arg]: fmt names the format template and arg    *)
(* the value put into it.  The VM id every template carries is the same   *)
(* for all windows and is left out.                                       *)
(***************************************************************************)
EXTENDS Naturals, Sequences

CONSTANTS
  Win,       \* X11 windows (model values); a window's id is itself
  None,      \* XCB_WINDOW_NONE, and "no id sent"
  NoValue,   \* an empty app_id_property, a NULL clazz
  Managed,   \* the windows with window->managed set
  XWayland,  \* ctx->xwayland
  FixedId,   \* ctx->application_id, None if unset
  Props,     \* values the application-id property may take
  Classes,   \* WM_CLASS values
  Leaders    \* WM_CLIENT_LEADER values

ASSUME /\ Managed \subseteq Win /\ XWayland \in BOOLEAN
       /\ {None, NoValue} \cap (Win \cup Props \cup Classes) = {}
       /\ Leaders \subseteq Win

VARIABLES
  win,    \* per window: prop, clazz, leader, aura (aura_surface exists)
  appId   \* the application id the compositor holds for the aura surface

vars == <<win, appId>>

-----------------------------------------------------------------------------
(* Variant with a bug: WM_CLASS takes priority over the property. *)
ApplicationIdOfClassFirst(w, r) ==
  IF r.clazz # NoValue THEN [fmt |-> "wmclass", arg |-> r.clazz]
  ELSE IF r.prop # NoValue THEN [fmt |-> "xprop", arg |-> r.prop]
  ELSE IF r.leader # None THEN [fmt |-> "leader", arg |-> r.leader]
  ELSE [fmt |-> "xid", arg |-> w]

(* The id derived from window w's identity fields r. *)
ApplicationIdOf(w, r) ==
  IF r.prop # NoValue THEN [fmt |-> "xprop", arg |-> r.prop]
  ELSE IF r.clazz # NoValue THEN [fmt |-> "wmclass", arg |-> r.clazz]
  ELSE IF r.leader # None THEN [fmt |-> "leader", arg |-> r.leader]
  ELSE [fmt |-> "xid", arg |-> w]

(* sl_update_application_id: the id held for w's aura surface after the *)
(* call.  Nothing is sent without an aura surface, nor for an unmanaged  *)
(* (override-redirect) window under Xwayland.                           *)
UpdateApplicationId(w, r) ==
  CASE ~r.aura -> appId[w]
    [] FixedId # None -> [fmt |-> "fixed", arg |-> FixedId]
    [] ~XWayland \/ w \in Managed -> ApplicationIdOf(w, r)
    [] OTHER -> appId[w]

(* An X property change of w to fields r, followed by sl_window_update. *)
Change(w, r) ==
  /\ win' = [win EXCEPT ![w] = r]
  /\ appId' = [appId EXCEPT ![w] = UpdateApplicationId(w, r)]

SetProperty(w, p) == Change(w, [win[w] EXCEPT !.prop = p])
SetClass(w, c) == Change(w, [win[w] EXCEPT !.clazz = c])
SetLeader(w, l) == Change(w, [win[w] EXCEPT !.leader = l])

(* The window gets its wl_surface: sl_window_update creates the aura    *)
(* surface, then sets its id.                                           *)
Map(w) ==
  /\ ~win[w].aura
  /\ Change(w, [win[w] EXCEPT !.aura = TRUE])

(* The window loses its wl_surface: the aura surface is destroyed and   *)
(* its id with it.                                                      *)
Unmap(w) ==
  /\ win[w].aura
  /\ win' = [win EXCEPT ![w].aura = FALSE]
  /\ appId' = [appId EXCEPT ![w] = None]

Init ==
  /\ win \in [Win -> [prop : Props \cup {NoValue},
                      clazz : Classes \cup {NoValue},
                      leader : Leaders \cup {None}, aura : {FALSE}]]
  /\ appId = [w \in Win |-> None]

Next ==
  \E w \in Win :
    \/ \E p \in Props \cup {NoValue} : SetProperty(w, p)
    \/ \E c \in Classes \cup {NoValue} : SetClass(w, c)
    \/ \E l \in Leaders \cup {None} : SetLeader(w, l)
    \/ Map(w)
    \/ Unmap(w)

Spec == Init /\ [][Next]_vars

-----------------------------------------------------------------------------
(* The reference: the first identity source that is set, in the order  *)
(* the spec gives (property, class, client leader, window id).         *)
Candidates(w) ==
  << [fmt |-> "xprop", arg |-> win[w].prop],
     [fmt |-> "wmclass", arg |-> win[w].clazz],
     [fmt |-> "leader", arg |-> win[w].leader],
     [fmt |-> "xid", arg |-> w] >>

ReferenceId(w) ==
  CASE ~win[w].aura -> None
    [] FixedId # None -> [fmt |-> "fixed", arg |-> FixedId]
    [] XWayland /\ w \notin Managed -> None
    [] OTHER -> SelectSeq(Candidates(w),
                          LAMBDA c : c.arg \notin {None, NoValue})[1]

(* After any sequence of property changes, maps and unmaps, the id the *)
(* compositor holds for each window is the one its current properties  *)
(* select by priority, and override-redirect Xwayland windows hold      *)
(* none: sl_update_application_id never leaves a stale or misranked id.  *)
AppIdCurrent == \A w \in Win : appId[w] = ReferenceId(w)

=============================================================================
