# TLA+ models of sommelier's window core

These modules model `src/sommelier/sommelier-window.cc`. That file holds the
per-window state machine sommelier uses to put X11 windows (through
Xwayland) on a Wayland compositor's xdg-shell surfaces. The models let TLC
check how that state machine reacts to every interleaving of compositor
events and X events, within small bounds.

## The system

`sommelier-window.cc` has these parts. Section numbers refer to `spec.md`.

| Part | Code | State it owns |
|---|---|---|
| Window entity | `sl_window::sl_window`, `~sl_window` | `managed`, `host_surface_id`, `unpaired`, the list link, focus clean-up |
| Configure engine (4.1) | `sl_configure_window`, `sl_send_configure_notify`, `sl_process_pending_configure_acks`, `sl_commit` | `next_config` / `pending_config` (serial, mask, values, states), `width`, `border_width` |
| Listener bridge (4.2) | `sl_internal_xdg_surface_configure`, `..._toplevel_configure`, `..._toplevel_close`, the popup callbacks | `next_config`, `allow_resize`, `compositor_fullscreen`, `activated`, `ctx->host_focus_window`, `ctx->needs_set_input_focus` |
| Identity resolver (4.3) | `sl_update_application_id` | the application id the aura surface holds |
| Reconciliation engine (4.4) | `sl_window_update` | pairing, `paired_surface`, `xdg_surface`, `aura_surface`, `xdg_toplevel`, `xdg_popup`, `realized`, the parent handed to the compositor |

How they interact:

- The compositor sends `xdg_toplevel.configure` and then `xdg_surface.configure`.
- The bridge builds `next_config` from these events. When no ack is owed, the
  engine moves `next_config` to `pending_config` at once and sends the X
  ConfigureWindow.
- On each commit of the guest's surface, `sl_process_pending_configure_acks`
  acks the pending serial, but only once the committed buffer has the
  configured size (`width + 2*border`). It then applies whatever is in
  `next_config`.
- `sl_window_update` runs after each X event that changes a window's surface
  id or properties. It pairs the window with its `wl_surface`, or tears its
  roles down. It resolves a parent: first the `WM_TRANSIENT_FOR` window, and
  if that fails the realized window with the latest input serial. It then
  creates the xdg roles.

Everything runs on one event loop. So each callback and each
`sl_window_update` is one atomic step, and concurrency comes only from the
order in which events from the compositor and from X arrive.

## Modules

- `SommelierWindow.tla` is the whole model. It has one set of windows, `Win`,
  and these variables:
  - `win[w]`: a record of the `sl_window` fields the control flow reads. It
    includes `next` and `pending`, which are
    `[serial, mask, size, nstates]`.
  - `windows`: `ctx->windows`, the paired list, as a sequence.
  - `focus` and `needsInputFocus`.
  - Of the host surface: `resource`, `contents` (the committed buffer size)
    and `lastEventSerial`.
  - The compositor's view: `inbox` (the FIFO of events not yet dispatched),
    `issued` (the serials sent per surface), `acks` (the serials acked per
    surface), `active` and `compParent` (the parent each window was given).
- `ConfigureQueue.tla` is the abstract specification of what the configure
  engine promises, per window. One configure is owed an ack (`owed`), at most
  one more waits behind it (`queued`), and a newer one replaces the waiting
  one. An ack names the owed serial, after which the waiting configure
  becomes owed. A destroyed xdg_surface takes its ack history (`acked`) with
  it. `SommelierWindow` instantiates it as `CQ`, mapping
  `owed <- pending_config.serial`, `queued <- next_config.serial` and
  `acked <- acks`. The property `ConfigureQueueRefined == CQ!Spec` states
  that every step of the detailed model is a `Receive`, `Ack` or `Forget`
  step of the abstract one, or leaves it unchanged.
- `ApplicationId.tla` models `sl_update_application_id`.
  - `ApplicationIdOf` is the code's if-chain over `app_id_property`,
    `clazz` and `client_leader`, falling back to the window id.
  - `UpdateApplicationId` adds the early returns: no aura surface, the
    fixed `ctx->application_id`, and no id for override-redirect windows
    under Xwayland.
  - The actions are X property changes, each followed by the update, and
    the creation and destruction of the aura surface by `sl_window_update`.
  - An id is a record of its format template and the value put into it.
- `SommelierWindow` takes `UpdateApplicationId` from `ApplicationId`
  through the instance `AI`. Each window's identity fields come from the
  constant `Identity` (a record of `prop`, `clazz` and `leader`, using
  `NoValue` and `None` for unset values). The variable `appId` holds the id
  the compositor has for each aura surface. Each update sets it through
  `AppIdAfter`, or clears it when the update tears the roles down. No
  property is checked on `appId` in this model. Identity is constant here,
  so a refinement of `ApplicationId` would hold by construction. The id
  logic is checked in `MCApplicationId`.
- `MCSommelierWindow.tla` and `MCApplicationId.tla` instantiate the models
  for TLC. They define model-value windows (and property values), the
  transient-for maps and the symmetry set.

How the code maps to the model:

- Sequential helpers are record-to-record operators: `ConfigureWindow`,
  `ProcessAcks`, `Commit`, `NextConfig`, `FocusAfter`, `PairedList`,
  `TransientParent`, `FallbackParent`, `ResolveParent` and `Update`. Each
  handler action calls them in the order the code does.
  - `Update` covers the whole of `sl_window_update`, including the final
    commit under `COMMIT_LOOP_FIX` and the `realized` update.
  - `UpdateSeen` applies what the compositor observes of an update. On
    teardown, the role objects' queued events, serials and parent links go
    away.
- The callbacks are `SurfaceConfigured` and `ToplevelConfigured`, written as
  record-returning operators. The actions `HandleSurfaceConfigure`,
  `HandleToplevelConfigure` and `HandleClose` dispatch the head of `inbox`
  and are grouped as `Dispatch`.
- The constant `SplitDispatch` sets how configure pairs are dispatched.
  - FALSE: a toplevel configure and the xdg_surface configure the
    compositor sends with it are dispatched in one step. This is the usual
    case, since both arrive in one read of the display socket.
  - TRUE: X-side events may be handled between the two. This happens when
    the read splits the batch.
- The compositor and Xwayland actions are `SendToplevelConfigure`,
  `SendPopupConfigure`, `Activate`, `SendClose`, `CreateSurface`,
  `Associate` (WL_SURFACE_ID), `Unmap`, `DestroySurface`, `SurfaceCommit`,
  `Input`, `PropertyChange` and `DestroyWindow`. Their code is not under
  `src/`, so they are written from the spec and the protocols and marked
  `spec_modelled` in `PROJECT.json`.
- `DestroyWindow` runs the unpairing update and then the destructor.
- The build flags are constants: `CommitLoopFix` is `COMMIT_LOOP_FIX`,
  `XWayland` is `ctx->xwayland` and `AuraShell` is `ctx->aura_shell`.
- Sizes are abstracted:
  - one integer stands for width and height;
  - `HostToGuest` multiplies by `ScaleFactor`;
  - a state list is abstracted to its length `nstates`, which is what the
    ack rule and the buffer bound read.

## Runs

`MCApplicationId.cfg` instantiates `MCApplicationId`. Every other `.cfg`
file instantiates `MCSommelierWindow`. All of them except `MCConfigure`
set `SplitDispatch = TRUE`. The `MCSommelierWindow` runs set
`CHECK_DEADLOCK FALSE`. Once the bounds are used up, or every window is destroyed,
the proxy simply idles, which is not an error.

Runs expected to pass:

- **MCConfigure** (one managed window, Xwayland, configure pairs
  dispatched together, 52,900 states, about 40s).
  - Checked:
    - `NoAssertFailure`: the asserts in `sl_configure_window` never fire.
    - `AcksIncrease`.
    - `AckMatchesRequest` (anti-tearing): an ack of a sized configure
      happens only with a buffer of that size.
    - `EventuallyAcked`.
    - `ConfigureQueueRefined`: the refinement of the abstract queue.
  - Two proposed sizes (1 and 2, so 2 and 4 pixels), borders {0,1} and
    buffer sizes {2,4}. Wrong-size and right-size commits both happen, and
    one configure can be replaced by one of another size.
  - `MaxMaps 2` allows a remap.
  - `MaxSerial 3` gives the initial configure plus two sized ones, so a
    queued configure is overwritten.
- **MCApplicationId** (a managed and an override-redirect window, 576
  states).
  - Checked: `AppIdCurrent`. After any sequence of property changes, maps
    and unmaps, the compositor holds, for each window, the id that the
    reference priority selection gives for its current properties, and
    none for the override-redirect window.
- **MCFocus** (two managed windows, symmetry, 453,264 states).
  - Checked: `FocusHeldByActivated`.
  - The compositor activates and deactivates windows and X destroys them.
- **MCRoles** (a managed window transient for an unmanaged one, no Xwayland,
  one input serial, 367,035 states).
  - Checked: `TypeOK`, `PairedListConsistent` and `RolesHavePairedSurface`.
  - `RolesHavePairedSurface`: whenever a window has an `xdg_surface`,
    toplevel or popup, it is alive and paired with a live `wl_surface`. The
    toplevel configure callback, the popup positioner and `set_parent` read
    `window->paired_surface` without checking it, and this is what makes
    those reads safe. It holds because every path that disowns the surface
    (unmap, surface destruction, window destruction) runs the teardown of
    `sl_window_update` first.
  - This run exercises the popup path, `SendPopupConfigure` and `Input`.

Runs expected to find a violation (each is a finding in `PROJECT.json`):

| Run | Property | What TLC shows |
|---|---|---|
| MCCommitLoopFix | `EventuallyAcked` | Under `COMMIT_LOOP_FIX`, a configure with no size and no states is never acked, and every later one queues behind it (lines 137-144). |
| MCStaleSerial | `AckIssuedToSurface` | Teardown keeps `pending_config`. After a remap, the old serial is acked on the new `xdg_surface` (lines 388-406, 158). |
| MCSplitConfigure | `AckMatchesRequest` | With `SplitDispatch`, a commit handled between a toplevel configure and its xdg_surface configure chains the queued serial with the newer size (lines 253-275, 164). That serial is acked with a buffer of another size. |
| MCStatesOverflow | `StatesFitBuffer` | Fullscreen + maximized + activated writes four atoms into a three-entry array (lines 280-301). |
| MCFocusStale | `FocusFollowsCompositor` | `activated` survives teardown, so re-activating a remapped window leaves the focus on another one (line 303). |
| MCRoleExclusive | `RoleExclusive` | Without Xwayland, a toplevel created before the parent was paired later gets a popup as well (lines 520-552). |
| MCParentCycle | `ParentAcyclic` | The last-event fallback makes two unmanaged windows each other's parent (lines 437-472, 526). |
| MCSerialWrap | `FallbackPicksLatestInput` | Three unmanaged windows and a one-bit `last_event_serial`. The second input's serial wraps to 0, and the fallback's plain `>` (line 462) picks the window whose input came first. |

`FallbackPicksLatestInput` compares `FallbackParent` with `LatestInputParent`,
a reference definition: among the realized paired windows other than the
window itself, the one whose last input came latest in the compositor's
order. `lastEventSerial` keeps the untruncated count of input serials.
`LastEventSerial` is what the `uint32_t` field holds, the count modulo
`2^SerialBits`. TLC's integers cannot hold 2^32, so the width is a constant.
The comparison behaves the same at any width: it goes wrong exactly when
the counter wraps between two inputs. With `SerialBits = 8` and no wrap,
the same three-window run passes (831,258 states). Every other run sets
`SerialBits = 8`, which no serial reaches.

Spec section 8 says queued configures are acked in FIFO order, one per
commit cycle. The code keeps one slot behind the pending configure, and a
newer serial overwrites it (line 196), so the configures in between are
never acked. xdg-shell allows this. `ConfigureQueue` states the coalescing
behaviour, and `ConfigureQueueRefined` shows the code implements it.

Every property of a passing run has a mutant in `PROJECT.json`. A mutant is
a plausible bug in the mapped operator (a serial not cleared, the border not
zeroed, the ack chain reversed or dropped, the state index not reset, focus
never released, the paired list always inserting, the immediate apply path of the xdg_surface
callback dropped, WM_CLASS ranked above the property, the popup kept on
teardown), and the property
catches each one.

Spec section 4.4 step 6 says a managed window with a parent gets a popup.
Under Xwayland, the code makes every window a toplevel with `set_parent`
(line 520). The comment there says this is on purpose, so no run checks it.

## Bounds and fairness

- `MaxSerial` bounds the compositor's serials.
- `MaxMaps` bounds how often a window's `wl_surface` is created.
- `MaxInputs` bounds input events.
- `MaxInbox` bounds how many undispatched events there can be.
- `SerialBits` is the width of `last_event_serial`. It is 1 in
  MCSerialWrap, so that two inputs wrap it, and 8 elsewhere.

Each run sets these just high enough for its case to occur:

- a second configure while one is pending;
- a remap after a teardown;
- two activations, so that one window is deactivated;
- an input that changes which sibling has the latest event.

Liveness (`EventuallyAcked`) assumes two kinds of fairness:

- Weak fairness on `Dispatch`. sommelier's event loop always reads pending
  compositor events.
- Weak fairness on `SurfaceCommit(w, Total(win[w]))`. Xwayland eventually
  commits a buffer of the size the X window was configured to. This is the
  premise behind the anti-tearing check's comment at lines 150-151.

No other fairness is assumed. The compositor and X may stop at any time.

## Not modelled

- The format templates of the application ids, and the VM id in them. The
  templates are defined outside `src/`, so the uniqueness of the strings is
  not checked.
- Frame, title, colours, min/max size, startup id and positioner offsets.
  None of them feeds back into the control flow.
- The `sl_transform_*` scaling. It is reduced to one scale factor.
- `sl_send_configure_notify` (lines 112-130). It only writes a synthetic
  ConfigureNotify to the X client and changes no state of this file.
- The host surface pointer itself. Its liveness is expressed by
  `RolesHavePairedSurface`.
- The blocking geometry query at line 475. It is a round trip to the X
  server, which never waits on sommelier.
- The code clears `realized` on teardown (line 405), while spec section 3
  calls it sticky. The model follows the code. No run checks the spec's
  statement.

## Plan for further work

1. The states list as a sequence of atoms, so the overflow is expressed by
   index and not by a count.
2. The rescale request of `sl_window_update` (line 414). It runs on every
   update of a paired window, while spec 4.4 step 2 says it runs only on
   pairing.
3. The x/y centring of sized configures (lines 255-271) and the synthetic
   ConfigureNotify of `sl_configure_window`.
