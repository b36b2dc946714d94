--------------------------- MODULE ConfigureQueue ---------------------------
(***************************************************************************)
(* What sommelier's configure engine promises the compositor, per window,  *)
(* without buffers, sizes or surfaces: at most one configure is owed an    *)
(* ack, at most one more waits behind it (a newer one replaces it), the    *)
(* owed one is acked before the waiting one becomes owed, and a destroyed  *)
(* xdg_surface takes its ack history with it.                              *)
(*                                                                         *)
(* SommelierWindow implements this specification under the mapping        *)
(* owed <- pending_config.serial, queued <- next_config.serial,           *)
(* acked <- the acks the compositor holds for the current xdg_surface.    *)
(***************************************************************************)
EXTENDS Naturals, Sequences

CONSTANTS Win, MaxSerial

VARIABLES
  owed,    \* serial of the configure awaiting its ack, 0 if none
  queued,  \* serial of the configure waiting behind it, 0 if none
  acked    \* serials acked on the current xdg_surface, in order

vars == <<owed, queued, acked>>

Init ==
  /\ owed = [w \in Win |-> 0]
  /\ queued = [w \in Win |-> 0]
  /\ acked = [w \in Win |-> <<>>]

(* A configure with a newer serial s arrives for w.  With nothing owed *)
(* it becomes owed, or is acked at once; otherwise it waits, replacing *)
(* what waited before.                                                  *)
Receive(w, s) ==
  /\ s > owed[w] /\ s > queued[w]
  /\ \/ /\ owed[w] = 0
        /\ owed' = [owed EXCEPT ![w] = s]
        /\ UNCHANGED <<queued, acked>>
     \/ /\ owed[w] = 0
        /\ acked' = [acked EXCEPT ![w] = Append(@, s)]
        /\ UNCHANGED <<owed, queued>>
     \/ /\ owed[w] # 0
        /\ queued' = [queued EXCEPT ![w] = s]
        /\ UNCHANGED <<owed, acked>>

(* The owed configure is acked; the waiting one becomes owed. *)
Ack(w) ==
  /\ owed[w] # 0
  /\ acked' = [acked EXCEPT ![w] = Append(@, owed[w])]
  /\ owed' = [owed EXCEPT ![w] = queued[w]]
  /\ queued' = [queued EXCEPT ![w] = 0]

(* The xdg_surface of w is destroyed: its acks are gone. *)
Forget(w) ==
  /\ acked' = [acked EXCEPT ![w] = <<>>]
  /\ UNCHANGED <<owed, queued>>

Next ==
  \E w \in Win :
    \/ \E s \in 1..MaxSerial : Receive(w, s)
    \/ Ack(w)
    \/ Forget(w)

Spec == Init /\ [][Next]_vars

=============================================================================
