----------------------------- MODULE FrameGate -----------------------------
(***************************************************************************)
(* What the display backend promises to the renderer of one window: a      *)
(* gate.  A window asks for updates or refuses them; the gate of its       *)
(* display opens once, when the display becomes ready; a frame passes only *)
(* through an open gate of a display whose updates are asked for; and a    *)
(* display that is replaced starts again from a closed gate.               *)
(*                                                                         *)
(* Module DisplayBackend shows that the locks, the delay timer and the     *)
(* four flags of class KmreDisplay implement this.                         *)
(***************************************************************************)
EXTENDS Naturals

CONSTANTS Widgets, \* the display widgets, one KmreDisplay each
          Frame    \* the frames a renderer can be handed; 0 is "none"

VARIABLES wanted, \* [Widgets -> BOOLEAN] the last request for this display
          open,   \* [Widgets -> BOOLEAN] the display is ready to be updated
          last    \* [Widgets -> Frame]   the last frame handed to its renderer

vars == <<wanted, open, last>>

Init == /\ wanted = [w \in Widgets |-> FALSE]
        /\ open   = [w \in Widgets |-> FALSE]
        /\ last   = [w \in Widgets |-> 0]

Request(w, b) == /\ wanted' = [wanted EXCEPT ![w] = b]
                 /\ UNCHANGED <<open, last>>

Open(w) == /\ ~open[w]
           /\ open' = [open EXCEPT ![w] = TRUE]
           /\ UNCHANGED <<wanted, last>>

\* A frame reaches the renderer; the display may become ready by that frame.
Pass(w, f) == /\ wanted[w]
              /\ last' = [last EXCEPT ![w] = f]
              /\ open' = [open EXCEPT ![w] = TRUE]
              /\ UNCHANGED wanted

Replace(w) == /\ wanted' = [wanted EXCEPT ![w] = FALSE]
              /\ open'   = [open EXCEPT ![w] = FALSE]
              /\ last'   = [last EXCEPT ![w] = 0]

Next == \E w \in Widgets : \/ \E b \in BOOLEAN : Request(w, b)
                           \/ Open(w)
                           \/ \E f \in Frame \ {0} : Pass(w, f)
                           \/ Replace(w)

Spec == Init /\ [][Next]_vars
=============================================================================
