---------------------------- MODULE RecordedFile ----------------------------
(***************************************************************************)
(* What the output of a recording promises to whoever feeds it: a file.    *)
(* Frames of a stream are given to it; the stream takes them one at a time *)
(* and writes those it took.  A stream that was told to stop, or that met  *)
(* an error, is lost: it may leave out what it took.  The file is closed   *)
(* once, with all that the other streams took, and then takes and writes   *)
(* nothing; or it breaks, and nothing is written any more.                 *)
(*                                                                         *)
(* Module RecordOutput shows that the encoder threads, the muxer thread    *)
(* and their flags implement this.                                         *)
(***************************************************************************)
EXTENDS Naturals

CONSTANT Streams \* the streams of the file

VARIABLES state,   \* "open", "closed" or "broken"
          lost,    \* the streams that need not be complete
          given,   \* [Streams -> Nat] frames given to a stream,
          taken,   \*   ... those it has taken
          written  \*   ... and those the file has

vars == <<state, lost, given, taken, written>>

Init == /\ state = "open"
        /\ lost = {}
        /\ given   = [s \in Streams |-> 0]
        /\ taken   = [s \in Streams |-> 0]
        /\ written = [s \in Streams |-> 0]

Give(s) == /\ given' = [given EXCEPT ![s] = @ + 1]
           /\ UNCHANGED <<state, lost, taken, written>>

Take(s) == /\ state # "closed"
           /\ taken[s] < given[s]
           /\ taken' = [taken EXCEPT ![s] = @ + 1]
           /\ UNCHANGED <<state, lost, given, written>>

Write(s) == /\ state = "open"
            /\ written[s] < taken[s]
            /\ written' = [written EXCEPT ![s] = @ + 1]
            /\ UNCHANGED <<state, lost, given, taken>>

Lose(s) == /\ lost' = lost \cup {s}
           /\ UNCHANGED <<state, given, taken, written>>

Close == /\ state = "open"
         /\ \A s \in Streams \ lost : written[s] = taken[s]
         /\ state' = "closed"
         /\ UNCHANGED <<lost, given, taken, written>>

Break == /\ state = "open"
         /\ state' = "broken"
         /\ UNCHANGED <<lost, given, taken, written>>

Next == \/ \E s \in Streams : Give(s) \/ Take(s) \/ Write(s) \/ Lose(s)
        \/ Close
        \/ Break

Spec == Init /\ [][Next]_vars
=============================================================================
