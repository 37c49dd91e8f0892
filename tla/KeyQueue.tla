------------------------------ MODULE KeyQueue ------------------------------
(***************************************************************************)
(* What the Book Cover's keyboard promises to the input layer: a bounded   *)
(* queue of key events between the controller's matrix and the input       *)
(* device.  BookCover is the chain of drivers that implements it.          *)
(***************************************************************************)
EXTENDS Naturals

CONSTANT Depth      \* key events the queue holds

VARIABLES queue,    \* events not yet read
          link      \* "up": events are delivered; "stalled": a transfer
                    \* failed, the next event restarts it; "down"

Init == queue = 0 /\ link = "down"

\* A key is pressed or released; a full queue loses it.  It ends a stall.
Press == /\ queue < Depth /\ queue' = queue + 1
         /\ link' = IF link = "stalled" THEN "up" ELSE link

\* The stalled queue is full: the event is lost but tells of the others.
Overflow == queue = Depth /\ link = "stalled" /\ link' = "up" /\ UNCHANGED queue

Deliver == queue > 0 /\ queue' = queue - 1 /\ UNCHANGED link

\* What a set-up finds in the queue may lack its interrupt.
Connect    == /\ link = "down" /\ UNCHANGED queue
              /\ link' = "up" \/ (link' = "stalled" /\ queue > 0)
Disconnect == link # "down" /\ link' = "down" /\ UNCHANGED queue
Stall      == link = "up" /\ queue > 0 /\ link' = "stalled" /\ UNCHANGED queue
PowerLost  == queue' = 0 /\ link' = "down"

Next == Press \/ Overflow \/ Deliver \/ Connect \/ Disconnect \/ Stall \/ PowerLost

vars == <<queue, link>>

\* While the link is up, a waiting event is delivered in the end.
Spec == Init /\ [][Next]_vars /\ WF_vars(link = "up" /\ Deliver)
=============================================================================
