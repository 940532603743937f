---------------------------- MODULE DisplayService ----------------------------
(***************************************************************************)
(* What the send path of the driver promises to those who draw on the      *)
(* display and to NVDA, without queue, gate, retries or threads: what is   *)
(* delivered to a row was drawn in it, and never goes back to what newer   *)
(* content replaced; NVDA is told once that a display is given up, and it  *)
(* is not given up behind NVDA's back; nothing is delivered to one that    *)
(* was given up or closed.  A draw that is disturbed while it goes on is   *)
(* torn: its row may show older content until it is drawn again.           *)
(* PacketSender implements it, see Service there.                          *)
(***************************************************************************)
EXTENDS Integers

CONSTANTS
  Rows,      \* destinations of the rows
  MaxFrames  \* bound, a natural number: frames drawn in a row

VARIABLES
  content, \* frame each row holds; 0 is blank
  drawing, \* is the row being drawn?
  torn,    \* was its last draw disturbed?
  shown,   \* frame each row was last sent; -1 before the first
  told,    \* how often NVDA was asked to release the display
  gone,    \* was the display given up?
  phase    \* "running", "ending" or "over"

vars == <<content, drawing, torn, shown, told, gone, phase>>

Init ==
  /\ content = [r \in Rows |-> 0]
  /\ drawing = [r \in Rows |-> FALSE] /\ torn = [r \in Rows |-> FALSE]
  /\ shown = [r \in Rows |-> -1]
  /\ told = 0 /\ gone = FALSE
  /\ phase = "running"

(* A draw begins, and may find the row in use.                             *)
Show(r) ==
  /\ phase # "over" /\ content[r] < MaxFrames
  /\ content' = [content EXCEPT ![r] = @ + 1]
  /\ drawing' = [drawing EXCEPT ![r] = TRUE]
  /\ torn' \in {torn, [torn EXCEPT ![r] = TRUE]}
  /\ UNCHANGED <<shown, told, gone, phase>>

(* Only a draw in progress can be disturbed.                               *)
Tear(r) ==
  /\ drawing[r]
  /\ torn' = [torn EXCEPT ![r] = TRUE]
  /\ UNCHANGED <<content, drawing, shown, told, gone, phase>>

(* A draw ends, perhaps while another goes on.                             *)
End(r) ==
  /\ drawing[r]
  /\ drawing' \in {drawing, [drawing EXCEPT ![r] = FALSE]}
  /\ torn' \in {torn, [torn EXCEPT ![r] = FALSE]}
  /\ UNCHANGED <<content, shown, told, gone, phase>>

Clear(r) ==
  /\ phase = "ending"
  /\ content' = [content EXCEPT ![r] = 0]
  /\ UNCHANGED <<drawing, torn, shown, told, gone, phase>>

Send(r, frames) ==
  /\ ~gone
  /\ \E f \in frames : shown' = [shown EXCEPT ![r] = f]
  /\ UNCHANGED <<content, drawing, torn, told, gone, phase>>

(* Content in the order in which it was drawn, with frames left out.       *)
Advance(r) == phase = "running" /\ ~torn[r] /\ Send(r, shown[r] + 1 .. content[r])

(* Whatever was drawn, after a draw that was disturbed.                    *)
Jumble(r) == phase = "running" /\ torn[r] /\ Send(r, 0 .. content[r])

(* Once the driver is terminating, rows are cleared while older content is *)
(* still on its way.                                                       *)
Flush(r) == phase = "ending" /\ Send(r, 0 .. MaxFrames)

(* NVDA is asked to release the display, which may be given up with that.  *)
Report ==
  /\ phase = "running" /\ told = 0
  /\ told' = 1 /\ gone' \in BOOLEAN
  /\ UNCHANGED <<content, drawing, torn, shown, phase>>

GiveUp ==
  /\ told = 1 \/ phase # "running"
  /\ gone' = TRUE
  /\ UNCHANGED <<content, drawing, torn, shown, told, phase>>

Terminate ==
  /\ phase = "running" /\ phase' = "ending"
  /\ UNCHANGED <<content, drawing, torn, shown, told, gone>>

Close ==
  /\ phase = "ending" /\ phase' = "over"
  /\ UNCHANGED <<content, drawing, torn, shown, told, gone>>

Next ==
  \/ \E r \in Rows :
       Show(r) \/ Tear(r) \/ End(r) \/ Clear(r) \/ Advance(r) \/ Jumble(r) \/ Flush(r)
  \/ Report \/ GiveUp \/ Terminate \/ Close

Spec == Init /\ [][Next]_vars

(* What a row holds is delivered, unless its draw was disturbed, the       *)
(* display is given up or the driver terminates.                           *)
FairSpec == Spec /\ \A r \in Rows : WF_vars(Advance(r))
=============================================================================
