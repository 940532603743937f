----------------------- MODULE PacketSenderRefinement -----------------------
(* PacketSender implements DisplayService, for every set of rows and       *)
(* threads and every bound: each step of a thread, of the display or of    *)
(* the link is, seen from outside, a step DisplayService allows or no step *)
(* at all.                                                                 *)
EXTENDS PacketSenderSafety

-----------------------------------------------------------------------------
(* What DisplayService sees of the drawing threads. *)

Drawing == [r \in Rows |-> \E d \in Drawers : InRow(d, r)]

LEMMA DrawingSame ==
  ASSUME \A d \in Drawers : SameDraw(d)
  PROVE  Drawing' = Drawing
<1>1. \A r \in Rows : \A d \in Drawers : InRow(d, r)' <=> InRow(d, r)
  BY DEF InRow, SameDraw
<1> QED
  BY <1>1 DEF Drawing

(* Marking one row more as raced, or not. *)
LEMMA RacedMore ==
  ASSUME NEW f \in [Rows -> BOOLEAN], NEW g \in [Rows -> BOOLEAN], NEW q \in Rows,
         f[q] => g[q], \A r \in Rows : r # q => g[r] = f[r]
  PROVE  g \in {f, [f EXCEPT ![q] = TRUE]}
<1>1. CASE g[q] = f[q]
  BY <1>1
<1>2. CASE g[q] # f[q]
  BY <1>2
<1> QED
  BY <1>1, <1>2

LEMMA RacedLess ==
  ASSUME NEW f \in [Rows -> BOOLEAN], NEW g \in [Rows -> BOOLEAN], NEW q \in Rows,
         g[q] => f[q], \A r \in Rows : r # q => g[r] = f[r]
  PROVE  g \in {f, [f EXCEPT ![q] = FALSE]}
<1>1. CASE g[q] = f[q]
  BY <1>1
<1>2. CASE g[q] # f[q]
  BY <1>2
<1> QED
  BY <1>1, <1>2

-----------------------------------------------------------------------------
(* The simulation. *)

LEMMA ServiceInit == Init => Service!Init
<1> SUFFICES ASSUME Init PROVE Service!Init
  OBVIOUS
<1>1. Drawing = [r \in Rows |-> FALSE]
  BY DEF Init, Drawing, InRow, Resting
<1> QED
  BY <1>1 DEF Init, Service!Init, Blank, terminationStarted, Drawing

LEMMA ServiceNext ==
  Typed /\ ReportInv /\ FrameInv /\ ContentInv /\ [Next]_vars =>
     [Service!Next]_(Service!vars)
<1> SUFFICES ASSUME Typed, ReportInv, FrameInv, ContentInv, [Next]_vars
             PROVE  [Service!Next]_(Service!vars)
  OBVIOUS
<1>1. /\ draw \in [Drawers -> Stage] /\ draw' \in [Drawers -> Stage]
      /\ raced \in [Rows -> BOOLEAN] /\ raced' \in [Rows -> BOOLEAN]
      /\ cells \in [Rows -> Nat] /\ handed \in [Rows -> Int]
      /\ reports \in Nat /\ displayGone \in BOOLEAN
  BY TypedNext DEF Typed, MainTypes, RowTypes, FlagTypes
<1>s. ASSUME UNCHANGED <<cells, handed, reports, displayGone, main, raced>>,
             \A d \in Drawers : SameDraw(d)
      PROVE  [Service!Next]_(Service!vars)
  BY <1>s, DrawingSame DEF Service!vars, Drawing, terminationStarted
<1>t. ASSUME UNCHANGED <<cells, handed, reports, displayGone, raced, draw>>,
             terminationStarted <=> terminationStarted', main = "closed" <=> main' = "closed"
      PROVE  [Service!Next]_(Service!vars)
  <2>1. Drawing' = Drawing
    BY <1>t, DrawingSame DEF SameDraw
  <2> QED
    BY <1>t, <2>1 DEF Service!vars, Drawing
<1> USE DEF Service!Next, queueVars, rowVars, raceVars, mainVars, senderVars,
   gateVars, deviceVars, senderSide
<1>2. ASSUME NEW e \in Drawers, NEW q \in Rows, Draw(e, q) PROVE [Service!Next]_(Service!vars)
  <2>1. /\ draw'[e].at = "drawn" /\ draw'[e].row = q
        /\ raced'[q] <=> raced[q] \/ ~draw'[e].alone
        /\ \A r \in Rows : r # q => raced'[r] = raced[r]
        /\ draw[e].at = "rest" /\ \A d \in Drawers : d # e => SameDraw(d)
    BY <1>2, DrawEffect
  <2>2. Drawing' = [Drawing EXCEPT ![q] = TRUE]
    <3>1. \A r \in Rows : (\E d \in Drawers : InRow(d, r)') <=> (\E d \in Drawers : InRow(d, r)) \/ r = q
      BY <2>1 DEF InRow, SameDraw
    <3> QED
      BY <3>1 DEF Drawing
  <2>3. raced' \in {raced, [raced EXCEPT ![q] = TRUE]}
    BY <1>1, <2>1, RacedMore
  <2>4. /\ cells[q] < MaxFrames /\ cells' = [cells EXCEPT ![q] = @ + 1] /\ main # "closed"
        /\ UNCHANGED <<handed, reports, displayGone, main>>
    BY <1>2 DEF Draw
  <2>5. Service!Show(q)
    BY <2>2, <2>3, <2>4 DEF terminationStarted, Service!Show, Drawing
  <2> QED
    BY <2>5
<1>3. ASSUME NEW e \in Drawers, CopyRow(e) PROVE [Service!Next]_(Service!vars)
  <2>1. UNCHANGED <<cells, handed, reports, displayGone, main, raced>> /\ draw[e].at = "drawn"
    BY <1>3 DEF CopyRow
  <2>2. /\ draw'[e].at \in {"put", "stamp"} /\ draw'[e].row = draw[e].row
        /\ \A d \in Drawers : d # e => draw'[d] = draw[d]
    BY <1>3, <1>1 DEF CopyRow, Stage
  <2>3. Drawing' = Drawing
    <3>1. \A r \in Rows : \A d \in Drawers : InRow(d, r)' <=> InRow(d, r)
      BY <2>1, <2>2 DEF InRow
    <3> QED
      BY <3>1 DEF Drawing
  <2> QED
    BY <2>1, <2>3 DEF Service!vars, Drawing, terminationStarted
<1>4. ASSUME NEW e \in Drawers, PutFrame(e) PROVE [Service!Next]_(Service!vars)
  <2>1. UNCHANGED <<cells, handed, reports, displayGone, main, raced>> /\ draw[e].at = "put"
    BY <1>4 DEF PutFrame
  <2>2. /\ draw'[e].at = "stamp" /\ draw'[e].row = draw[e].row
        /\ \A d \in Drawers : d # e => draw'[d] = draw[d]
    BY <1>4, <1>1 DEF PutFrame, Stage
  <2>3. Drawing' = Drawing
    <3>1. \A r \in Rows : \A d \in Drawers : InRow(d, r)' <=> InRow(d, r)
      BY <2>1, <2>2 DEF InRow
    <3> QED
      BY <3>1 DEF Drawing
  <2> QED
    BY <2>1, <2>3 DEF Service!vars, Drawing, terminationStarted
<1>5. ASSUME NEW e \in Drawers, StampRow(e) PROVE [Service!Next]_(Service!vars)
  <2> DEFINE q == draw[e].row
  <2>1. /\ draw[e].at = "stamp" /\ draw' = [draw EXCEPT ![e] = Resting]
        /\ raced' = [raced EXCEPT ![q] = @ /\ ~(draw[e].alone /\ ~Outdated(e))]
        /\ UNCHANGED <<cells, handed, reports, displayGone, main>>
    BY <1>5 DEF StampRow
  <2>2. q \in Rows
    BY DrawTypes
  <2>3. draw'[e].at = "rest" /\ \A d \in Drawers : d # e => draw'[d] = draw[d]
    BY <1>1, <2>1 DEF Resting
  <2>4. Drawing[q] /\ Drawing' \in {Drawing, [Drawing EXCEPT ![q] = FALSE]}
    <3>1. \A r \in Rows : r # q => \A d \in Drawers : InRow(d, r)' <=> InRow(d, r)
      BY <2>1, <2>3 DEF InRow
    <3>2. InRow(e, q)
      BY <2>1 DEF InRow
    <3>3. Drawing \in [Rows -> BOOLEAN] /\ Drawing' \in [Rows -> BOOLEAN] /\ Drawing[q]
      BY <2>2, <3>2 DEF Drawing
    <3>4. \A r \in Rows : r # q => Drawing'[r] = Drawing[r]
      BY <3>1 DEF Drawing
    <3> QED
      BY <2>2, <3>3, <3>4, RacedLess
  <2>5. raced' \in {raced, [raced EXCEPT ![q] = FALSE]}
    <3>1. (raced'[q] => raced[q]) /\ \A r \in Rows : r # q => raced'[r] = raced[r]
      BY <1>1, <2>1, <2>2
    <3> QED
      BY <1>1, <2>2, <3>1, RacedLess
  <2>6. Service!End(q)
    BY <2>1, <2>4, <2>5 DEF terminationStarted, Service!End, Drawing
  <2> QED
    BY <2>2, <2>6
<1>6. CASE StartRefresh
  BY <1>6, <1>t DEF terminationStarted, StartRefresh
<1>7. ASSUME NEW q \in Rows, ReadRow(q) PROVE [Service!Next]_(Service!vars)
  <2>1. /\ raced'[q] <=> raced[q] \/ \E d \in Drawers : InRow(d, q)
        /\ \A r \in Rows : r # q => raced'[r] = raced[r]
        /\ \A d \in Drawers : SameDraw(d)
    BY <1>7, ReadEffect DEF ReadRow
  <2>2. /\ UNCHANGED <<cells, handed, reports, displayGone>>
        /\ terminationStarted <=> terminationStarted'
        /\ main = "closed" <=> main' = "closed"
    BY <1>7 DEF ReadRow, terminationStarted
  <2>3. Drawing' = Drawing
    BY <2>1, DrawingSame
  <2>4. CASE raced' = raced
    BY <2>2, <2>3, <2>4 DEF Service!vars, Drawing
  <2>5. CASE raced' # raced
    <3>1. raced' \in {raced, [raced EXCEPT ![q] = TRUE]}
      BY <1>1, <2>1, RacedMore
    <3>2. raced'[q] # raced[q]
      BY <1>1, <2>1, <2>5
    <3>3. Drawing[q]
      BY <1>1, <2>1, <3>2 DEF Drawing
    <3>4. Service!Tear(q)
      BY <2>2, <2>3, <2>5, <3>1, <3>3 DEF terminationStarted, Service!Tear, Drawing
    <3> QED
      BY <3>4
  <2> QED
    BY <2>4, <2>5
<1>8. ASSUME NEW q \in Rows, PutRefresh(q) PROVE [Service!Next]_(Service!vars)
  BY <1>8, <1>t DEF terminationStarted, PutRefresh, Put, NewPacket
<1>9. CASE StartTermination
  <2>1. Drawing' = Drawing
    BY <1>9, DrawingSame DEF StartTermination, SameDraw
  <2>2. Service!Terminate
    BY <1>9, <2>1 DEF StartTermination, Service!Terminate, Drawing, terminationStarted
  <2> QED
    BY <2>2
<1>10. CASE BlockNewWrites
  BY <1>10, <1>t DEF terminationStarted, BlockNewWrites
<1>11. ASSUME NEW p \in queue, DrainOne(p) PROVE [Service!Next]_(Service!vars)
  BY <1>11, <1>t DEF terminationStarted, DrainOne
<1>12. CASE DrainedOne
  BY <1>12, <1>t DEF terminationStarted, DrainedOne
<1>13. CASE DrainEnds
  BY <1>13, <1>t DEF terminationStarted, DrainEnds
<1>14. ASSUME NEW q \in Rows, ClearRow(q) PROVE [Service!Next]_(Service!vars)
  <2>1. /\ main = "clear" /\ main' \in {"flush", "clear"} /\ cells' = [cells EXCEPT ![q] = 0]
        /\ UNCHANGED <<handed, reports, displayGone, raced, draw>>
    BY <1>14 DEF ClearRow, Blank
  <2>2. Drawing' = Drawing
    BY <2>1, DrawingSame DEF SameDraw
  <2>3. Service!Clear(q)
    BY <2>1, <2>2 DEF Service!Clear, Drawing, terminationStarted
  <2> QED
    BY <2>3
<1>15. CASE FlushEnds
  BY <1>15, <1>t DEF terminationStarted, FlushEnds
<1>16. CASE JoinEnds
  <2>1. Drawing' = Drawing
    BY <1>16, DrawingSame DEF JoinEnds, SameDraw
  <2>2. Service!Close
    BY <1>16, <2>1 DEF JoinEnds, Service!Close, Drawing, terminationStarted
  <2> QED
    BY <2>2
<1>17. ASSUME NEW p \in queue, Take(p) PROVE [Service!Next]_(Service!vars)
  BY <1>17, <1>t DEF terminationStarted, Take
<1>18. CASE DropPacket
  BY <1>18, <1>t DEF terminationStarted, DropPacket, Superseded, Finish, TaskDone, Loop
<1>19. CASE ExaminePacket
  <2>1. /\ \A r \in Rows : raced'[r] <=> raced[r] \/ (Passes /\ r = hand.row)
        /\ \A d \in Drawers : SameDraw(d)
    BY <1>19, PassEffect DEF ExaminePacket, Typed, HandTypes
  <2>2. UNCHANGED <<cells, handed, reports, displayGone, main>> /\ hand.row \in Rows
    BY <1>19, DrawTypes DEF ExaminePacket, Typed, HandTypes
  <2>3. CASE raced' = raced
    BY <1>s, <2>1, <2>2, <2>3
  <2>4. CASE raced' # raced
    <3>1. raced' \in {raced, [raced EXCEPT ![hand.row] = TRUE]}
      BY <1>1, <2>1, <2>2, RacedMore
    <3>2. Passes
      BY <1>1, <2>1, <2>4
    <3>3. Drawing[hand.row]
      BY <2>2, <3>2 DEF Drawing, InRow, Passes
    <3>4. Service!Tear(hand.row)
      BY <2>1, <2>2, <2>4, <3>1, <3>3, DrawingSame DEF terminationStarted, Service!Tear, Drawing
    <3> QED
      BY <2>2, <3>4
  <2> QED
    BY <2>3, <2>4
<1>20. CASE SlotOpens
  BY <1>20, <1>t DEF terminationStarted, SlotOpens
<1>21. CASE WaitExpires
  BY <1>21, <1>t DEF terminationStarted, WaitExpires
<1>22. CASE GiveUpLeaving
  BY <1>22, <1>t DEF terminationStarted, GiveUpLeaving
<1>23. CASE NoticeDisconnect
  <2>1. UNCHANGED <<cells, handed, displayGone, main, raced, draw>> /\ Report
        /\ (~terminationStarted => reports = 0)
    BY <1>23, <1>1 DEF NoticeDisconnect, ReportInv
  <2>2. CASE terminationStarted
    BY <1>t, <2>1, <2>2 DEF Report, terminationStarted
  <2>3. CASE ~terminationStarted
    <3>1. Service!Report
      BY <1>1, <2>1, <2>3, DrawingSame DEF terminationStarted, Report, Service!Report, Drawing, SameDraw
    <3> QED
      BY <3>1
  <2> QED
    BY <2>2, <2>3
<1>24. CASE KeepWaiting
  BY <1>24, <1>t DEF terminationStarted, KeepWaiting, WaitAgain
<1>25. CASE RenderTimeout
  <2>1. /\ UNCHANGED <<cells, handed, displayGone, main, raced, draw>>
        /\ Report \/ reports' = reports
        /\ (~terminationStarted => reports = 0)
    BY <1>25, <1>1 DEF RenderTimeout, ReportInv
  <2>2. CASE terminationStarted \/ reports' = reports
    BY <1>t, <2>1, <2>2 DEF Report, terminationStarted
  <2>3. CASE ~terminationStarted /\ Report
    <3>1. Service!Report
      BY <1>1, <2>1, <2>3, DrawingSame DEF terminationStarted, Report, Service!Report, Drawing, SameDraw
    <3> QED
      BY <3>1
  <2> QED
    BY <2>1, <2>2, <2>3
<1>26. CASE ResendLine
  BY <1>26, <1>t DEF terminationStarted, ResendLine, WaitAgain, Transmit
<1>27. CASE ResendFails
  <2>1. UNCHANGED <<cells, handed, displayGone, main, raced, draw>> /\ Report
        /\ (~terminationStarted => reports = 0)
    BY <1>27, <1>1 DEF ResendFails, ReportInv
  <2>2. CASE terminationStarted
    BY <1>t, <2>1, <2>2 DEF Report, terminationStarted
  <2>3. CASE ~terminationStarted
    <3>1. Service!Report
      BY <1>1, <2>1, <2>3, DrawingSame DEF terminationStarted, Report, Service!Report, Drawing, SameDraw
    <3> QED
      BY <3>1
  <2> QED
    BY <2>2, <2>3
<1>28. CASE AbandonLine
  BY <1>28, <1>t DEF terminationStarted, AbandonLine, WaitAgain
<1>29. CASE GiveUpSlot
  <2>1. UNCHANGED <<cells, handed, reports, main, raced, draw>>
    BY <1>29 DEF GiveUpSlot
  <2>2. CASE displayGone' = displayGone
    BY <1>t, <2>1, <2>2 DEF terminationStarted
  <2>3. CASE displayGone' # displayGone
    <3>a. displayGone' = (displayGone \/ ~terminationStarted) /\ pc = "failed"
      BY <1>29 DEF GiveUpSlot, Latch
    <3>b. displayGone' = TRUE /\ ~terminationStarted
      BY <1>1, <2>3, <3>a
    <3>c. reports \in Nat /\ reports > 0 /\ reports <= 1
      BY <1>1, <3>a, <3>b DEF ReportInv
    <3>1. displayGone' = TRUE /\ reports = 1
      BY <3>b, <3>c
    <3>2. Service!GiveUp
      BY <2>1, <3>1, DrawingSame DEF terminationStarted, Service!GiveUp, Drawing, SameDraw
    <3> QED
      BY <3>2
  <2> QED
    BY <2>2, <2>3
<1>30. CASE SendBytes
  <2> DEFINE r == hand.row
             f == hand.frame
  <2>1. /\ pc = "write" /\ Writable /\ hand # NoPacket /\ handed' = [handed EXCEPT ![r] = f]
        /\ UNCHANGED <<cells, reports, displayGone, main, raced, draw>>
    BY <1>30 DEF SendBytes, Typed, HandTypes
  <2>2. /\ r \in Rows /\ f \in Nat /\ handed[r] \in Int /\ cells[r] \in Nat
        /\ ~displayGone /\ main # "closed"
        /\ f <= MaxFrames /\ (~terminationStarted => f <= cells[r])
    BY <2>1, DrawTypes DEF Writable, ReportInv, FrameInv, Older
  <2>3. Drawing' = Drawing
    BY <2>1, DrawingSame DEF SameDraw
  <2>4. CASE terminationStarted
    <3>1. f \in 0 .. MaxFrames
      BY <2>2, BoundAssumption
    <3>2. Service!Flush(r)
      BY <2>1, <2>2, <2>3, <2>4, <3>1 DEF terminationStarted, Service!Flush, Service!Send, Drawing
    <3> QED
      BY <2>2, <3>2
  <2>5. CASE ~terminationStarted /\ raced[r]
    <3>1. f \in 0 .. cells[r]
      BY <2>2, <2>5
    <3>2. Service!Jumble(r)
      BY <2>1, <2>2, <2>3, <2>5, <3>1 DEF terminationStarted, Service!Jumble, Service!Send, Drawing
    <3> QED
      BY <2>2, <3>2
  <2>6. CASE ~terminationStarted /\ ~raced[r]
    <3>1. handed[r] <= f
      BY <2>1, <2>2, <2>6 DEF ContentInv, Running, Settled, InFlight
    <3>2. CASE handed[r] = f
      <4>1. handed' = handed
        BY <1>1, <2>1, <2>2, <3>2
      <4> QED
        BY <1>t, <2>1, <4>1 DEF terminationStarted
    <3>3. CASE handed[r] # f
      <4>1. f \in handed[r] + 1 .. cells[r]
        BY <2>2, <2>6, <3>1, <3>3
      <4>2. Service!Advance(r)
        BY <2>1, <2>2, <2>3, <2>6, <4>1 DEF terminationStarted, Service!Advance, Service!Send, Drawing
      <4> QED
        BY <2>2, <4>2
    <3> QED
      BY <3>2, <3>3
  <2> QED
    BY <2>4, <2>5, <2>6
<1>31. CASE WriteReturns
  BY <1>31, <1>t DEF terminationStarted, WriteReturns, Finish, TaskDone, Loop
<1>32. CASE WriteFails
  <2>1. /\ UNCHANGED <<cells, handed, main, raced, draw>> /\ displayGone' = TRUE /\ Report
        /\ (~terminationStarted => reports = 0)
    BY <1>32, <1>1 DEF WriteFails, ReportInv
  <2>2. Drawing' = Drawing
    BY <2>1, DrawingSame DEF SameDraw
  <2>3. CASE terminationStarted
    <3>1. Service!GiveUp
      BY <2>1, <2>2, <2>3 DEF terminationStarted, Report, Service!GiveUp, Drawing
    <3> QED
      BY <3>1
  <2>4. CASE ~terminationStarted
    <3>1. Service!Report
      BY <2>1, <2>2, <2>4 DEF terminationStarted, Report, Service!Report, Drawing
    <3> QED
      BY <3>1
  <2> QED
    BY <2>3, <2>4
<1>33. CASE StartIdleCheck
  BY <1>33, <1>t DEF terminationStarted, StartIdleCheck
<1>34. ASSUME NEW q \in Rows, ReadIdleRow(q) PROVE [Service!Next]_(Service!vars)
  <2>1. /\ raced'[q] <=> raced[q] \/ \E d \in Drawers : InRow(d, q)
        /\ \A r \in Rows : r # q => raced'[r] = raced[r]
        /\ \A d \in Drawers : SameDraw(d)
    BY <1>34, ReadEffect DEF ReadIdleRow
  <2>2. /\ UNCHANGED <<cells, handed, reports, displayGone>>
        /\ terminationStarted <=> terminationStarted'
        /\ main = "closed" <=> main' = "closed"
    BY <1>34 DEF ReadIdleRow, terminationStarted
  <2>3. Drawing' = Drawing
    BY <2>1, DrawingSame
  <2>4. CASE raced' = raced
    BY <2>2, <2>3, <2>4 DEF Service!vars, Drawing
  <2>5. CASE raced' # raced
    <3>1. raced' \in {raced, [raced EXCEPT ![q] = TRUE]}
      BY <1>1, <2>1, RacedMore
    <3>2. raced'[q] # raced[q]
      BY <1>1, <2>1, <2>5
    <3>3. Drawing[q]
      BY <1>1, <2>1, <3>2 DEF Drawing
    <3>4. Service!Tear(q)
      BY <2>2, <2>3, <2>5, <3>1, <3>3 DEF terminationStarted, Service!Tear, Drawing
    <3> QED
      BY <3>4
  <2> QED
    BY <2>4, <2>5
<1>35. CASE PutIdleRefresh
  BY <1>35, <1>t DEF terminationStarted, PutIdleRefresh
<1>36. CASE EndIdleCheck
  BY <1>36, <1>t DEF terminationStarted, EndIdleCheck, Loop
<1>37. CASE Exit
  BY <1>37, <1>t DEF terminationStarted, Exit
<1>38. CASE RenderLine
  BY <1>38, <1>t DEF terminationStarted, RenderLine
<1>39. CASE AcknowledgeLine
  BY <1>39, <1>t DEF terminationStarted, AcknowledgeLine
<1>40. CASE RejectLine
  BY <1>40, <1>t DEF terminationStarted, RejectLine
<1>41. CASE SendUnsolicited
  BY <1>41, <1>t DEF terminationStarted, SendUnsolicited
<1>42. CASE LoseLine
  BY <1>42, <1>t DEF terminationStarted, LoseLine
<1>43. ASSUME NEW s \in {"up", "silent", "down"}, ChangeLink(s) PROVE [Service!Next]_(Service!vars)
  BY <1>43, <1>t DEF terminationStarted, ChangeLink
<1>44. CASE UNCHANGED vars
  BY <1>44, <1>t DEF terminationStarted, vars
<1> HIDE DEF Service!Next, queueVars, rowVars, raceVars, mainVars, senderVars,
   gateVars, deviceVars, senderSide
<1> QED
  BY <1>2, <1>3, <1>4, <1>5, <1>6, <1>7, <1>8, <1>9, <1>10, <1>11, <1>12, <1>13, <1>14,
     <1>15, <1>16, <1>17, <1>18, <1>19, <1>20, <1>21, <1>22, <1>23, <1>24, <1>25,
     <1>26, <1>27, <1>28, <1>29, <1>30, <1>31, <1>32, <1>33, <1>34, <1>35, <1>36,
     <1>37, <1>38, <1>39, <1>40, <1>41, <1>42, <1>43, <1>44
     DEF Next, DrawerStep, DrawStep, MainStep, SenderStep, DeviceStep

(* Content reaches the display in the order it was drawn, but for draws    *)
(* that were not left alone, and none after the display was given up or    *)
(* closed; NVDA is told once, and the display is not given up before.      *)
THEOREM Refinement == Spec => ServiceKept
<1> QED
  BY TypedInit, TypedNext, CountingInit, CountingNext, ReportInit, ReportNext, RankInit, RankNext,
     LoneInit, LoneNext, KeptInit, KeptNext, FrameInit, FrameNext, ContentInit, ContentNext,
     ServiceInit, ServiceNext, PTL DEF Spec, ServiceKept, Service!Spec
=============================================================================
