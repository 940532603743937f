------------------------- MODULE PacketSenderSafety -------------------------
(* The safety properties of PacketSender, for every set of rows and every  *)
(* bound: the gate, what NVDA is told, and the content of the rows.        *)
EXTENDS PacketSenderProofs

-----------------------------------------------------------------------------
(* The gate.  Between the shutting of the gate and the return of the write *)
(* the line is not yet the one to resend, and the sender does not wait.    *)
GateInv ==
  /\ pc \notin {"write", "written"} => ready \/ lastSent
  /\ pc \in {"expired", "resend"} => lastSent
  /\ ~faults => link = "up"
  /\ ~faults => ready \/ unanswered > 0 \/ pc = "write"

LEMMA GateNext == Typed /\ GateInv /\ [Next]_vars => GateInv'
<1> SUFFICES ASSUME Typed, GateInv, [Next]_vars PROVE GateInv'
  OBVIOUS
<1> USE DEF GateInv, queueVars, rowVars, mainVars, senderVars, gateVars, deviceVars,
   senderSide
<1>1. ASSUME NEW d \in Drawers, NEW r \in Rows, Draw(d, r) PROVE GateInv'
  BY <1>1 DEF Draw
<1>2. ASSUME NEW d \in Drawers, CopyRow(d) PROVE GateInv'
  BY <1>2 DEF CopyRow
<1>3. ASSUME NEW d \in Drawers, PutFrame(d) PROVE GateInv'
  BY <1>3 DEF PutFrame, Put, NewPacket
<1>4. ASSUME NEW d \in Drawers, StampRow(d) PROVE GateInv'
  BY <1>4 DEF StampRow
<1>5. CASE StartRefresh
  BY <1>5 DEF StartRefresh
<1>6. ASSUME NEW r \in Rows, ReadRow(r) PROVE GateInv'
  BY <1>6 DEF ReadRow
<1>7. ASSUME NEW r \in Rows, PutRefresh(r) PROVE GateInv'
  BY <1>7 DEF PutRefresh, Put, NewPacket
<1>8. CASE StartTermination
  BY <1>8 DEF StartTermination
<1>9. CASE BlockNewWrites
  BY <1>9 DEF BlockNewWrites
<1>10. ASSUME NEW p \in queue, DrainOne(p) PROVE GateInv'
  BY <1>10 DEF DrainOne
<1>11. ASSUME DrainedOne PROVE GateInv'
  BY <1>11 DEF DrainedOne
<1>12. CASE DrainEnds
  BY <1>12 DEF DrainEnds
<1>13. ASSUME NEW r \in Rows, ClearRow(r) PROVE GateInv'
  BY <1>13 DEF ClearRow, Put, NewPacket
<1>14. CASE FlushEnds
  BY <1>14 DEF FlushEnds
<1>15. CASE JoinEnds
  BY <1>15 DEF JoinEnds
<1>16. ASSUME NEW p \in queue, Take(p) PROVE GateInv'
  BY <1>16 DEF Take
<1>17. CASE DropPacket
  BY <1>17 DEF DropPacket, Finish, TaskDone, Loop
<1>18. CASE ExaminePacket
  BY <1>18 DEF ExaminePacket
<1>19. CASE SlotOpens
  BY <1>19 DEF SlotOpens
<1>20. CASE WaitExpires
  BY <1>20 DEF WaitExpires
<1>21. CASE GiveUpLeaving
  BY <1>21 DEF GiveUpLeaving
<1>22. CASE NoticeDisconnect
  BY <1>22 DEF NoticeDisconnect, Report
<1>23. CASE KeepWaiting
  BY <1>23 DEF KeepWaiting, WaitAgain
<1>24. CASE RenderTimeout
  BY <1>24 DEF RenderTimeout, Report
<1>25. CASE ResendLine
  BY <1>25 DEF ResendLine, WaitAgain, Transmit, Typed, FlagTypes
<1>26. CASE ResendFails
  BY <1>26 DEF ResendFails, Report
<1>27. CASE AbandonLine
  BY <1>27 DEF AbandonLine, WaitAgain
<1>28. CASE GiveUpSlot
  BY <1>28 DEF GiveUpSlot, Latch, Finish, TaskDone, Loop
<1>29. CASE SendBytes
  BY <1>29 DEF SendBytes, Transmit, Typed, FlagTypes
<1>30. CASE WriteReturns
  BY <1>30 DEF WriteReturns, Finish, TaskDone, Loop
<1>31. CASE WriteFails
  BY <1>31 DEF WriteFails, Report, Finish, TaskDone, Loop
<1>32. CASE StartIdleCheck
  BY <1>32 DEF StartIdleCheck
<1>33. ASSUME NEW r \in Rows, ReadIdleRow(r) PROVE GateInv'
  BY <1>33 DEF ReadIdleRow
<1>34. CASE PutIdleRefresh
  BY <1>34 DEF PutIdleRefresh
<1>35. CASE EndIdleCheck
  BY <1>35 DEF EndIdleCheck, Loop
<1>36. CASE Exit
  BY <1>36 DEF Exit
<1>37. CASE RenderLine
  BY <1>37 DEF RenderLine, Typed, FlagTypes
<1>38. CASE AcknowledgeLine
  BY <1>38 DEF AcknowledgeLine
<1>39. CASE RejectLine
  BY <1>39 DEF RejectLine
<1>40. CASE SendUnsolicited
  BY <1>40 DEF SendUnsolicited
<1>41. CASE LoseLine
  BY <1>41 DEF LoseLine
<1>42. ASSUME NEW s \in {"up", "silent", "down"}, ChangeLink(s) PROVE GateInv'
  BY <1>42 DEF ChangeLink
<1>43. CASE UNCHANGED vars
  BY <1>43 DEF vars
<1> HIDE DEF GateInv, queueVars, rowVars, mainVars, senderVars, gateVars, deviceVars,
     senderSide
<1> QED
  BY <1>1, <1>2, <1>3, <1>4, <1>5, <1>6, <1>7, <1>8, <1>9, <1>10, <1>11, <1>12, <1>13, <1>14,
     <1>15, <1>16, <1>17, <1>18, <1>19, <1>20, <1>21, <1>22, <1>23, <1>24, <1>25,
     <1>26, <1>27, <1>28, <1>29, <1>30, <1>31, <1>32, <1>33, <1>34, <1>35, <1>36,
     <1>37, <1>38, <1>39, <1>40, <1>41, <1>42, <1>43
     DEF Next, DrawerStep, DrawStep, MainStep, SenderStep, DeviceStep, Typed, RowTypes

LEMMA GateInit == Init => GateInv
  BY DEF Init, GateInv

(* A sender that waits at a shut gate has a line to resend, so its retries *)
(* run out and somebody opens the gate or gives the display up.            *)
THEOREM ShutGate == Spec => []ShutGateHasLine
<1>1. GateInv => ShutGateHasLine
  BY DEF GateInv, ShutGateHasLine
<1> QED
  BY <1>1, TypedInit, TypedNext, GateInit, GateNext, PTL DEF Spec

(* As long as nothing is lost, a shut gate has an answer to come or a      *)
(* write about to be made: a notification during the write is not lost.    *)
THEOREM WakeupNotLost == Spec => []NoLostWakeup
<1>1. GateInv => NoLostWakeup
  BY DEF GateInv, NoLostWakeup
<1> QED
  BY <1>1, TypedInit, TypedNext, GateInit, GateNext, PTL DEF Spec

-----------------------------------------------------------------------------
(* What NVDA is told.  The sender reports and then fails, and it does not  *)
(* start on another packet once it gave the display up; only terminate()   *)
(* makes it fail without a report.                                         *)
ReportInv ==
  /\ pc = "failed" => reports > 0 \/ terminationStarted
  /\ leaving => terminationStarted
  /\ displayGone => reports > 0 \/ terminationStarted
  /\ pc \in {"wait", "expired", "resend", "write", "written"} => ~displayGone
  /\ reports <= 1
  /\ reports > 0 => displayGone \/ pc = "failed" \/ terminationStarted

LEMMA ReportNext == Typed /\ ReportInv /\ [Next]_vars => ReportInv'
<1> SUFFICES ASSUME Typed, ReportInv, [Next]_vars PROVE ReportInv'
  OBVIOUS
<1> USE DEF ReportInv, Typed, FlagTypes, terminationStarted, isTerminating, queueVars,
   rowVars, mainVars, senderVars, gateVars, deviceVars, senderSide
<1>1. ASSUME NEW d \in Drawers, NEW r \in Rows, Draw(d, r) PROVE ReportInv'
  BY <1>1 DEF Draw
<1>2. ASSUME NEW d \in Drawers, CopyRow(d) PROVE ReportInv'
  BY <1>2 DEF CopyRow
<1>3. ASSUME NEW d \in Drawers, PutFrame(d) PROVE ReportInv'
  BY <1>3 DEF PutFrame, Put, NewPacket
<1>4. ASSUME NEW d \in Drawers, StampRow(d) PROVE ReportInv'
  BY <1>4 DEF StampRow
<1>5. CASE StartRefresh
  BY <1>5 DEF StartRefresh
<1>6. ASSUME NEW r \in Rows, ReadRow(r) PROVE ReportInv'
  BY <1>6 DEF ReadRow
<1>7. ASSUME NEW r \in Rows, PutRefresh(r) PROVE ReportInv'
  BY <1>7 DEF PutRefresh, Put, NewPacket
<1>8. CASE StartTermination
  BY <1>8 DEF StartTermination
<1>9. CASE BlockNewWrites
  BY <1>9 DEF BlockNewWrites
<1>10. ASSUME NEW p \in queue, DrainOne(p) PROVE ReportInv'
  BY <1>10 DEF DrainOne
<1>11. ASSUME DrainedOne PROVE ReportInv'
  BY <1>11 DEF DrainedOne
<1>12. CASE DrainEnds
  BY <1>12 DEF DrainEnds
<1>13. ASSUME NEW r \in Rows, ClearRow(r) PROVE ReportInv'
  BY <1>13 DEF ClearRow, Put, NewPacket
<1>14. CASE FlushEnds
  BY <1>14 DEF FlushEnds
<1>15. CASE JoinEnds
  BY <1>15 DEF JoinEnds
<1>16. ASSUME NEW p \in queue, Take(p) PROVE ReportInv'
  BY <1>16 DEF Take
<1>17. CASE DropPacket
  BY <1>17 DEF DropPacket, Finish, TaskDone, Loop
<1>18. CASE ExaminePacket
  BY <1>18 DEF ExaminePacket
<1>19. CASE SlotOpens
  BY <1>19 DEF SlotOpens
<1>20. CASE WaitExpires
  BY <1>20 DEF WaitExpires
<1>21. CASE GiveUpLeaving
  BY <1>21 DEF GiveUpLeaving
<1>22. CASE NoticeDisconnect
  BY <1>22 DEF NoticeDisconnect, Report
<1>23. CASE KeepWaiting
  BY <1>23 DEF KeepWaiting, WaitAgain
<1>24. CASE RenderTimeout
  BY <1>24 DEF RenderTimeout, Report
<1>25. CASE ResendLine
  BY <1>25 DEF ResendLine, WaitAgain, Transmit
<1>26. CASE ResendFails
  BY <1>26 DEF ResendFails, Report
<1>27. CASE AbandonLine
  BY <1>27 DEF AbandonLine, WaitAgain
<1>28. CASE GiveUpSlot
  BY <1>28 DEF GiveUpSlot, Latch, Finish, TaskDone, Loop
<1>29. CASE SendBytes
  BY <1>29 DEF SendBytes, Transmit
<1>30. CASE WriteReturns
  BY <1>30 DEF WriteReturns, Finish, TaskDone, Loop
<1>31. CASE WriteFails
  BY <1>31 DEF WriteFails, Report, Finish, TaskDone, Loop
<1>32. CASE StartIdleCheck
  BY <1>32 DEF StartIdleCheck
<1>33. ASSUME NEW r \in Rows, ReadIdleRow(r) PROVE ReportInv'
  BY <1>33 DEF ReadIdleRow
<1>34. CASE PutIdleRefresh
  BY <1>34 DEF PutIdleRefresh
<1>35. CASE EndIdleCheck
  BY <1>35 DEF EndIdleCheck, Loop
<1>36. CASE Exit
  BY <1>36 DEF Exit
<1>37. CASE RenderLine
  BY <1>37 DEF RenderLine
<1>38. CASE AcknowledgeLine
  BY <1>38 DEF AcknowledgeLine
<1>39. CASE RejectLine
  BY <1>39 DEF RejectLine
<1>40. CASE SendUnsolicited
  BY <1>40 DEF SendUnsolicited
<1>41. CASE LoseLine
  BY <1>41 DEF LoseLine
<1>42. ASSUME NEW s \in {"up", "silent", "down"}, ChangeLink(s) PROVE ReportInv'
  BY <1>42 DEF ChangeLink
<1>43. CASE UNCHANGED vars
  BY <1>43 DEF vars
<1>44. \A r \in Rows : cells[r] \in Nat /\ cells[r] + 1 \in Nat
  BY DEF Typed, RowTypes
<1> HIDE DEF ReportInv, Typed, FlagTypes, terminationStarted, isTerminating, queueVars,
     rowVars, mainVars, senderVars, gateVars, deviceVars, senderSide
<1> QED
  BY <1>44, <1>1, <1>2, <1>3, <1>4, <1>5, <1>6, <1>7, <1>8, <1>9, <1>10, <1>11, <1>12, <1>13, <1>14,
     <1>15, <1>16, <1>17, <1>18, <1>19, <1>20, <1>21, <1>22, <1>23, <1>24, <1>25,
     <1>26, <1>27, <1>28, <1>29, <1>30, <1>31, <1>32, <1>33, <1>34, <1>35, <1>36,
     <1>37, <1>38, <1>39, <1>40, <1>41, <1>42, <1>43
     DEF Next, DrawerStep, DrawStep, MainStep, SenderStep, DeviceStep, RowTypes

LEMMA ReportInit == Init => ReportInv
  BY DEF Init, ReportInv, terminationStarted

(* The driver never stops writing without NVDA being asked to release the  *)
(* display, or already releasing it.                                       *)
THEOREM Reported == Spec => []GoneIsReported
<1>1. ReportInv => GoneIsReported
  BY DEF ReportInv, GoneIsReported
<1> QED
  BY <1>1, TypedInit, TypedNext, ReportInit, ReportNext, PTL DEF Spec

(* NVDA is asked at most once. *)
THEOREM NotReportedTwice == Spec => []ReportedOnce
<1>1. ReportInv => ReportedOnce
  BY DEF ReportInv, ReportedOnce
<1> QED
  BY <1>1, TypedInit, TypedNext, ReportInit, ReportNext, PTL DEF Spec
-----------------------------------------------------------------------------
(* The content of the rows. *)

(* Ranks: packets are told apart by theirs, and no thread has one that no  *)
(* packet was given yet.                                                   *)
RankInv ==
  /\ hand # NoPacket => hand.n <= serial
  /\ \A d \in Drawers : draw[d].n <= serial
  /\ \A r \in Rows : lastWritten[r] <= serial

LEMMA DrawTypes ==
  ASSUME Typed
  PROVE  /\ \A d \in Drawers : /\ draw[d].row \in Rows /\ draw[d].n \in Nat
                               /\ draw[d].frame \in Nat /\ draw[d].alone \in BOOLEAN
                               /\ draw[d].at \in {"rest", "drawn", "put", "stamp"}
         /\ \A r \in Rows : /\ cells[r] \in Nat /\ lastWritten[r] \in Nat
                            /\ raced[r] \in BOOLEAN /\ handed[r] \in Int
         /\ hand # NoPacket => /\ hand.n \in Nat /\ hand.row \in Rows /\ hand.frame \in Nat
                               /\ hand.kind \in {"frame", "refresh", "idle"}
         /\ \A p \in queue : /\ p.n \in Nat /\ p.row \in Rows /\ p.frame \in Nat
                             /\ p.kind \in {"frame", "refresh", "idle"}
  BY DEF Typed, MainTypes, RowTypes, HandTypes, QueueTypes, Stage, Packet

(* What a draw that begins, a refresh that reads a row and an older packet *)
(* that passes do to the drawing threads.                                  *)
SameDraw(d) ==
  /\ draw'[d].at = draw[d].at /\ draw'[d].row = draw[d].row
  /\ draw'[d].n = draw[d].n /\ draw'[d].frame = draw[d].frame

LEMMA DrawEffect ==
  ASSUME Typed, NEW e \in Drawers, NEW q \in Rows, Draw(e, q)
  PROVE  /\ draw[e].at = "rest"
         /\ draw'[e].at = "drawn" /\ draw'[e].row = q /\ draw'[e].n = 0
         /\ draw'[e].alone <=> ~Refreshing(q) /\ \A d \in Drawers : ~InRow(d, q)
         /\ raced'[q] <=> raced[q] \/ ~draw'[e].alone
         /\ \A r \in Rows : r # q => raced'[r] = raced[r]
         /\ \A d \in Drawers : d # e =>
              SameDraw(d) /\ (draw'[d].alone <=> draw[d].alone /\ ~InRow(d, q))
<1>1. draw \in [Drawers -> Stage] /\ raced \in [Rows -> BOOLEAN]
  BY DEF Typed, MainTypes
<1> DEFINE alone == ~Refreshing(q) /\ \A d \in Drawers : ~InRow(d, q)
<1>2. draw[e] = Resting
  BY DEF Draw
<1>3. /\ draw' = [Disturbed(q) EXCEPT
                   ![e] = [at |-> "drawn", row |-> q, frame |-> Blank, n |-> 0, alone |-> alone]]
      /\ raced' = [raced EXCEPT ![q] = @ \/ ~alone]
  BY DEF Draw
<1> HIDE DEF alone
<1>4. draw'[e] = [at |-> "drawn", row |-> q, frame |-> Blank, n |-> 0, alone |-> alone]
  BY <1>1, <1>3, DisturbedType
<1>5. ASSUME NEW d \in Drawers, d # e
      PROVE  SameDraw(d) /\ (draw'[d].alone <=> draw[d].alone /\ ~InRow(d, q))
  <2>1. draw'[d] = Disturbed(q)[d]
    BY <1>1, <1>3, <1>5, DisturbedType
  <2>2. SameDraw(d)
    BY <1>1, <2>1, DisturbedType DEF SameDraw
  <2>3. draw'[d].alone <=> draw[d].alone /\ ~InRow(d, q)
    BY <1>1, <2>1, DisturbedType
  <2> QED
    BY <2>2, <2>3
<1>6. raced'[q] <=> raced[q] \/ ~alone
  BY <1>1, <1>3
<1>7. \A r \in Rows : r # q => raced'[r] = raced[r]
  BY <1>1, <1>3
<1>8. /\ draw[e].at = "rest"
      /\ draw'[e].at = "drawn" /\ draw'[e].row = q /\ draw'[e].n = 0
      /\ draw'[e].alone = alone
  BY <1>2, <1>4 DEF Resting
<1>9. draw'[e].alone <=> ~Refreshing(q) /\ \A d \in Drawers : ~InRow(d, q)
  BY <1>8 DEF alone
<1>10. raced'[q] <=> raced[q] \/ ~draw'[e].alone
  BY <1>6, <1>8
<1> QED
  BY <1>5, <1>7, <1>8, <1>9, <1>10

LEMMA ReadEffect ==
  ASSUME Typed, NEW q \in Rows, ReadRace(q)
  PROVE  /\ raced'[q] <=> raced[q] \/ \E d \in Drawers : InRow(d, q)
         /\ \A r \in Rows : r # q => raced'[r] = raced[r]
         /\ \A d \in Drawers :
              SameDraw(d) /\ (draw'[d].alone <=> draw[d].alone /\ ~InRow(d, q))
<1>1. draw \in [Drawers -> Stage] /\ raced \in [Rows -> BOOLEAN]
  BY DEF Typed, MainTypes
<1>2. ASSUME NEW d \in Drawers
      PROVE  SameDraw(d) /\ (draw'[d].alone <=> draw[d].alone /\ ~InRow(d, q))
  <2>1. draw'[d] = Disturbed(q)[d]
    BY DEF ReadRace
  <2>2. SameDraw(d)
    BY <1>1, <2>1, DisturbedType DEF SameDraw
  <2>3. draw'[d].alone <=> draw[d].alone /\ ~InRow(d, q)
    BY <1>1, <2>1, DisturbedType
  <2> QED
    BY <2>2, <2>3
<1> QED
  BY <1>1, <1>2 DEF ReadRace

(* An older packet passes while a newer one is put and not stamped.        *)
Passes == \E d \in Drawers : draw[d].at = "stamp" /\ draw[d].row = hand.row /\ draw[d].n > hand.n

LEMMA PassEffect ==
  ASSUME Typed, hand # NoPacket, PassRace(hand)
  PROVE  /\ \A r \in Rows : raced'[r] <=> raced[r] \/ (Passes /\ r = hand.row)
         /\ \A d \in Drawers :
              /\ SameDraw(d)
              /\ draw'[d].alone <=> draw[d].alone /\ ~(Passes /\ InRow(d, hand.row))
<1>1. /\ draw \in [Drawers -> Stage] /\ raced \in [Rows -> BOOLEAN]
      /\ hand.row \in Rows
  BY DEF Typed, MainTypes, HandTypes, Packet
<1>2. CASE Passes
  <2>1. draw' = Disturbed(hand.row) /\ raced' = [raced EXCEPT ![hand.row] = TRUE]
    BY <1>2 DEF PassRace, Passes
  <2>2. \A d \in Drawers : /\ SameDraw(d)
                           /\ draw'[d].alone <=> draw[d].alone /\ ~InRow(d, hand.row)
    BY <1>1, <2>1, DisturbedType DEF SameDraw
  <2>3. \A r \in Rows : raced'[r] <=> raced[r] \/ r = hand.row
    BY <1>1, <2>1
  <2>4. ASSUME NEW r \in Rows PROVE raced'[r] <=> raced[r] \/ (Passes /\ r = hand.row)
    BY <1>2, <2>3
  <2>5. ASSUME NEW d \in Drawers
        PROVE  /\ SameDraw(d)
               /\ draw'[d].alone <=> draw[d].alone /\ ~(Passes /\ InRow(d, hand.row))
    BY <1>2, <2>2
  <2> QED
    BY <2>4, <2>5
<1>3. CASE ~Passes
  BY <1>1, <1>3 DEF PassRace, Passes, SameDraw, raceVars
<1> QED
  BY <1>2, <1>3

LEMMA RankNext ==
  Typed /\ Counting /\ RankInv /\ [Next]_vars => RankInv'
<1> SUFFICES ASSUME Typed, Counting, RankInv, [Next]_vars PROVE RankInv'
  OBVIOUS
<1>1. /\ Typed' /\ serial \in Nat /\ draw \in [Drawers -> Stage] /\ lastWritten \in [Rows -> Nat]
      /\ (\A p \in queue : p.n <= serial) /\ (pc = "popped" => hand # NoPacket)
  BY TypedNext DEF Typed, QueueTypes, MainTypes, RowTypes, HandTypes, Counting
<1> USE DEF RankInv, queueVars, rowVars, raceVars, mainVars, senderVars, gateVars,
   deviceVars, senderSide
<1>2. ASSUME NEW e \in Drawers, NEW q \in Rows, Draw(e, q) PROVE RankInv'
  <2>1. /\ draw'[e].at = "drawn" /\ draw'[e].row = q /\ draw'[e].n = 0
        /\ \A d \in Drawers : d # e => SameDraw(d)
    BY <1>2, DrawEffect
  <2> QED
    BY <1>2, <2>1, <1>1, DrawTypes DEF Draw, SameDraw
<1>3. ASSUME NEW e \in Drawers, CopyRow(e) PROVE RankInv'
  BY <1>3, <1>1, DrawTypes DEF CopyRow
<1>4. ASSUME NEW e \in Drawers, PutFrame(e) PROVE RankInv'
  BY <1>4, <1>1, DrawTypes DEF PutFrame, Put, NewPacket
<1>5. ASSUME NEW e \in Drawers, StampRow(e) PROVE RankInv'
  BY <1>5, <1>1, DrawTypes DEF StampRow, Resting
<1>6. CASE StartRefresh
  BY <1>6, <1>1, DrawTypes DEF StartRefresh
<1>7. ASSUME NEW q \in Rows, ReadRow(q) PROVE RankInv'
  <2>1. \A d \in Drawers : SameDraw(d)
    BY <1>7, ReadEffect DEF ReadRow
  <2> QED
    BY <1>7, <2>1, <1>1 DEF ReadRow, SameDraw
<1>8. ASSUME NEW q \in Rows, PutRefresh(q) PROVE RankInv'
  BY <1>8, <1>1, DrawTypes DEF PutRefresh, Put, NewPacket
<1>9. CASE StartTermination
  BY <1>9, <1>1, DrawTypes DEF StartTermination
<1>10. CASE BlockNewWrites
  BY <1>10, <1>1, DrawTypes DEF BlockNewWrites
<1>11. ASSUME NEW p \in queue, DrainOne(p) PROVE RankInv'
  BY <1>11, <1>1, DrawTypes DEF DrainOne
<1>12. CASE DrainedOne
  BY <1>12, <1>1, DrawTypes DEF DrainedOne
<1>13. CASE DrainEnds
  BY <1>13, <1>1, DrawTypes DEF DrainEnds
<1>14. ASSUME NEW q \in Rows, ClearRow(q) PROVE RankInv'
  BY <1>14, <1>1, DrawTypes DEF ClearRow, Put, NewPacket
<1>15. CASE FlushEnds
  BY <1>15, <1>1, DrawTypes DEF FlushEnds
<1>16. CASE JoinEnds
  BY <1>16, <1>1, DrawTypes DEF JoinEnds
<1>17. ASSUME NEW p \in queue, Take(p) PROVE RankInv'
  BY <1>17, <1>1, DrawTypes DEF Take
<1>18. CASE DropPacket
  BY <1>18, <1>1, DrawTypes DEF DropPacket, Superseded, Finish, TaskDone, Loop
<1>19. CASE ExaminePacket
  <2>1. \A d \in Drawers : SameDraw(d)
    BY <1>19, <1>1, PassEffect DEF ExaminePacket
  <2> QED
    BY <1>19, <2>1, <1>1 DEF ExaminePacket, SameDraw
<1>20. CASE SlotOpens
  BY <1>20, <1>1, DrawTypes DEF SlotOpens
<1>21. CASE WaitExpires
  BY <1>21, <1>1, DrawTypes DEF WaitExpires
<1>22. CASE GiveUpLeaving
  BY <1>22, <1>1, DrawTypes DEF GiveUpLeaving
<1>23. CASE NoticeDisconnect
  BY <1>23, <1>1, DrawTypes DEF NoticeDisconnect, Report
<1>24. CASE KeepWaiting
  BY <1>24, <1>1, DrawTypes DEF KeepWaiting, WaitAgain
<1>25. CASE RenderTimeout
  BY <1>25, <1>1, DrawTypes DEF RenderTimeout, Report
<1>26. CASE ResendLine
  BY <1>26, <1>1, DrawTypes DEF ResendLine, WaitAgain, Transmit
<1>27. CASE ResendFails
  BY <1>27, <1>1, DrawTypes DEF ResendFails, Report
<1>28. CASE AbandonLine
  BY <1>28, <1>1, DrawTypes DEF AbandonLine, WaitAgain
<1>29. CASE GiveUpSlot
  BY <1>29, <1>1, DrawTypes DEF GiveUpSlot, Latch, Finish, TaskDone, Loop
<1>30. CASE SendBytes
  BY <1>30, <1>1, DrawTypes DEF SendBytes, Transmit
<1>31. CASE WriteReturns
  BY <1>31, <1>1, DrawTypes DEF WriteReturns, Finish, TaskDone, Loop
<1>32. CASE WriteFails
  BY <1>32, <1>1, DrawTypes DEF WriteFails, Report, Finish, TaskDone, Loop
<1>33. CASE StartIdleCheck
  BY <1>33, <1>1, DrawTypes DEF StartIdleCheck
<1>34. ASSUME NEW q \in Rows, ReadIdleRow(q) PROVE RankInv'
  <2>1. \A d \in Drawers : SameDraw(d)
    BY <1>34, ReadEffect DEF ReadIdleRow
  <2> QED
    BY <1>34, <2>1, <1>1 DEF ReadIdleRow, SameDraw
<1>35. CASE PutIdleRefresh
  BY <1>35, <1>1, DrawTypes DEF PutIdleRefresh
<1>36. CASE EndIdleCheck
  BY <1>36, <1>1, DrawTypes DEF EndIdleCheck, Loop
<1>37. CASE Exit
  BY <1>37, <1>1, DrawTypes DEF Exit
<1>38. CASE RenderLine
  BY <1>38, <1>1, DrawTypes DEF RenderLine
<1>39. CASE AcknowledgeLine
  BY <1>39, <1>1, DrawTypes DEF AcknowledgeLine
<1>40. CASE RejectLine
  BY <1>40, <1>1, DrawTypes DEF RejectLine
<1>41. CASE SendUnsolicited
  BY <1>41, <1>1, DrawTypes DEF SendUnsolicited
<1>42. CASE LoseLine
  BY <1>42, <1>1, DrawTypes DEF LoseLine
<1>43. ASSUME NEW s \in {"up", "silent", "down"}, ChangeLink(s) PROVE RankInv'
  BY <1>43, <1>1, DrawTypes DEF ChangeLink
<1>44. CASE UNCHANGED vars
  BY <1>44, <1>1, DrawTypes DEF vars
<1> HIDE DEF RankInv, queueVars, rowVars, raceVars, mainVars, senderVars, gateVars,
   deviceVars, senderSide
<1> QED
  BY <1>2, <1>3, <1>4, <1>5, <1>6, <1>7, <1>8, <1>9, <1>10, <1>11, <1>12, <1>13, <1>14,
     <1>15, <1>16, <1>17, <1>18, <1>19, <1>20, <1>21, <1>22, <1>23, <1>24, <1>25,
     <1>26, <1>27, <1>28, <1>29, <1>30, <1>31, <1>32, <1>33, <1>34, <1>35, <1>36,
     <1>37, <1>38, <1>39, <1>40, <1>41, <1>42, <1>43, <1>44
     DEF Next, DrawerStep, DrawStep, MainStep, SenderStep, DeviceStep

(* A draw left alone is the only one in its row, and no refresh is under   *)
(* way there; in a row whose last draw was left alone, so is every other.  *)
LoneInv ==
  \A d \in Drawers : draw[d].at # "rest" =>
    /\ ~raced[draw[d].row] => draw[d].alone
    /\ draw[d].alone => /\ ~Refreshing(draw[d].row)
                        /\ \A e \in Drawers : InRow(e, draw[d].row) => e = d

LEMMA LoneNext ==
  Typed /\ LoneInv /\ [Next]_vars => LoneInv'
<1> SUFFICES ASSUME Typed, LoneInv, [Next]_vars PROVE LoneInv'
  OBVIOUS
<1> USE DEF LoneInv, Refreshing, InRow, queueVars, rowVars, raceVars, mainVars,
   senderVars, gateVars, deviceVars, senderSide
<1>1. ASSUME NEW e \in Drawers, NEW q \in Rows, Draw(e, q) PROVE LoneInv'
  <2>1. /\ draw'[e].at = "drawn" /\ draw'[e].row = q
        /\ draw'[e].alone <=> ~Refreshing(q) /\ \A d \in Drawers : ~InRow(d, q)
        /\ raced'[q] <=> raced[q] \/ ~draw'[e].alone
        /\ \A r \in Rows : r # q => raced'[r] = raced[r]
        /\ \A d \in Drawers : d # e =>
             SameDraw(d) /\ (draw'[d].alone <=> draw[d].alone /\ ~InRow(d, q))
    BY <1>1, DrawEffect
  <2>2. UNCHANGED <<main, left, pc, hand>>
    BY <1>1 DEF Draw
  <2> QED
    BY <2>1, <2>2, DrawTypes DEF SameDraw
<1>2. ASSUME NEW e \in Drawers, CopyRow(e) PROVE LoneInv'
  BY <1>2, DrawTypes DEF CopyRow
<1>3. ASSUME NEW e \in Drawers, PutFrame(e) PROVE LoneInv'
  BY <1>3, DrawTypes DEF PutFrame, Put, NewPacket
<1>4. ASSUME NEW e \in Drawers, StampRow(e) PROVE LoneInv'
  BY <1>4, DrawTypes DEF StampRow, Resting
<1>5. CASE StartRefresh
  BY <1>5, DrawTypes DEF StartRefresh
<1>6. ASSUME NEW q \in Rows, ReadRow(q) PROVE LoneInv'
  <2>1. /\ raced'[q] <=> raced[q] \/ \E d \in Drawers : InRow(d, q)
        /\ \A r \in Rows : r # q => raced'[r] = raced[r]
        /\ \A d \in Drawers :
             SameDraw(d) /\ (draw'[d].alone <=> draw[d].alone /\ ~InRow(d, q))
    BY <1>6, ReadEffect DEF ReadRow
  <2>2. \A r \in Rows : Refreshing(r)' => Refreshing(r) \/ r = q
    BY <1>6, RowsAssumption DEF ReadRow
  <2> QED
    BY <2>1, <2>2, DrawTypes DEF SameDraw
<1>7. ASSUME NEW q \in Rows, PutRefresh(q) PROVE LoneInv'
  BY <1>7, DrawTypes DEF PutRefresh, Put, NewPacket
<1>8. CASE StartTermination
  BY <1>8, DrawTypes DEF StartTermination
<1>9. CASE BlockNewWrites
  BY <1>9, DrawTypes DEF BlockNewWrites
<1>10. ASSUME NEW p \in queue, DrainOne(p) PROVE LoneInv'
  BY <1>10, DrawTypes DEF DrainOne
<1>11. CASE DrainedOne
  BY <1>11, DrawTypes DEF DrainedOne
<1>12. CASE DrainEnds
  BY <1>12, DrawTypes DEF DrainEnds
<1>13. ASSUME NEW q \in Rows, ClearRow(q) PROVE LoneInv'
  BY <1>13, DrawTypes DEF ClearRow, Put, NewPacket
<1>14. CASE FlushEnds
  BY <1>14, DrawTypes DEF FlushEnds
<1>15. CASE JoinEnds
  BY <1>15, DrawTypes DEF JoinEnds
<1>16. ASSUME NEW p \in queue, Take(p) PROVE LoneInv'
  BY <1>16, DrawTypes DEF Take
<1>17. CASE DropPacket
  BY <1>17, DrawTypes DEF DropPacket, Superseded, Finish, TaskDone, Loop
<1>18. CASE ExaminePacket
  <2>1. /\ \A r \in Rows : raced'[r] <=> raced[r] \/ (Passes /\ r = hand.row)
        /\ \A d \in Drawers :
             /\ SameDraw(d)
             /\ draw'[d].alone <=> draw[d].alone /\ ~(Passes /\ InRow(d, hand.row))
    BY <1>18, PassEffect DEF ExaminePacket, Typed, HandTypes
  <2>2. \A r \in Rows : Refreshing(r)' => Refreshing(r)
    BY <1>18 DEF ExaminePacket
  <2> QED
    BY <2>1, <2>2, DrawTypes DEF SameDraw
<1>19. CASE SlotOpens
  BY <1>19, DrawTypes DEF SlotOpens
<1>20. CASE WaitExpires
  BY <1>20, DrawTypes DEF WaitExpires
<1>21. CASE GiveUpLeaving
  BY <1>21, DrawTypes DEF GiveUpLeaving
<1>22. CASE NoticeDisconnect
  BY <1>22, DrawTypes DEF NoticeDisconnect, Report
<1>23. CASE KeepWaiting
  BY <1>23, DrawTypes DEF KeepWaiting, WaitAgain
<1>24. CASE RenderTimeout
  BY <1>24, DrawTypes DEF RenderTimeout, Report
<1>25. CASE ResendLine
  BY <1>25, DrawTypes DEF ResendLine, WaitAgain, Transmit
<1>26. CASE ResendFails
  BY <1>26, DrawTypes DEF ResendFails, Report
<1>27. CASE AbandonLine
  BY <1>27, DrawTypes DEF AbandonLine, WaitAgain
<1>28. CASE GiveUpSlot
  BY <1>28, DrawTypes DEF GiveUpSlot, Latch, Finish, TaskDone, Loop
<1>29. CASE SendBytes
  BY <1>29, DrawTypes DEF SendBytes, Transmit
<1>30. CASE WriteReturns
  BY <1>30, DrawTypes DEF WriteReturns, Finish, TaskDone, Loop
<1>31. CASE WriteFails
  BY <1>31, DrawTypes DEF WriteFails, Report, Finish, TaskDone, Loop
<1>32. CASE StartIdleCheck
  BY <1>32, DrawTypes DEF StartIdleCheck
<1>33. ASSUME NEW q \in Rows, ReadIdleRow(q) PROVE LoneInv'
  <2>1. /\ raced'[q] <=> raced[q] \/ \E d \in Drawers : InRow(d, q)
        /\ \A r \in Rows : r # q => raced'[r] = raced[r]
        /\ \A d \in Drawers :
             SameDraw(d) /\ (draw'[d].alone <=> draw[d].alone /\ ~InRow(d, q))
    BY <1>33, ReadEffect DEF ReadIdleRow
  <2>2. \A r \in Rows : Refreshing(r)' => Refreshing(r) \/ r = q
    BY <1>33 DEF ReadIdleRow
  <2> QED
    BY <2>1, <2>2, DrawTypes DEF SameDraw
<1>34. CASE PutIdleRefresh
  BY <1>34, DrawTypes DEF PutIdleRefresh
<1>35. CASE EndIdleCheck
  BY <1>35, DrawTypes DEF EndIdleCheck, Loop
<1>36. CASE Exit
  BY <1>36, DrawTypes DEF Exit
<1>37. CASE RenderLine
  BY <1>37, DrawTypes DEF RenderLine
<1>38. CASE AcknowledgeLine
  BY <1>38, DrawTypes DEF AcknowledgeLine
<1>39. CASE RejectLine
  BY <1>39, DrawTypes DEF RejectLine
<1>40. CASE SendUnsolicited
  BY <1>40, DrawTypes DEF SendUnsolicited
<1>41. CASE LoseLine
  BY <1>41, DrawTypes DEF LoseLine
<1>42. ASSUME NEW s \in {"up", "silent", "down"}, ChangeLink(s) PROVE LoneInv'
  BY <1>42, DrawTypes DEF ChangeLink
<1>43. CASE UNCHANGED vars
  BY <1>43, DrawTypes DEF vars
<1> HIDE DEF LoneInv, Refreshing, InRow, queueVars, rowVars, raceVars, mainVars,
   senderVars, gateVars, deviceVars, senderSide
<1> QED
  BY <1>1, <1>2, <1>3, <1>4, <1>5, <1>6, <1>7, <1>8, <1>9, <1>10, <1>11, <1>12, <1>13,
     <1>14, <1>15, <1>16, <1>17, <1>18, <1>19, <1>20, <1>21, <1>22, <1>23, <1>24,
     <1>25, <1>26, <1>27, <1>28, <1>29, <1>30, <1>31, <1>32, <1>33, <1>34, <1>35,
     <1>36, <1>37, <1>38, <1>39, <1>40, <1>41, <1>42, <1>43
     DEF Next, DrawerStep, DrawStep, MainStep, SenderStep, DeviceStep

(* What a draw left alone has put is what its row holds, and reaches the   *)
(* display, for the sender does not drop it: the packet is queued, or in   *)
(* the sender's hand, or was handed over and nothing older follows.        *)
Running == ~terminationStarted /\ ~displayGone

Unsent == {"popped", "wait", "expired", "resend", "failed", "write"}

Own(p, d) == p.row = draw[d].row /\ p.n = draw[d].n /\ p.kind = "frame"

Delivered(d) ==
  \/ \E p \in queue : Own(p, d)
  \/ pc \in Unsent /\ Own(hand, d)
  \/ handed[draw[d].row] = cells[draw[d].row] /\ ~Outdated(d)

Kept(d) ==
  /\ draw[d].at = "put" => draw[d].frame = cells[draw[d].row]
  /\ draw[d].at = "stamp" =>
       /\ lastWritten[draw[d].row] < draw[d].n
       /\ \A p \in queue :
            p.row = draw[d].row /\ p.n >= draw[d].n => p.frame = cells[draw[d].row]
       /\ hand # NoPacket /\ hand.row = draw[d].row /\ hand.n >= draw[d].n =>
            hand.frame = cells[draw[d].row]
       /\ Delivered(d)

KeptInv == Running => \A d \in Drawers : draw[d].at # "rest" /\ draw[d].alone => Kept(d)

LEMMA KeptNext ==
  Typed /\ Counting /\ RankInv /\ LoneInv /\ KeptInv /\ [Next]_vars => KeptInv'
<1> SUFFICES ASSUME Typed, Counting, RankInv, LoneInv, KeptInv, [Next]_vars, Running',
                    NEW d \in Drawers, draw'[d].at # "rest", draw'[d].alone
             PROVE  Kept(d)'
  BY DEF KeptInv
<1>1. /\ serial \in Nat /\ draw \in [Drawers -> Stage] /\ lastWritten \in [Rows -> Nat]
      /\ cells \in [Rows -> Nat] /\ handed \in [Rows -> Int] /\ raced \in [Rows -> BOOLEAN]
      /\ (\A p \in queue : p.n <= serial) /\ displayGone \in BOOLEAN
      /\ pc \in {"popped", "wait", "expired", "resend", "failed", "write", "written", "idlePut"}
           <=> hand # NoPacket
  BY DEF Typed, QueueTypes, MainTypes, RowTypes, HandTypes, FlagTypes, Counting
<1> USE DEF KeptInv, Kept, Delivered, Own, Unsent, Outdated, Running,
   terminationStarted, queueVars, rowVars, raceVars, mainVars, senderVars, gateVars,
   deviceVars, senderSide
<1>2. ASSUME NEW e \in Drawers, NEW q \in Rows, Draw(e, q) PROVE Kept(d)'
  <2>1. /\ draw'[e].at = "drawn"
        /\ d # e => SameDraw(d) /\ draw[d].alone /\ ~InRow(d, q)
    BY <1>2, DrawEffect
  <2>2. CASE d # e
    <3>1. cells'[draw[d].row] = cells[draw[d].row]
      BY <1>2, <1>1, <2>1, <2>2, DrawTypes DEF Draw, InRow, SameDraw
    <3>2. UNCHANGED <<queue, hand, pc, lastWritten, handed, main, displayGone>>
      BY <1>2 DEF Draw
    <3> QED
      BY <2>1, <2>2, <3>1, <3>2 DEF SameDraw
  <2> QED
    BY <2>1, <2>2
<1>3. ASSUME NEW e \in Drawers, CopyRow(e) PROVE Kept(d)'
  <2>1. UNCHANGED <<queue, hand, pc, cells, lastWritten, handed, main, displayGone>>
    BY <1>3 DEF CopyRow
  <2>2. CASE d # e
    <3>1. draw'[d] = draw[d]
      BY <1>3, <1>1, <2>2 DEF CopyRow
    <3> QED
      BY <2>1, <3>1
  <2>3. CASE d = e
    <3>1. draw'[d] = [draw[d] EXCEPT !.at = "put", !.frame = cells[draw[d].row]]
      BY <1>3, <1>1, <2>1, <2>3 DEF CopyRow, blockNewWrites
    <3>2. draw'[d].at = "put" /\ draw'[d].frame = cells[draw[d].row] /\ draw'[d].row = draw[d].row
      BY <1>1, <3>1 DEF Stage
    <3> QED
      BY <2>1, <3>2
  <2> QED
    BY <2>2, <2>3
<1>4. ASSUME NEW e \in Drawers, PutFrame(e) PROVE Kept(d)'
  <2>1. PICK p : p = NewPacket(draw[e].row, draw[e].frame, "frame")
    OBVIOUS
  <2>2. /\ p.n = serial + 1 /\ p.row = draw[e].row /\ p.frame = draw[e].frame
        /\ p.kind = "frame"
    BY <2>1 DEF NewPacket
  <2>3. /\ queue' = queue \cup {p} /\ draw[e].at = "put"
        /\ draw' = [draw EXCEPT ![e] = [@ EXCEPT !.at = "stamp", !.n = p.n, !.frame = Blank]]
        /\ UNCHANGED <<hand, pc, cells, lastWritten, handed, main, displayGone>>
    BY <1>4, <2>1 DEF PutFrame, Put
  <2>4. CASE d # e
    <3>1. draw'[d] = draw[d]
      BY <1>1, <2>3, <2>4
    <3>2. draw[e].row # draw[d].row
      BY <2>3, <2>4, <3>1 DEF LoneInv, InRow
    <3> QED
      BY <2>2, <2>3, <3>1, <3>2
  <2>5. CASE d = e
    <3>1. draw'[d].at = "stamp" /\ draw'[d].n = p.n /\ draw'[d].row = draw[d].row
          /\ draw[d].alone
      BY <1>1, <2>3, <2>5 DEF Stage
    <3>2. draw[d].frame = cells[draw[d].row]
      BY <2>3, <2>5, <3>1
    <3>3. \A x \in queue' : x.row = draw[d].row /\ x.n >= p.n => x.frame = cells[draw[d].row]
      BY <1>1, <2>2, <2>3, <2>5, <3>2, DrawTypes
    <3>4. lastWritten[draw[d].row] < p.n /\ (hand # NoPacket => ~(hand.n >= p.n))
      BY <1>1, <2>2, DrawTypes DEF RankInv
    <3>5. p \in queue' /\ Own(p, d)'
      BY <2>2, <2>3, <2>5, <3>1
    <3> QED
      BY <2>3, <3>1, <3>3, <3>4, <3>5
  <2> QED
    BY <2>4, <2>5
<1>5. ASSUME NEW e \in Drawers, StampRow(e) PROVE Kept(d)'
  <2>1. /\ draw[e].at = "stamp" /\ draw' = [draw EXCEPT ![e] = Resting]
        /\ lastWritten' = [lastWritten EXCEPT ![draw[e].row] = draw[e].n]
        /\ UNCHANGED <<queue, hand, pc, cells, handed, main, displayGone>>
    BY <1>5 DEF StampRow
  <2>2. d # e
    BY <1>1, <2>1 DEF Resting
  <2>3. draw'[d] = draw[d]
    BY <1>1, <2>1, <2>2
  <2>4. draw[e].row # draw[d].row
    BY <2>1, <2>2, <2>3 DEF LoneInv, InRow
  <2>5. lastWritten'[draw[d].row] = lastWritten[draw[d].row]
    BY <1>1, <2>1, <2>4
  <2> QED
    BY <2>1, <2>3, <2>5
<1>6. CASE StartRefresh
  BY <1>6, <1>1, DrawTypes DEF StartRefresh
<1>7. ASSUME NEW q \in Rows, ReadRow(q) PROVE Kept(d)'
  <2>1. SameDraw(d) /\ draw[d].alone
    BY <1>7, ReadEffect DEF ReadRow
  <2>2. /\ UNCHANGED <<queue, hand, pc, cells, lastWritten, handed, displayGone>>
        /\ ~terminationStarted
    BY <1>7 DEF ReadRow
  <2> QED
    BY <2>1, <2>2 DEF SameDraw
<1>8. ASSUME NEW q \in Rows, PutRefresh(q) PROVE Kept(d)'
  <2> DEFINE p == NewPacket(q, seen, "refresh")
  <2>1. /\ p.row = q /\ queue' = queue \cup {p} /\ Refreshing(q) /\ ~terminationStarted
        /\ UNCHANGED <<hand, pc, cells, lastWritten, handed, draw, displayGone>>
    BY <1>8 DEF PutRefresh, Put, NewPacket, Refreshing
  <2> HIDE DEF p
  <2>2. draw[d].row # q
    BY <2>1 DEF LoneInv
  <2> QED
    BY <2>1, <2>2
<1>9. CASE StartTermination
  BY <1>9, <1>1, DrawTypes DEF StartTermination
<1>10. CASE BlockNewWrites
  BY <1>10, <1>1, DrawTypes DEF BlockNewWrites
<1>11. ASSUME NEW p \in queue, DrainOne(p) PROVE Kept(d)'
  BY <1>11, <1>1, DrawTypes DEF DrainOne
<1>12. CASE DrainedOne
  BY <1>12, <1>1, DrawTypes DEF DrainedOne
<1>13. CASE DrainEnds
  BY <1>13, <1>1, DrawTypes DEF DrainEnds
<1>14. ASSUME NEW q \in Rows, ClearRow(q) PROVE Kept(d)'
  BY <1>14, <1>1, DrawTypes DEF ClearRow, Put, NewPacket
<1>15. CASE FlushEnds
  BY <1>15, <1>1, DrawTypes DEF FlushEnds
<1>16. CASE JoinEnds
  BY <1>16, <1>1, DrawTypes DEF JoinEnds
<1>17. ASSUME NEW p \in queue, Take(p) PROVE Kept(d)'
  BY <1>17, <1>1, DrawTypes DEF Take
<1>18. CASE DropPacket
  BY <1>18, <1>1, DrawTypes DEF DropPacket, Superseded, Finish, TaskDone, Loop
<1>19. CASE ExaminePacket
  <2>1. /\ SameDraw(d) /\ draw[d].alone /\ ~(Passes /\ InRow(d, hand.row))
    BY <1>19, <1>1, PassEffect DEF ExaminePacket
  <2>2. /\ UNCHANGED <<queue, hand, cells, lastWritten, handed, main, displayGone>>
        /\ pc = "popped" /\ pc' \in {"failed", "wait"}
    BY <1>19 DEF ExaminePacket
  <2>3. Kept(d)
    BY <2>1, <2>2 DEF SameDraw
  <2>4. draw[d].at = "stamp" => ~(hand.row = draw[d].row /\ hand.n < draw[d].n)
    BY <1>1, <2>1, <2>2, DrawTypes DEF Passes, InRow
  <2>5. draw[d].at = "stamp" => Delivered(d)'
    BY <2>1, <2>2, <2>3, <2>4 DEF SameDraw
  <2> QED
    BY <2>1, <2>2, <2>3, <2>5 DEF SameDraw
<1>20. CASE SlotOpens
  BY <1>20, <1>1, DrawTypes DEF SlotOpens
<1>21. CASE WaitExpires
  BY <1>21, <1>1, DrawTypes DEF WaitExpires
<1>22. CASE GiveUpLeaving
  BY <1>22, <1>1, DrawTypes DEF GiveUpLeaving
<1>23. CASE NoticeDisconnect
  BY <1>23, <1>1, DrawTypes DEF NoticeDisconnect, Report
<1>24. CASE KeepWaiting
  BY <1>24, <1>1, DrawTypes DEF KeepWaiting, WaitAgain
<1>25. CASE RenderTimeout
  BY <1>25, <1>1, DrawTypes DEF RenderTimeout, Report
<1>26. CASE ResendLine
  BY <1>26, <1>1, DrawTypes DEF ResendLine, WaitAgain, Transmit
<1>27. CASE ResendFails
  BY <1>27, <1>1, DrawTypes DEF ResendFails, Report
<1>28. CASE AbandonLine
  BY <1>28, <1>1, DrawTypes DEF AbandonLine, WaitAgain
<1>29. CASE GiveUpSlot
  BY <1>29, <1>1, DrawTypes DEF GiveUpSlot, Latch, Finish, TaskDone, Loop
<1>30. CASE SendBytes
  BY <1>30, <1>1, DrawTypes DEF SendBytes, Transmit
<1>31. CASE WriteReturns
  BY <1>31, <1>1, DrawTypes DEF WriteReturns, Finish, TaskDone, Loop
<1>32. CASE WriteFails
  BY <1>32, <1>1, DrawTypes DEF WriteFails, Report, Finish, TaskDone, Loop
<1>33. CASE StartIdleCheck
  BY <1>33, <1>1, DrawTypes DEF StartIdleCheck
<1>34. ASSUME NEW q \in Rows, ReadIdleRow(q) PROVE Kept(d)'
  <2>1. SameDraw(d) /\ draw[d].alone /\ ~InRow(d, q)
    BY <1>34, ReadEffect DEF ReadIdleRow
  <2>2. /\ UNCHANGED <<queue, cells, lastWritten, handed, main, displayGone>>
        /\ hand'.row = q /\ pc = "idle" /\ pc' = "idlePut"
    BY <1>34 DEF ReadIdleRow
  <2>3. draw[d].row # q
    BY <2>1 DEF InRow, SameDraw
  <2> QED
    BY <1>1, <2>1, <2>2, <2>3 DEF SameDraw
<1>35. CASE PutIdleRefresh
  <2>1. /\ pc = "idlePut" /\ pc' = "idle" /\ hand' = NoPacket /\ hand \in Packet
        /\ UNCHANGED <<cells, lastWritten, handed, main, draw, displayGone>>
    BY <1>35 DEF PutIdleRefresh, Typed, HandTypes
  <2>2. draw[d].row # hand.row
    BY <2>1 DEF LoneInv, Refreshing
  <2>3. \A p \in queue' : p \in queue \/ p.row = hand.row
    BY <1>35, <2>1 DEF PutIdleRefresh, Packet
  <2>4. queue \subseteq queue'
    BY <1>35 DEF PutIdleRefresh
  <2> QED
    BY <2>1, <2>2, <2>3, <2>4
<1>36. CASE EndIdleCheck
  BY <1>36, <1>1, DrawTypes DEF EndIdleCheck, Loop
<1>37. CASE Exit
  BY <1>37, <1>1, DrawTypes DEF Exit
<1>38. CASE RenderLine
  BY <1>38, <1>1, DrawTypes DEF RenderLine
<1>39. CASE AcknowledgeLine
  BY <1>39, <1>1, DrawTypes DEF AcknowledgeLine
<1>40. CASE RejectLine
  BY <1>40, <1>1, DrawTypes DEF RejectLine
<1>41. CASE SendUnsolicited
  BY <1>41, <1>1, DrawTypes DEF SendUnsolicited
<1>42. CASE LoseLine
  BY <1>42, <1>1, DrawTypes DEF LoseLine
<1>43. ASSUME NEW s \in {"up", "silent", "down"}, ChangeLink(s) PROVE Kept(d)'
  BY <1>43, <1>1, DrawTypes DEF ChangeLink
<1>44. CASE UNCHANGED vars
  BY <1>44, <1>1, DrawTypes DEF vars
<1> HIDE DEF KeptInv, Kept, Delivered, Own, Unsent, Outdated, Running,
   terminationStarted, queueVars, rowVars, raceVars, mainVars, senderVars, gateVars,
   deviceVars, senderSide
<1> QED
  BY <1>2, <1>3, <1>4, <1>5, <1>6, <1>7, <1>8, <1>9, <1>10, <1>11, <1>12, <1>13, <1>14,
     <1>15, <1>16, <1>17, <1>18, <1>19, <1>20, <1>21, <1>22, <1>23, <1>24, <1>25,
     <1>26, <1>27, <1>28, <1>29, <1>30, <1>31, <1>32, <1>33, <1>34, <1>35, <1>36,
     <1>37, <1>38, <1>39, <1>40, <1>41, <1>42, <1>43, <1>44
     DEF Next, DrawerStep, DrawStep, MainStep, SenderStep, DeviceStep

(* What is on its way to a row was once drawn in it: while the driver is   *)
(* not terminating nothing queued, in the sender's hand, handed over or    *)
(* read by a refresh is newer than the row.                                *)
Older(p) == p.frame <= MaxFrames /\ (~terminationStarted => p.frame <= cells[p.row])

FrameInv ==
  /\ \A r \in Rows : cells[r] <= MaxFrames
  /\ \A p \in queue : Older(p)
  /\ hand # NoPacket => Older(hand)
  /\ \A d \in Drawers :
       /\ draw[d].frame <= MaxFrames
       /\ draw[d].at = "put" /\ ~terminationStarted => draw[d].frame <= cells[draw[d].row]
  /\ seen <= MaxFrames
  /\ main = "refreshPut" => \A r \in left : (\A q \in left : r <= q) => seen <= cells[r]
  /\ ~terminationStarted => \A r \in Rows : handed[r] <= cells[r]

LEMMA FrameNext ==
  Typed /\ FrameInv /\ [Next]_vars => FrameInv'
<1> SUFFICES ASSUME Typed, FrameInv, [Next]_vars PROVE FrameInv'
  OBVIOUS
<1>1. /\ serial \in Nat /\ draw \in [Drawers -> Stage] /\ cells \in [Rows -> Nat]
      /\ handed \in [Rows -> Int] /\ seen \in Nat /\ left \subseteq Rows /\ MaxFrames \in Nat
      /\ queue \subseteq Packet /\ hand \in Packet \cup {NoPacket}
      /\ pc \in {"popped", "wait", "expired", "resend", "failed", "write", "written", "idlePut"}
           <=> hand # NoPacket
  BY BoundAssumption DEF Typed, QueueTypes, MainTypes, RowTypes, HandTypes
<1> USE DEF FrameInv, Older, Packet, Blank, terminationStarted, queueVars, rowVars,
   raceVars, mainVars, senderVars, gateVars, deviceVars, senderSide
<1>2. ASSUME NEW e \in Drawers, NEW q \in Rows, Draw(e, q) PROVE FrameInv'
  <2>1. /\ draw'[e].at = "drawn"
        /\ \A d \in Drawers : d # e => SameDraw(d)
    BY <1>2, DrawEffect
  <2>2. draw'[e].frame = 0
    BY <1>2, <1>1, DisturbedType DEF Draw
  <2>3. /\ UNCHANGED <<queue, hand, main, left, seen, handed>>
        /\ cells' = [cells EXCEPT ![q] = @ + 1] /\ cells[q] < MaxFrames
    BY <1>2 DEF Draw
  <2>4. \A r \in Rows : cells'[r] \in Nat /\ cells[r] <= cells'[r] /\ cells'[r] <= MaxFrames
    BY <1>1, <2>3
  <2>5. \A p \in queue' : Older(p)'
    BY <1>1, <2>3, <2>4, DrawTypes
  <2>6. hand # NoPacket => Older(hand)'
    BY <1>1, <2>3, <2>4, DrawTypes
  <2>7. \A d \in Drawers :
         /\ draw'[d].frame <= MaxFrames
         /\ draw'[d].at = "put" /\ ~terminationStarted => draw'[d].frame <= cells'[draw'[d].row]
    BY <1>1, <2>1, <2>2, <2>4, DrawTypes DEF SameDraw
  <2>8. ~terminationStarted => \A r \in Rows : handed[r] <= cells'[r]
    BY <1>1, <2>4
  <2>9. main = "refreshPut" => \A r \in left : (\A x \in left : r <= x) => seen <= cells'[r]
    BY <1>1, <2>4
  <2>10. /\ \A r \in Rows : cells'[r] <= MaxFrames
         /\ hand' # NoPacket => Older(hand)'
         /\ seen' <= MaxFrames
    BY <1>1, <2>3, <2>4, <2>6
  <2>11. /\ main' = "refreshPut" => \A r \in left' : (\A x \in left' : r <= x) => seen' <= cells'[r]
         /\ ~terminationStarted' => \A r \in Rows : handed'[r] <= cells'[r]
    BY <2>3, <2>8, <2>9
  <2>12. ~terminationStarted' => ~terminationStarted
    BY <2>3
  <2> HIDE DEF Older, terminationStarted
  <2> QED
    BY <2>5, <2>7, <2>10, <2>11, <2>12
<1>3. ASSUME NEW e \in Drawers, CopyRow(e) PROVE FrameInv'
  <2>1. UNCHANGED <<queue, hand, cells, main, left, seen, handed>>
    BY <1>3 DEF CopyRow
  <2>2. ASSUME NEW d \in Drawers
        PROVE  /\ draw'[d].frame <= MaxFrames
               /\ draw'[d].at = "put" => draw'[d].frame = cells[draw'[d].row] \/ draw'[d] = draw[d]
    <3>1. draw[d] \in Stage
      BY <1>1
    <3>2. \/ draw'[d] = draw[d]
          \/ draw'[d] = [draw[d] EXCEPT !.at = "stamp"]
          \/ draw'[d] = [draw[d] EXCEPT !.at = "put", !.frame = cells[draw[d].row]]
      BY <1>3, <1>1 DEF CopyRow
    <3> QED
      BY <1>1, <3>1, <3>2, DrawTypes DEF Stage
  <2>3. ASSUME NEW d \in Drawers, draw'[d].at = "put", ~terminationStarted
        PROVE  draw'[d].frame <= cells[draw'[d].row]
    <3>1. draw'[d].row = draw[d].row
      BY <1>3, <1>1 DEF CopyRow, Stage
    <3> QED
      BY <2>2, <2>3, <3>1, DrawTypes
  <2> QED
    BY <2>1, <2>2, <2>3
<1>4. ASSUME NEW e \in Drawers, PutFrame(e) PROVE FrameInv'
  <2>1. PICK p : p = NewPacket(draw[e].row, draw[e].frame, "frame")
    OBVIOUS
  <2>2. /\ queue' = queue \cup {p} /\ draw[e].at = "put"
        /\ p.row = draw[e].row /\ p.frame = draw[e].frame
        /\ draw' = [draw EXCEPT ![e] = [@ EXCEPT !.at = "stamp", !.n = p.n, !.frame = 0]]
        /\ UNCHANGED <<hand, cells, handed, main, left, seen>>
    BY <1>4, <2>1 DEF PutFrame, Put, NewPacket
  <2>3. /\ draw'[e].at = "stamp" /\ draw'[e].frame = 0
        /\ \A d \in Drawers : d # e => draw'[d] = draw[d]
    BY <1>1, <2>2 DEF Stage
  <2> QED
    BY <1>1, <2>2, <2>3
<1>5. ASSUME NEW e \in Drawers, StampRow(e) PROVE FrameInv'
  <2>1. /\ draw' = [draw EXCEPT ![e] = Resting]
        /\ UNCHANGED <<queue, hand, cells, handed, main, left, seen>>
    BY <1>5 DEF StampRow
  <2>2. /\ draw'[e].at = "rest" /\ draw'[e].frame = 0
        /\ \A d \in Drawers : d # e => draw'[d] = draw[d]
    BY <1>1, <2>1 DEF Resting
  <2> QED
    BY <1>1, <2>1, <2>2
<1>6. CASE StartRefresh
  BY <1>6, <1>1, DrawTypes DEF StartRefresh
<1>7. ASSUME NEW q \in Rows, ReadRow(q) PROVE FrameInv'
  <2>1. \A d \in Drawers : SameDraw(d)
    BY <1>7, ReadEffect DEF ReadRow
  <2> QED
    BY <1>7, <2>1, <1>1, RowsAssumption, DrawTypes DEF ReadRow, SameDraw
<1>8. ASSUME NEW q \in Rows, PutRefresh(q) PROVE FrameInv'
  BY <1>8, <1>1, DrawTypes DEF PutRefresh, Put, NewPacket
<1>9. CASE StartTermination
  BY <1>9, <1>1, DrawTypes DEF StartTermination
<1>10. CASE BlockNewWrites
  BY <1>10, <1>1, DrawTypes DEF BlockNewWrites
<1>11. ASSUME NEW p \in queue, DrainOne(p) PROVE FrameInv'
  BY <1>11, <1>1, DrawTypes DEF DrainOne
<1>12. CASE DrainedOne
  BY <1>12, <1>1, DrawTypes DEF DrainedOne
<1>13. CASE DrainEnds
  BY <1>13, <1>1, DrawTypes DEF DrainEnds
<1>14. ASSUME NEW q \in Rows, ClearRow(q) PROVE FrameInv'
  BY <1>14, <1>1, DrawTypes DEF ClearRow, Put, NewPacket
<1>15. CASE FlushEnds
  BY <1>15, <1>1, DrawTypes DEF FlushEnds
<1>16. CASE JoinEnds
  BY <1>16, <1>1, DrawTypes DEF JoinEnds
<1>17. ASSUME NEW p \in queue, Take(p) PROVE FrameInv'
  BY <1>17, <1>1, DrawTypes DEF Take
<1>18. CASE DropPacket
  BY <1>18, <1>1, DrawTypes DEF DropPacket, Superseded, Finish, TaskDone, Loop
<1>19. CASE ExaminePacket
  <2>1. \A d \in Drawers : SameDraw(d)
    BY <1>19, <1>1, PassEffect DEF ExaminePacket
  <2>2. UNCHANGED <<queue, hand, cells, handed, main, left, seen>>
    BY <1>19 DEF ExaminePacket
  <2> QED
    BY <2>1, <2>2 DEF SameDraw
<1>20. CASE SlotOpens
  BY <1>20, <1>1, DrawTypes DEF SlotOpens
<1>21. CASE WaitExpires
  BY <1>21, <1>1, DrawTypes DEF WaitExpires
<1>22. CASE GiveUpLeaving
  BY <1>22, <1>1, DrawTypes DEF GiveUpLeaving
<1>23. CASE NoticeDisconnect
  BY <1>23, <1>1, DrawTypes DEF NoticeDisconnect, Report
<1>24. CASE KeepWaiting
  BY <1>24, <1>1, DrawTypes DEF KeepWaiting, WaitAgain
<1>25. CASE RenderTimeout
  BY <1>25, <1>1, DrawTypes DEF RenderTimeout, Report
<1>26. CASE ResendLine
  BY <1>26, <1>1, DrawTypes DEF ResendLine, WaitAgain, Transmit
<1>27. CASE ResendFails
  BY <1>27, <1>1, DrawTypes DEF ResendFails, Report
<1>28. CASE AbandonLine
  BY <1>28, <1>1, DrawTypes DEF AbandonLine, WaitAgain
<1>29. CASE GiveUpSlot
  BY <1>29, <1>1, DrawTypes DEF GiveUpSlot, Latch, Finish, TaskDone, Loop
<1>30. CASE SendBytes
  BY <1>30, <1>1, DrawTypes DEF SendBytes, Transmit
<1>31. CASE WriteReturns
  BY <1>31, <1>1, DrawTypes DEF WriteReturns, Finish, TaskDone, Loop
<1>32. CASE WriteFails
  BY <1>32, <1>1, DrawTypes DEF WriteFails, Report, Finish, TaskDone, Loop
<1>33. CASE StartIdleCheck
  BY <1>33, <1>1, DrawTypes DEF StartIdleCheck
<1>34. ASSUME NEW q \in Rows, ReadIdleRow(q) PROVE FrameInv'
  <2>1. \A d \in Drawers : SameDraw(d)
    BY <1>34, ReadEffect DEF ReadIdleRow
  <2> QED
    BY <1>34, <2>1, <1>1, DrawTypes DEF ReadIdleRow, SameDraw
<1>35. CASE PutIdleRefresh
  BY <1>35, <1>1, DrawTypes DEF PutIdleRefresh
<1>36. CASE EndIdleCheck
  BY <1>36, <1>1, DrawTypes DEF EndIdleCheck, Loop
<1>37. CASE Exit
  BY <1>37, <1>1, DrawTypes DEF Exit
<1>38. CASE RenderLine
  BY <1>38, <1>1, DrawTypes DEF RenderLine
<1>39. CASE AcknowledgeLine
  BY <1>39, <1>1, DrawTypes DEF AcknowledgeLine
<1>40. CASE RejectLine
  BY <1>40, <1>1, DrawTypes DEF RejectLine
<1>41. CASE SendUnsolicited
  BY <1>41, <1>1, DrawTypes DEF SendUnsolicited
<1>42. CASE LoseLine
  BY <1>42, <1>1, DrawTypes DEF LoseLine
<1>43. ASSUME NEW s \in {"up", "silent", "down"}, ChangeLink(s) PROVE FrameInv'
  BY <1>43, <1>1, DrawTypes DEF ChangeLink
<1>44. CASE UNCHANGED vars
  BY <1>44, <1>1, DrawTypes DEF vars
<1> HIDE DEF FrameInv, Older, Packet, Blank, terminationStarted, queueVars, rowVars,
   raceVars, mainVars, senderVars, gateVars, deviceVars, senderSide
<1> QED
  BY <1>2, <1>3, <1>4, <1>5, <1>6, <1>7, <1>8, <1>9, <1>10, <1>11, <1>12, <1>13, <1>14,
     <1>15, <1>16, <1>17, <1>18, <1>19, <1>20, <1>21, <1>22, <1>23, <1>24, <1>25,
     <1>26, <1>27, <1>28, <1>29, <1>30, <1>31, <1>32, <1>33, <1>34, <1>35, <1>36,
     <1>37, <1>38, <1>39, <1>40, <1>41, <1>42, <1>43, <1>44
     DEF Next, DrawerStep, DrawStep, MainStep, SenderStep, DeviceStep

LEMMA FrameInit == Init => FrameInv
  BY BoundAssumption, NoPacketAssumption
     DEF Init, FrameInv, Older, Blank, Resting, terminationStarted

(* The content of a row whose last draw was left alone.  A packet is live  *)
(* when nothing supersedes it, now or once the draw in progress has        *)
(* stamped the row.  Live packets all carry the same frame, the row's own  *)
(* unless it is being drawn, and none that is older than what the sender   *)
(* has in hand or has handed over; so what the row holds was handed over,  *)
(* or a live packet carries it.                                            *)
Live(p, r) ==
  /\ p.row = r /\ p.n >= lastWritten[r]
  /\ \A d \in Drawers : draw[d].at = "stamp" /\ draw[d].row = r => p.n >= draw[d].n

Pending == IF pc = "popped" THEN queue \cup {hand} ELSE queue

InFlight(r) ==
  pc \in {"wait", "expired", "resend", "failed", "write", "written"} /\ hand.row = r

Open(r) == \E d \in Drawers : draw[d].at \in {"drawn", "put"} /\ draw[d].row = r

InOrder(p, r) ==
  /\ handed[r] <= p.frame
  /\ InFlight(r) => hand.frame <= p.frame
  /\ \A q \in Pending : Live(q, r) => p.frame = q.frame
  /\ Open(r) \/ p.frame = cells[r]

Carries(p, r) == p.kind = "frame" /\ p.frame = cells[r] /\ Live(p, r)

Safe(r) ==
  \/ Open(r) \/ handed[r] = cells[r]
  \/ \E p \in queue : Carries(p, r)
  \/ pc \in Unsent /\ Carries(hand, r)

ReadCurrent(r) ==
  /\ main = "refreshPut" /\ r \in left /\ (\A q \in left : r <= q) => seen = cells[r]
  /\ pc = "idlePut" /\ hand.row = r => hand.frame = cells[r]

Settled(r) ==
  /\ InFlight(r) => handed[r] <= hand.frame
  /\ \A p \in Pending : Live(p, r) => InOrder(p, r)
  /\ ReadCurrent(r)
  /\ Safe(r)

ContentInv == Running => \A r \in Rows : ~raced[r] => Settled(r)

LEMMA ContentNext ==
  Typed /\ Counting /\ RankInv /\ LoneInv /\ KeptInv /\ FrameInv /\ ContentInv /\
     [Next]_vars => ContentInv'
<1> SUFFICES ASSUME Typed, Counting, RankInv, LoneInv, KeptInv, FrameInv, ContentInv, [Next]_vars,
                    Running', NEW r \in Rows, ~raced'[r]
             PROVE  Settled(r)'
  BY DEF ContentInv
<1>1. /\ serial \in Nat /\ draw \in [Drawers -> Stage] /\ lastWritten \in [Rows -> Nat]
      /\ cells \in [Rows -> Nat] /\ handed \in [Rows -> Int] /\ raced \in [Rows -> BOOLEAN]
      /\ (\A p \in queue : p.n <= serial) /\ displayGone \in BOOLEAN
      /\ pc \in {"popped", "wait", "expired", "resend", "failed", "write", "written", "idlePut"}
           <=> hand # NoPacket
      /\ left \subseteq Rows /\ seen \in Nat
  BY DEF Typed, QueueTypes, MainTypes, RowTypes, HandTypes, FlagTypes, Counting
<1> USE DEF ContentInv, Settled, Safe, ReadCurrent, Carries, InOrder, Open, InFlight,
   Pending, Live, Unsent, Running, terminationStarted, queueVars, rowVars, raceVars,
   mainVars, senderVars, gateVars, deviceVars, senderSide
<1>2. ASSUME NEW e \in Drawers, NEW q \in Rows, Draw(e, q) PROVE Settled(r)'
  <2>1. /\ draw[e].at = "rest" /\ draw'[e].at = "drawn" /\ draw'[e].row = q
        /\ draw'[e].alone <=> ~Refreshing(q) /\ \A d \in Drawers : ~InRow(d, q)
        /\ raced'[q] <=> raced[q] \/ ~draw'[e].alone
        /\ \A x \in Rows : x # q => raced'[x] = raced[x]
        /\ \A d \in Drawers : d # e => SameDraw(d)
    BY <1>2, DrawEffect
  <2>2. /\ UNCHANGED <<queue, hand, pc, lastWritten, handed, main, left, seen, displayGone>>
        /\ cells' = [cells EXCEPT ![q] = @ + 1]
    BY <1>2 DEF Draw
  <2>3. Settled(r)
    BY <1>1, <2>1, <2>2
  <2>4. \A p : Live(p, r)' <=> Live(p, r)
    BY <2>1, <2>2 DEF SameDraw
  <2>5. CASE r = q
    <3>1. Open(r)' /\ ~Open(r) /\ ~Refreshing(r)
      BY <2>1, <2>5 DEF InRow
    <3>2. \A p \in Pending : Live(p, r) => InOrder(p, r)'
      BY <2>2, <2>3, <2>4, <3>1
    <3> QED
      BY <2>2, <2>3, <2>4, <3>1, <3>2 DEF Refreshing
  <2>6. CASE r # q
    <3>1. cells'[r] = cells[r] /\ (Open(r)' <=> Open(r))
      BY <1>1, <2>1, <2>2, <2>6 DEF SameDraw
    <3>2. \A p \in Pending : Live(p, r) => InOrder(p, r)'
      BY <2>2, <2>3, <2>4, <3>1
    <3> QED
      BY <2>2, <2>3, <2>4, <3>1, <3>2
  <2> QED
    BY <2>5, <2>6
<1>3. ASSUME NEW e \in Drawers, CopyRow(e) PROVE Settled(r)'
  <2>1. /\ UNCHANGED <<queue, hand, pc, cells, lastWritten, handed, raced, main, left, seen,
                       displayGone>>
        /\ draw[e].at = "drawn"
    BY <1>3 DEF CopyRow
  <2>2. draw' = [draw EXCEPT ![e] = [@ EXCEPT !.at = "put", !.frame = cells[draw[e].row]]]
    BY <1>3, <1>1, <2>1 DEF CopyRow, blockNewWrites
  <2>3. /\ draw'[e].at = "put" /\ draw'[e].row = draw[e].row
        /\ \A d \in Drawers : d # e => draw'[d] = draw[d]
    BY <1>1, <2>2 DEF Stage
  <2>4. Open(r)' <=> Open(r)
    BY <2>1, <2>3
  <2>5. \A p : Live(p, r)' <=> Live(p, r)
    BY <2>1, <2>3
  <2> QED
    BY <2>1, <2>4, <2>5
<1>4. ASSUME NEW e \in Drawers, PutFrame(e) PROVE Settled(r)'
  <2>1. PICK p : p = NewPacket(draw[e].row, draw[e].frame, "frame")
    OBVIOUS
  <2>2. /\ queue' = queue \cup {p} /\ draw[e].at = "put"
        /\ p.n = serial + 1 /\ p.row = draw[e].row /\ p.frame = draw[e].frame /\ p.kind = "frame"
        /\ draw' = [draw EXCEPT ![e] = [@ EXCEPT !.at = "stamp", !.n = p.n, !.frame = Blank]]
        /\ UNCHANGED <<hand, pc, cells, lastWritten, handed, raced, main, left, seen, displayGone>>
    BY <1>4, <2>1 DEF PutFrame, Put, NewPacket
  <2>3. /\ draw'[e].at = "stamp" /\ draw'[e].n = p.n /\ draw'[e].row = draw[e].row
        /\ \A d \in Drawers : d # e => draw'[d] = draw[d]
    BY <1>1, <2>2 DEF Stage
  <2>4. Settled(r)
    BY <2>2
  <2>5. CASE draw[e].row # r
    <3>1. /\ Open(r)' <=> Open(r)
          /\ \A x : Live(x, r)' <=> Live(x, r)
          /\ ~Live(p, r)
      BY <2>2, <2>3, <2>5
    <3> QED
      BY <2>2, <2>4, <3>1
  <2>6. CASE draw[e].row = r
    <3>1. /\ draw[e].alone /\ ~Refreshing(r)
          /\ \A d \in Drawers : InRow(d, r) => d = e
      BY <2>2, <2>6 DEF LoneInv
    <3>2. p.frame = cells[r]
      BY <2>2, <2>6, <3>1 DEF KeptInv, Kept
    <3>3. /\ lastWritten[r] <= p.n
          /\ \A d \in Drawers : draw'[d].at = "stamp" /\ draw'[d].row = r => d = e
      BY <1>1, <2>2, <2>3, <3>1, DrawTypes DEF RankInv, InRow
    <3>4. Live(p, r)'
      BY <1>1, <2>2, <2>3, <2>6, <3>3
    <3>5. \A x \in Pending' : Live(x, r)' => x = p
      BY <1>1, <2>2, <2>3, <2>6, DrawTypes DEF RankInv
    <3>6. handed[r] <= cells[r] /\ (InFlight(r) => hand.frame <= cells[r])
      BY <1>1, <2>2 DEF FrameInv, Older
    <3>7. InOrder(p, r)'
      BY <2>2, <3>2, <3>5, <3>6
    <3>8. Carries(p, r)'
      BY <2>2, <3>2, <3>4
    <3>9. ReadCurrent(r)'
      BY <2>2, <3>1 DEF Refreshing
    <3> QED
      BY <2>2, <2>4, <3>5, <3>7, <3>8, <3>9
  <2> QED
    BY <2>5, <2>6
<1>5. ASSUME NEW e \in Drawers, StampRow(e) PROVE Settled(r)'
  <2>1. /\ draw[e].at = "stamp" /\ draw' = [draw EXCEPT ![e] = Resting]
        /\ lastWritten' = [lastWritten EXCEPT ![draw[e].row] = draw[e].n]
        /\ raced' = [raced EXCEPT ![draw[e].row] = @ /\ ~(draw[e].alone /\ ~Outdated(e))]
        /\ UNCHANGED <<queue, hand, pc, cells, handed, main, left, seen, displayGone>>
    BY <1>5 DEF StampRow
  <2>2. draw'[e].at = "rest" /\ \A d \in Drawers : d # e => draw'[d] = draw[d]
    BY <1>1, <2>1 DEF Resting
  <2>3. CASE draw[e].row # r
    <3>1. lastWritten'[r] = lastWritten[r] /\ Settled(r)
      BY <1>1, <2>1, <2>3
    <3>2. /\ Open(r)' <=> Open(r)
          /\ \A x : Live(x, r)' <=> Live(x, r)
      BY <2>1, <2>2, <2>3, <3>1
    <3> QED
      BY <2>1, <3>1, <3>2
  <2>4. CASE draw[e].row = r
    <3>1. raced[r] => ~Outdated(e) /\ draw[e].alone
      BY <1>1, <2>1, <2>4
    <3>2. /\ draw[e].alone /\ ~Refreshing(r)
          /\ \A d \in Drawers : InRow(d, r) => d = e
      BY <2>1, <2>4, <3>1 DEF LoneInv
    <3>3. Kept(e)
      BY <2>1, <3>2 DEF KeptInv
    <3>4. lastWritten'[r] = draw[e].n /\ \A d \in Drawers : ~(draw'[d].at # "rest" /\ draw'[d].row = r)
      BY <1>1, <2>1, <2>2, <2>4, <3>2 DEF InRow
    <3>5. \A x : Live(x, r)' <=> x.row = r /\ x.n >= draw[e].n
      BY <3>4
    <3>6. \A x \in Pending' : Live(x, r)' => x.frame = cells[r]
      BY <1>1, <2>1, <2>4, <3>3, <3>5 DEF Kept
    <3>7. handed[r] <= cells[r] /\ (InFlight(r) => hand.frame <= cells[r])
      BY <1>1, <2>1 DEF FrameInv, Older
    <3>8. InFlight(r) => handed[r] <= hand.frame
      <4>1. CASE ~raced[r]
        BY <2>1, <4>1
      <4>2. CASE raced[r]
        <5>1. InFlight(r) => ~(hand.n < draw[e].n)
          BY <1>1, <2>4, <3>1, <4>2 DEF Outdated
        <5> QED
          BY <1>1, <2>1, <2>4, <3>3, <3>7, <5>1, DrawTypes DEF Kept
      <4> QED
        BY <4>1, <4>2
    <3>9. \A x \in Pending' : Live(x, r)' => InOrder(x, r)'
      BY <2>1, <3>6, <3>7
    <3>10. ReadCurrent(r)'
      BY <2>1, <3>2 DEF Refreshing
    <3>11. Safe(r)'
      <4>1. CASE \E p \in queue : Own(p, e)
        BY <1>1, <2>1, <2>4, <3>3, <3>5, <4>1, DrawTypes DEF Own, Kept
      <4>2. CASE pc \in Unsent /\ Own(hand, e)
        BY <1>1, <2>1, <2>4, <3>3, <3>5, <4>2, DrawTypes DEF Own, Kept
      <4>3. CASE handed[r] = cells[r]
        BY <2>1, <4>3
      <4> QED
        BY <2>1, <2>4, <3>3, <4>1, <4>2, <4>3 DEF Kept, Delivered
    <3> QED
      BY <2>1, <3>8, <3>9, <3>10, <3>11
  <2> QED
    BY <2>3, <2>4
<1>6. CASE StartRefresh
  BY <1>6, <1>1, DrawTypes DEF StartRefresh
<1>7. ASSUME NEW q \in Rows, ReadRow(q) PROVE Settled(r)'
  <2>1. /\ raced'[q] <=> raced[q] \/ \E d \in Drawers : InRow(d, q)
        /\ \A x \in Rows : x # q => raced'[x] = raced[x]
        /\ \A d \in Drawers : SameDraw(d)
    BY <1>7, ReadEffect DEF ReadRow
  <2>2. /\ UNCHANGED <<queue, hand, pc, cells, lastWritten, handed, left, displayGone>>
        /\ main = "refresh" /\ main' = "refreshPut" /\ seen' = cells[q]
        /\ q \in left /\ \A x \in left : q <= x
    BY <1>7 DEF ReadRow
  <2>3. Settled(r)
    BY <1>1, <2>1, <2>2
  <2>4. /\ Open(r)' <=> Open(r)
        /\ \A x : Live(x, r)' <=> Live(x, r)
    BY <2>1, <2>2 DEF SameDraw
  <2>5. r \in left /\ (\A x \in left : r <= x) => r = q
    BY <1>1, <2>2, RowsAssumption
  <2> QED
    BY <2>2, <2>3, <2>4, <2>5
<1>8. ASSUME NEW q \in Rows, PutRefresh(q) PROVE Settled(r)'
  <2>1. PICK p : p = NewPacket(q, seen, "refresh")
    OBVIOUS
  <2>2. /\ p.row = q /\ p.n = serial + 1 /\ p.frame = seen /\ p.kind = "refresh"
        /\ queue' = queue \cup {p} /\ main = "refreshPut" /\ main' \in {"run", "refresh"}
        /\ q \in left /\ \A x \in left : q <= x
        /\ UNCHANGED <<hand, pc, cells, lastWritten, handed, draw, raced, displayGone>>
    BY <1>8, <2>1 DEF PutRefresh, Put, NewPacket
  <2>3. /\ Settled(r)
        /\ Open(r)' <=> Open(r)
        /\ \A x : Live(x, r)' <=> Live(x, r)
    BY <2>2
  <2>4. CASE q # r
    BY <2>2, <2>3, <2>4
  <2>5. CASE q = r
    <3>1. seen = cells[r] /\ Refreshing(r)
      BY <2>2, <2>3, <2>5 DEF Refreshing
    <3>2. ~Open(r)
      BY <2>2, <3>1 DEF LoneInv
    <3>3. handed[r] <= cells[r] /\ (InFlight(r) => hand.frame <= cells[r])
      BY <1>1, <2>2 DEF FrameInv, Older
    <3>4. \A x \in Pending' : Live(x, r) => x.frame = cells[r]
      BY <2>2, <2>3, <3>1, <3>2
    <3>5. \A x \in Pending' : Live(x, r) => InOrder(x, r)'
      BY <2>2, <2>3, <3>3, <3>4
    <3> QED
      BY <2>2, <2>3, <3>5
  <2> QED
    BY <2>4, <2>5
<1>9. CASE StartTermination
  BY <1>9, <1>1, DrawTypes DEF StartTermination
<1>10. CASE BlockNewWrites
  BY <1>10, <1>1, DrawTypes DEF BlockNewWrites
<1>11. ASSUME NEW p \in queue, DrainOne(p) PROVE Settled(r)'
  BY <1>11, <1>1, DrawTypes DEF DrainOne
<1>12. CASE DrainedOne
  BY <1>12, <1>1, DrawTypes DEF DrainedOne
<1>13. CASE DrainEnds
  BY <1>13, <1>1, DrawTypes DEF DrainEnds
<1>14. ASSUME NEW q \in Rows, ClearRow(q) PROVE Settled(r)'
  BY <1>14, <1>1, DrawTypes DEF ClearRow, Put, NewPacket
<1>15. CASE FlushEnds
  BY <1>15, <1>1, DrawTypes DEF FlushEnds
<1>16. CASE JoinEnds
  BY <1>16, <1>1, DrawTypes DEF JoinEnds
<1>17. ASSUME NEW p \in queue, Take(p) PROVE Settled(r)'
  BY <1>17, <1>1, DrawTypes DEF Take
<1>18. CASE DropPacket
  BY <1>18, <1>1, DrawTypes DEF DropPacket, Superseded, Finish, TaskDone, Loop
<1>19. CASE ExaminePacket
  <2>1. /\ \A x \in Rows : raced'[x] <=> raced[x] \/ (Passes /\ x = hand.row)
        /\ \A d \in Drawers : SameDraw(d)
    BY <1>19, <1>1, PassEffect DEF ExaminePacket
  <2>2. /\ UNCHANGED <<queue, hand, cells, lastWritten, handed, main, left, seen, displayGone>>
        /\ pc = "popped" /\ pc' \in {"failed", "wait"} /\ ~Superseded(hand)
    BY <1>19 DEF ExaminePacket
  <2>3. /\ Settled(r)
        /\ Open(r)' <=> Open(r)
        /\ \A x : Live(x, r)' <=> Live(x, r)
    BY <2>1, <2>2 DEF SameDraw
  <2>4. hand.row = r => Live(hand, r)
    BY <1>1, <2>1, <2>2, DrawTypes DEF Superseded, Passes
  <2>5. ASSUME NEW x \in queue, Live(x, r) PROVE InOrder(x, r)'
    <3>1. InOrder(x, r) /\ x \in Pending /\ hand \in Pending /\ Pending' \subseteq Pending
      BY <2>2, <2>3, <2>5
    <3>2. InFlight(r)' => hand.frame = x.frame
      BY <2>2, <2>4, <3>1
    <3>3. \A y \in Pending' : Live(y, r)' => x.frame = y.frame
      BY <2>3, <3>1
    <3> QED
      BY <1>1, <2>2, <2>3, <3>1, <3>2, <3>3, DrawTypes
  <2> QED
    BY <2>2, <2>3, <2>4, <2>5
<1>20. CASE SlotOpens
  BY <1>20, <1>1, DrawTypes DEF SlotOpens
<1>21. CASE WaitExpires
  BY <1>21, <1>1, DrawTypes DEF WaitExpires
<1>22. CASE GiveUpLeaving
  BY <1>22, <1>1, DrawTypes DEF GiveUpLeaving
<1>23. CASE NoticeDisconnect
  BY <1>23, <1>1, DrawTypes DEF NoticeDisconnect, Report
<1>24. CASE KeepWaiting
  BY <1>24, <1>1, DrawTypes DEF KeepWaiting, WaitAgain
<1>25. CASE RenderTimeout
  BY <1>25, <1>1, DrawTypes DEF RenderTimeout, Report
<1>26. CASE ResendLine
  BY <1>26, <1>1, DrawTypes DEF ResendLine, WaitAgain, Transmit
<1>27. CASE ResendFails
  BY <1>27, <1>1, DrawTypes DEF ResendFails, Report
<1>28. CASE AbandonLine
  BY <1>28, <1>1, DrawTypes DEF AbandonLine, WaitAgain
<1>29. CASE GiveUpSlot
  BY <1>29, <1>1, DrawTypes DEF GiveUpSlot, Latch, Finish, TaskDone, Loop
<1>30. CASE SendBytes
  <2>1. /\ UNCHANGED <<queue, hand, cells, lastWritten, draw, raced, main, left, seen, displayGone>>
        /\ pc = "write" /\ pc' = "written"
        /\ handed' = [handed EXCEPT ![hand.row] = hand.frame]
    BY <1>30 DEF SendBytes
  <2>2. /\ Settled(r)
        /\ Open(r)' <=> Open(r)
        /\ \A x : Live(x, r)' <=> Live(x, r)
    BY <2>1
  <2>3. handed'[r] = IF hand.row = r THEN hand.frame ELSE handed[r]
    BY <1>1, <2>1
  <2>4. hand.row = r => hand.frame <= cells[r] /\ hand.frame \in Nat
    BY <1>1, <2>1, DrawTypes DEF FrameInv, Older
  <2>5. \A x \in queue : Live(x, r) => InOrder(x, r)'
    BY <2>1, <2>2, <2>3, DrawTypes
  <2>6. Safe(r)'
    BY <2>1, <2>2, <2>3, <2>4, DrawTypes
  <2> QED
    BY <1>1, <2>1, <2>2, <2>3, <2>4, <2>5, <2>6
<1>31. CASE WriteReturns
  BY <1>31, <1>1, DrawTypes DEF WriteReturns, Finish, TaskDone, Loop
<1>32. CASE WriteFails
  BY <1>32, <1>1, DrawTypes DEF WriteFails, Report, Finish, TaskDone, Loop
<1>33. CASE StartIdleCheck
  BY <1>33, <1>1, DrawTypes DEF StartIdleCheck
<1>34. ASSUME NEW q \in Rows, ReadIdleRow(q) PROVE Settled(r)'
  <2>1. /\ raced'[q] <=> raced[q] \/ \E d \in Drawers : InRow(d, q)
        /\ \A x \in Rows : x # q => raced'[x] = raced[x]
        /\ \A d \in Drawers : SameDraw(d)
    BY <1>34, ReadEffect DEF ReadIdleRow
  <2>2. /\ UNCHANGED <<queue, cells, lastWritten, handed, main, left, seen, displayGone>>
        /\ pc = "idle" /\ pc' = "idlePut" /\ hand'.row = q /\ hand'.frame = cells[q]
    BY <1>34 DEF ReadIdleRow
  <2>3. Settled(r)
    BY <1>1, <2>1, <2>2
  <2>4. /\ Open(r)' <=> Open(r)
        /\ \A x : Live(x, r)' <=> Live(x, r)
    BY <2>1, <2>2 DEF SameDraw
  <2>5. \A x \in queue : Live(x, r) => InOrder(x, r)'
    BY <2>2, <2>3, <2>4
  <2> QED
    BY <2>2, <2>3, <2>4, <2>5
<1>35. CASE PutIdleRefresh
  <2>1. PICK p : p = [hand EXCEPT !.n = serial + 1]
    OBVIOUS
  <2>2. /\ pc = "idlePut" /\ pc' = "idle" /\ hand \in Packet
        /\ queue' = queue \/ queue' = queue \cup {p}
        /\ UNCHANGED <<cells, lastWritten, handed, main, left, seen, draw, raced, displayGone>>
    BY <1>35, <1>1, <2>1 DEF PutIdleRefresh, Typed, HandTypes
  <2>3. p.row = hand.row /\ p.n = serial + 1 /\ p.frame = hand.frame
    BY <2>1, <2>2 DEF Packet
  <2>4. /\ Settled(r)
        /\ Open(r)' <=> Open(r)
        /\ \A x : Live(x, r)' <=> Live(x, r)
    BY <2>2
  <2>5. Safe(r)' /\ ReadCurrent(r)' /\ ~InFlight(r)'
    BY <2>2, <2>4
  <2>6. CASE hand.row # r
    <3>1. \A x \in queue' : Live(x, r) => x \in queue
      BY <2>2, <2>3, <2>6
    <3> QED
      BY <2>2, <2>4, <2>5, <3>1
  <2>7. CASE hand.row = r
    <3>1. p.frame = cells[r] /\ Refreshing(r)
      BY <2>2, <2>3, <2>4, <2>7 DEF Refreshing
    <3>2. ~Open(r)
      BY <2>2, <3>1 DEF LoneInv
    <3>3. handed[r] <= cells[r]
      BY <2>2 DEF FrameInv
    <3>4. \A x \in queue' : Live(x, r) => x.frame = cells[r]
      BY <2>2, <2>4, <3>1, <3>2
    <3>5. \A x \in queue' : Live(x, r) => InOrder(x, r)'
      BY <2>2, <2>4, <3>3, <3>4
    <3> QED
      BY <2>2, <2>4, <2>5, <3>5
  <2> QED
    BY <2>6, <2>7
<1>36. CASE EndIdleCheck
  BY <1>36, <1>1, DrawTypes DEF EndIdleCheck, Loop
<1>37. CASE Exit
  BY <1>37, <1>1, DrawTypes DEF Exit
<1>38. CASE RenderLine
  BY <1>38, <1>1, DrawTypes DEF RenderLine
<1>39. CASE AcknowledgeLine
  BY <1>39, <1>1, DrawTypes DEF AcknowledgeLine
<1>40. CASE RejectLine
  BY <1>40, <1>1, DrawTypes DEF RejectLine
<1>41. CASE SendUnsolicited
  BY <1>41, <1>1, DrawTypes DEF SendUnsolicited
<1>42. CASE LoseLine
  BY <1>42, <1>1, DrawTypes DEF LoseLine
<1>43. ASSUME NEW s \in {"up", "silent", "down"}, ChangeLink(s) PROVE Settled(r)'
  BY <1>43, <1>1, DrawTypes DEF ChangeLink
<1>44. CASE UNCHANGED vars
  BY <1>44, <1>1, DrawTypes DEF vars
<1> HIDE DEF ContentInv, Settled, Safe, ReadCurrent, Carries, InOrder, Open, InFlight,
   Pending, Live, Unsent, Running, terminationStarted, queueVars, rowVars, raceVars,
   mainVars, senderVars, gateVars, deviceVars, senderSide
<1> QED
  BY <1>2, <1>3, <1>4, <1>5, <1>6, <1>7, <1>8, <1>9, <1>10, <1>11, <1>12, <1>13, <1>14,
     <1>15, <1>16, <1>17, <1>18, <1>19, <1>20, <1>21, <1>22, <1>23, <1>24, <1>25,
     <1>26, <1>27, <1>28, <1>29, <1>30, <1>31, <1>32, <1>33, <1>34, <1>35, <1>36,
     <1>37, <1>38, <1>39, <1>40, <1>41, <1>42, <1>43, <1>44
     DEF Next, DrawerStep, DrawStep, MainStep, SenderStep, DeviceStep

LEMMA RankInit == Init => RankInv
  BY DEF Init, RankInv, Resting

LEMMA LoneInit == Init => LoneInv
  BY DEF Init, LoneInv, Resting

LEMMA KeptInit == Init => KeptInv
  BY DEF Init, KeptInv, Resting

LEMMA ContentInit == Init => ContentInv
<1> SUFFICES ASSUME Init, NEW r \in Rows PROVE Settled(r)
  BY DEF ContentInv
<1>1. Pending = queue /\ ~InFlight(r) /\ ReadCurrent(r)
  BY DEF Init, Pending, InFlight, ReadCurrent
<1>2. \A p \in queue : p.frame = cells[r] /\ handed[r] <= p.frame /\ p.kind = "frame"
  BY DEF Init, Blank
<1> DEFINE x == [n |-> 1, row |-> r, frame |-> Blank, kind |-> "frame"]
<1>3. PICK p \in queue : p.row = r /\ p.n = 1
  <2>1. x \in queue /\ x.row = r /\ x.n = 1
    BY DEF Init
  <2> QED
    BY <2>1
<1>4. Live(p, r)
  BY <1>3 DEF Init, Live, Resting
<1>5. Safe(r)
  BY <1>2, <1>4 DEF Safe, Carries
<1> QED
  BY <1>1, <1>2, <1>5 DEF Settled, InOrder

(* No interleaving of the drawing threads, refreshes and the sender loses  *)
(* what a row holds, until the driver terminates or gives the display up,  *)
(* unless the row's last draw met another thread in its row.               *)
THEOREM NothingLost == Spec => []ContentNeverLost
<1>1. Typed /\ ContentInv => ContentNeverLost
  <2> SUFFICES ASSUME Typed, ContentInv, ~terminationStarted, ~displayGone, NEW r \in Rows,
                      ~raced[r], ~(handed[r] = cells[r]),
                      ~(\E d \in Drawers : draw[d].at \in {"drawn", "put"} /\ draw[d].row = r)
               PROVE  \E p \in queue \cup {hand} :
                        p # NoPacket /\ p.row = r /\ p.frame = cells[r]
    BY DEF ContentNeverLost
  <2>1. Safe(r)
    BY DEF ContentInv, Settled, Running
  <2>2. CASE \E p \in queue : Carries(p, r)
    BY <2>2, NoPacketAssumption DEF Typed, QueueTypes, Carries, Live
  <2>3. CASE pc \in Unsent /\ Carries(hand, r)
    BY <2>3 DEF Carries, Live, Unsent, Typed, HandTypes
  <2> QED
    BY <2>1, <2>2, <2>3 DEF Safe, Open
<1> QED
  BY <1>1, TypedInit, TypedNext, CountingInit, CountingNext, RankInit, RankNext, LoneInit, LoneNext,
     KeptInit, KeptNext, FrameInit, FrameNext, ContentInit, ContentNext, PTL DEF Spec

-----------------------------------------------------------------------------
(* The refresh budget.  A row has at most one idle refresh under way that  *)
(* is not counted yet, and was within its budget when that one was queued. *)
IdleQueued(r) == \E p \in queue : p.kind = "idle" /\ p.row = r

BudgetInv ==
  /\ \A r \in Rows : maxRefreshes[r] <= AutoRefreshNum /\ refreshCount[r] <= AutoRefreshNum
  /\ \A p \in queue : p.kind = "idle" => refreshCount[p.row] < AutoRefreshNum
  /\ \A p, q \in queue : p.kind = "idle" /\ q.kind = "idle" /\ p.row = q.row => p = q
  /\ \A r \in todo : ~IdleQueued(r)
  /\ pc = "idlePut" => hand.kind = "idle" /\ hand.row \notin todo
  /\ pc \in {"popped", "idlePut"} /\ hand.kind = "idle" =>
       refreshCount[hand.row] < AutoRefreshNum /\ ~IdleQueued(hand.row)

LEMMA BudgetNext == Typed /\ BudgetInv /\ [Next]_vars => BudgetInv'
<1> SUFFICES ASSUME Typed, BudgetInv, [Next]_vars PROVE BudgetInv'
  OBVIOUS
<1> USE ConfigAssumption DEF BudgetInv, IdleQueued, Typed, QueueTypes, RowTypes, MainTypes,
   HandTypes,
   Packet, queueVars, rowVars, mainVars, senderVars, gateVars, deviceVars, senderSide
<1>1. ASSUME NEW d \in Drawers, NEW r \in Rows, Draw(d, r) PROVE BudgetInv'
  BY <1>1 DEF Draw
<1>2. ASSUME NEW d \in Drawers, CopyRow(d) PROVE BudgetInv'
  BY <1>2 DEF CopyRow
<1>3. ASSUME NEW d \in Drawers, PutFrame(d) PROVE BudgetInv'
  BY <1>3 DEF PutFrame, Put, NewPacket
<1>4. ASSUME NEW d \in Drawers, StampRow(d) PROVE BudgetInv'
  BY <1>4 DEF StampRow
<1>5. CASE StartRefresh
  BY <1>5 DEF StartRefresh
<1>6. ASSUME NEW r \in Rows, ReadRow(r) PROVE BudgetInv'
  BY <1>6 DEF ReadRow
<1>7. ASSUME NEW r \in Rows, PutRefresh(r) PROVE BudgetInv'
  BY <1>7 DEF PutRefresh, Put, NewPacket
<1>8. CASE StartTermination
  BY <1>8 DEF StartTermination
<1>9. CASE BlockNewWrites
  BY <1>9 DEF BlockNewWrites
<1>10. ASSUME NEW p \in queue, DrainOne(p) PROVE BudgetInv'
  BY <1>10 DEF DrainOne
<1>11. ASSUME DrainedOne PROVE BudgetInv'
  BY <1>11 DEF DrainedOne
<1>12. CASE DrainEnds
  BY <1>12 DEF DrainEnds
<1>13. ASSUME NEW r \in Rows, ClearRow(r) PROVE BudgetInv'
  BY <1>13 DEF ClearRow, Put, NewPacket
<1>14. CASE FlushEnds
  BY <1>14 DEF FlushEnds
<1>15. CASE JoinEnds
  BY <1>15 DEF JoinEnds
<1>16. ASSUME NEW p \in queue, Take(p) PROVE BudgetInv'
  BY <1>16 DEF Take
<1>17. CASE DropPacket
  BY <1>17 DEF DropPacket, Finish, TaskDone, Loop
<1>18. CASE ExaminePacket
  BY <1>18 DEF ExaminePacket
<1>19. CASE SlotOpens
  BY <1>19 DEF SlotOpens
<1>20. CASE WaitExpires
  BY <1>20 DEF WaitExpires
<1>21. CASE GiveUpLeaving
  BY <1>21 DEF GiveUpLeaving
<1>22. CASE NoticeDisconnect
  BY <1>22 DEF NoticeDisconnect, Report
<1>23. CASE KeepWaiting
  BY <1>23 DEF KeepWaiting, WaitAgain
<1>24. CASE RenderTimeout
  BY <1>24 DEF RenderTimeout, Report
<1>25. CASE ResendLine
  BY <1>25 DEF ResendLine, WaitAgain, Transmit
<1>26. CASE ResendFails
  BY <1>26 DEF ResendFails, Report
<1>27. CASE AbandonLine
  BY <1>27 DEF AbandonLine, WaitAgain
<1>28. CASE GiveUpSlot
  BY <1>28 DEF GiveUpSlot, Latch, Finish, TaskDone, Loop
<1>29. CASE SendBytes
  BY <1>29 DEF SendBytes, Transmit
<1>30. CASE WriteReturns
  BY <1>30 DEF WriteReturns, Finish, TaskDone, Loop
<1>31. CASE WriteFails
  BY <1>31 DEF WriteFails, Report, Finish, TaskDone, Loop
<1>32. CASE StartIdleCheck
  BY <1>32 DEF StartIdleCheck
<1>33. ASSUME NEW r \in Rows, ReadIdleRow(r) PROVE BudgetInv'
  BY <1>33, RowsAssumption DEF ReadIdleRow, BudgetLeft
<1>34. CASE PutIdleRefresh
  BY <1>34 DEF PutIdleRefresh
<1>35. CASE EndIdleCheck
  BY <1>35 DEF EndIdleCheck, Loop
<1>36. CASE Exit
  BY <1>36 DEF Exit
<1>37. CASE RenderLine
  BY <1>37 DEF RenderLine
<1>38. CASE AcknowledgeLine
  BY <1>38 DEF AcknowledgeLine
<1>39. CASE RejectLine
  BY <1>39 DEF RejectLine
<1>40. CASE SendUnsolicited
  BY <1>40 DEF SendUnsolicited
<1>41. CASE LoseLine
  BY <1>41 DEF LoseLine
<1>42. ASSUME NEW s \in {"up", "silent", "down"}, ChangeLink(s) PROVE BudgetInv'
  BY <1>42 DEF ChangeLink
<1>43. CASE UNCHANGED vars
  BY <1>43 DEF vars
<1>44. \A r \in Rows : cells[r] \in Nat /\ cells[r] + 1 \in Nat
  BY DEF Typed, RowTypes
<1> HIDE DEF BudgetInv, IdleQueued, Typed, QueueTypes, RowTypes, MainTypes, HandTypes,
     Packet, queueVars, rowVars, mainVars, senderVars, gateVars, deviceVars, senderSide
<1> QED
  BY <1>44, <1>1, <1>2, <1>3, <1>4, <1>5, <1>6, <1>7, <1>8, <1>9, <1>10, <1>11, <1>12, <1>13, <1>14,
     <1>15, <1>16, <1>17, <1>18, <1>19, <1>20, <1>21, <1>22, <1>23, <1>24, <1>25,
     <1>26, <1>27, <1>28, <1>29, <1>30, <1>31, <1>32, <1>33, <1>34, <1>35, <1>36,
     <1>37, <1>38, <1>39, <1>40, <1>41, <1>42, <1>43
     DEF Next, DrawerStep, DrawStep, MainStep, SenderStep, DeviceStep

LEMMA BudgetInit == Init => BudgetInv
  BY ConfigAssumption DEF Init, BudgetInv, IdleQueued

(* However drawing, refreshing and terminating interleave with the idle    *)
(* check, no row is refreshed automatically more often than configured.    *)
THEOREM BudgetKept == Spec => []RefreshBudget
<1>1. BudgetInv => RefreshBudget
  BY DEF BudgetInv, RefreshBudget
<1> QED
  BY <1>1, TypedInit, TypedNext, BudgetInit, BudgetNext, PTL DEF Spec
=============================================================================
