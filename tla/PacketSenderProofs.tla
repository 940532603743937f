------------------------- MODULE PacketSenderProofs -------------------------
(* Theorems about PacketSender, for every set of rows and every bound.     *)
EXTENDS PacketSender, FiniteSetTheorems, TLAPS

(* TypeOK, in parts, but for the counter of unfinished packets. *)
QueueTypes == queue \subseteq Packet /\ serial \in Nat

(* Where a thread can be inside Display.display. *)
Stage ==
  [at : {"rest", "drawn", "put", "stamp"}, row : Rows, frame : Nat, n : Nat, alone : BOOLEAN]

RowTypes ==
  /\ cells \in [Rows -> Nat]
  /\ lastWritten \in [Rows -> Nat] /\ lastRefreshed \in [Rows -> Nat]
  /\ refreshCount \in [Rows -> Nat] /\ maxRefreshes \in [Rows -> Nat]
  /\ handed \in [Rows -> Int]

MainTypes ==
  /\ main \in Mains /\ left \subseteq Rows /\ seen \in Nat
  /\ draw \in [Drawers -> Stage] /\ raced \in [Rows -> BOOLEAN]

HandTypes ==
  /\ pc \in Senders /\ hand \in Packet \cup {NoPacket} /\ todo \subseteq Rows
  /\ pc \in {"popped", "wait", "expired", "resend", "failed", "write", "written", "idlePut"}
       <=> hand # NoPacket

FlagTypes ==
  /\ leaving \in BOOLEAN /\ lastSent \in BOOLEAN /\ displayGone \in BOOLEAN
  /\ ready \in BOOLEAN /\ faults \in BOOLEAN
  /\ link \in {"up", "silent", "down"}
  /\ tries \in Nat /\ reports \in Nat /\ timeouts \in Nat /\ unanswered \in Nat

Typed == QueueTypes /\ RowTypes /\ MainTypes /\ HandTypes /\ FlagTypes

LEMMA RowsNonEmpty == FirstRow \in Rows
  BY RowsAssumption DEF FirstRow

LEMMA RestingType == Resting \in Stage
  BY RowsNonEmpty DEF Resting, Stage, Blank

LEMMA PutStage ==
  ASSUME NEW e \in Stage, NEW n \in Nat
  PROVE  [e EXCEPT !.at = "stamp", !.n = n, !.frame = 0] \in Stage
  BY DEF Stage

LEMMA DisturbedType ==
  ASSUME draw \in [Drawers -> Stage], NEW r \in Rows
  PROVE  /\ Disturbed(r) \in [Drawers -> Stage]
         /\ \A d \in Drawers : /\ Disturbed(r)[d].at = draw[d].at
                               /\ Disturbed(r)[d].row = draw[d].row
                               /\ Disturbed(r)[d].n = draw[d].n
                               /\ Disturbed(r)[d].frame = draw[d].frame
                               /\ Disturbed(r)[d].alone <=> draw[d].alone /\ ~InRow(d, r)
<1> SUFFICES ASSUME NEW d \in Drawers
             PROVE  /\ Disturbed(r)[d] \in Stage
                    /\ Disturbed(r)[d].at = draw[d].at
                    /\ Disturbed(r)[d].row = draw[d].row
                    /\ Disturbed(r)[d].n = draw[d].n
                    /\ Disturbed(r)[d].frame = draw[d].frame
                    /\ Disturbed(r)[d].alone <=> draw[d].alone /\ ~InRow(d, r)
  BY DEF Disturbed
<1>1. draw[d] \in Stage
  OBVIOUS
<1>2. CASE InRow(d, r)
  BY <1>1, <1>2 DEF Disturbed, Stage
<1>3. CASE ~InRow(d, r)
  BY <1>1, <1>3 DEF Disturbed
<1> QED
  BY <1>2, <1>3

LEMMA TypedInit == Init => Typed
<1> SUFFICES ASSUME Init PROVE Typed
  OBVIOUS
<1> USE RowsNonEmpty, RowsAssumption, NoPacketAssumption DEF Init
<1>1. queue \subseteq Packet
  BY DEF Packet, Blank
<1>2. draw \in [Drawers -> Stage] /\ raced \in [Rows -> BOOLEAN]
  BY RestingType
<1>3. cells \in [Rows -> Nat] /\ serial \in Nat /\ seen \in Nat
  BY DEF Blank
<1>4. main \in Mains /\ pc \in Senders
  BY DEF Mains, Senders
<1>5. handed \in [Rows -> Int]
  OBVIOUS
<1>6. /\ lastWritten \in [Rows -> Nat] /\ lastRefreshed \in [Rows -> Nat]
      /\ refreshCount \in [Rows -> Nat] /\ maxRefreshes \in [Rows -> Nat]
  OBVIOUS
<1>7. /\ left \subseteq Rows /\ hand \in Packet \cup {NoPacket} /\ todo \subseteq Rows
      /\ leaving \in BOOLEAN /\ lastSent \in BOOLEAN /\ tries \in Nat
      /\ displayGone \in BOOLEAN /\ reports \in Nat
      /\ ready \in BOOLEAN /\ timeouts \in Nat
      /\ link \in {"up", "silent", "down"} /\ unanswered \in Nat /\ faults \in BOOLEAN
  OBVIOUS
<1>8. pc \in {"popped", "wait", "expired", "resend", "failed", "write", "written", "idlePut"}
       <=> hand # NoPacket
  OBVIOUS
<1> QED
  BY <1>1, <1>2, <1>3, <1>4, <1>5, <1>6, <1>7, <1>8 DEF Typed, QueueTypes, RowTypes,
     MainTypes, HandTypes, FlagTypes

LEMMA TypedNext == Typed /\ [Next]_vars => Typed'
<1> SUFFICES ASSUME Typed, [Next]_vars PROVE Typed'
  OBVIOUS
<1> USE RowsNonEmpty, NoPacketAssumption DEF Typed, QueueTypes, RowTypes, MainTypes, HandTypes,
         FlagTypes, Mains, Senders, Packet, queueVars, rowVars, raceVars, mainVars, senderVars,
         gateVars, deviceVars, senderSide
<1>1. ASSUME NEW d \in Drawers, NEW r \in Rows, Draw(d, r) PROVE Typed'
  <2>1. cells' \in [Rows -> Nat] /\ raced' \in [Rows -> BOOLEAN]
    BY <1>1 DEF Draw
  <2>2. PICK alone \in BOOLEAN :
          draw' = [Disturbed(r) EXCEPT
                    ![d] = [at |-> "drawn", row |-> r, frame |-> Blank, n |-> 0, alone |-> alone]]
    BY <1>1 DEF Draw
  <2>3. draw' \in [Drawers -> Stage]
    BY <2>2, DisturbedType DEF Stage, Blank
  <2> QED
    BY <1>1, <2>1, <2>3 DEF Draw
<1>2. ASSUME NEW d \in Drawers, CopyRow(d) PROVE Typed'
  <2>1. draw[d] \in Stage /\ cells[draw[d].row] \in Nat
    BY DEF Stage
  <2>2. draw' \in [Drawers -> Stage]
    BY <1>2, <2>1 DEF CopyRow, Stage
  <2> QED
    BY <1>2, <2>2 DEF CopyRow
<1>3. ASSUME NEW d \in Drawers, PutFrame(d) PROVE Typed'
  <2>1. draw[d] \in Stage /\ draw[d].row \in Rows /\ draw[d].frame \in Nat
    BY DEF Stage
  <2>2. NewPacket(draw[d].row, draw[d].frame, "frame") \in Packet
    BY <2>1 DEF NewPacket
  <2>3. QueueTypes' /\ maxRefreshes' \in [Rows -> Nat]
    BY <1>3, <2>1, <2>2, ConfigAssumption DEF PutFrame, Put, NewPacket
  <2>4. draw' = [draw EXCEPT ![d] = [@ EXCEPT !.at = "stamp", !.n = serial + 1, !.frame = 0]]
    BY <1>3 DEF PutFrame, NewPacket, Blank
  <2>5. [draw[d] EXCEPT !.at = "stamp", !.n = serial + 1, !.frame = 0] \in Stage
    <3>1. serial + 1 \in Nat
      OBVIOUS
    <3> QED
      BY <2>1, <3>1, PutStage
  <2>6. draw' \in [Drawers -> Stage]
    BY <2>4, <2>5
  <2> QED
    BY <1>3, <2>3, <2>6 DEF PutFrame
<1>4. ASSUME NEW d \in Drawers, StampRow(d) PROVE Typed'
  <2>1. draw[d] \in Stage /\ draw[d].row \in Rows /\ draw[d].n \in Nat
    BY DEF Stage
  <2>2. draw' \in [Drawers -> Stage]
    BY <1>4, RestingType DEF StampRow
  <2>3. raced' \in [Rows -> BOOLEAN] /\ lastWritten' \in [Rows -> Nat]
    BY <1>4, <2>1 DEF StampRow
  <2> QED
    BY <1>4, <2>2, <2>3 DEF StampRow
<1>5. ASSUME StartRefresh PROVE Typed'
  BY <1>5 DEF StartRefresh
<1>6. ASSUME NEW r \in Rows, ReadRow(r) PROVE Typed'
  <2>1. draw' \in [Drawers -> Stage] /\ raced' \in [Rows -> BOOLEAN]
    BY <1>6, DisturbedType DEF ReadRow, ReadRace
  <2> QED
    BY <1>6, <2>1 DEF ReadRow
<1>7. ASSUME NEW r \in Rows, PutRefresh(r) PROVE Typed'
  BY <1>7 DEF PutRefresh, Put, NewPacket, Blank
<1>8. ASSUME StartTermination PROVE Typed'
  BY <1>8 DEF StartTermination
<1>9. ASSUME BlockNewWrites PROVE Typed'
  BY <1>9 DEF BlockNewWrites
<1>10. ASSUME NEW p \in queue, DrainOne(p) PROVE Typed'
  BY <1>10 DEF DrainOne
<1>11. ASSUME DrainedOne PROVE Typed'
  BY <1>11 DEF DrainedOne
<1>12. ASSUME DrainEnds PROVE Typed'
  BY <1>12 DEF DrainEnds
<1>13. ASSUME NEW r \in Rows, ClearRow(r) PROVE Typed'
  BY <1>13 DEF ClearRow, Blank, Put, NewPacket
<1>14. ASSUME FlushEnds PROVE Typed'
  BY <1>14 DEF FlushEnds
<1>15. ASSUME JoinEnds PROVE Typed'
  BY <1>15 DEF JoinEnds
<1>16. ASSUME NEW p \in queue, Take(p) PROVE Typed'
  BY <1>16 DEF Take
<1>17. ASSUME DropPacket PROVE Typed'
  <2>1. QueueTypes' /\ MainTypes'
    BY <1>17 DEF DropPacket, Finish, TaskDone, Loop
  <2>2. RowTypes'
    BY <1>17 DEF DropPacket, Finish, TaskDone, Loop
  <2>3. HandTypes'
    BY <1>17 DEF DropPacket, Finish, TaskDone, Loop
  <2>4. FlagTypes'
    BY <1>17 DEF DropPacket, Finish, TaskDone, Loop
  <2> QED
    BY <2>1, <2>2, <2>3, <2>4
<1>18. ASSUME ExaminePacket PROVE Typed'
  <2>1. draw' \in [Drawers -> Stage] /\ raced' \in [Rows -> BOOLEAN]
    BY <1>18, DisturbedType DEF ExaminePacket, PassRace
  <2>2. QueueTypes' /\ MainTypes'
    BY <1>18, <2>1 DEF ExaminePacket
  <2>3. RowTypes'
    BY <1>18 DEF ExaminePacket
  <2>4. HandTypes'
    BY <1>18 DEF ExaminePacket
  <2>5. FlagTypes'
    BY <1>18 DEF terminationStarted, ExaminePacket
  <2> QED
    BY <2>2, <2>3, <2>4, <2>5
<1>19. ASSUME SlotOpens PROVE Typed'
  <2>1. QueueTypes' /\ MainTypes'
    BY <1>19 DEF SlotOpens
  <2>2. RowTypes'
    BY <1>19 DEF SlotOpens
  <2>3. HandTypes'
    BY <1>19 DEF SlotOpens
  <2>4. FlagTypes'
    BY <1>19 DEF SlotOpens
  <2> QED
    BY <2>1, <2>2, <2>3, <2>4
<1>20. ASSUME WaitExpires PROVE Typed'
  BY <1>20 DEF WaitExpires
<1>21. ASSUME GiveUpLeaving PROVE Typed'
  BY <1>21 DEF GiveUpLeaving
<1>22. ASSUME NoticeDisconnect PROVE Typed'
  BY <1>22 DEF NoticeDisconnect, Report
<1>23. ASSUME KeepWaiting PROVE Typed'
  BY <1>23 DEF KeepWaiting, WaitAgain
<1>24. ASSUME RenderTimeout PROVE Typed'
  BY <1>24 DEF RenderTimeout, Report
<1>25. ASSUME ResendLine PROVE Typed'
  BY <1>25 DEF ResendLine, Transmit, WaitAgain
<1>26. ASSUME ResendFails PROVE Typed'
  BY <1>26 DEF ResendFails, Report
<1>27. ASSUME AbandonLine PROVE Typed'
  <2>1. QueueTypes' /\ MainTypes'
    BY <1>27 DEF AbandonLine, WaitAgain
  <2>2. RowTypes'
    BY <1>27 DEF AbandonLine, WaitAgain
  <2>3. HandTypes'
    BY <1>27 DEF AbandonLine, WaitAgain
  <2>4. FlagTypes'
    BY <1>27 DEF AbandonLine, WaitAgain
  <2> QED
    BY <2>1, <2>2, <2>3, <2>4
<1>28. ASSUME GiveUpSlot PROVE Typed'
  BY <1>28 DEF GiveUpSlot, Latch, Finish, TaskDone, Loop
<1>29. ASSUME SendBytes PROVE Typed'
  BY <1>29 DEF SendBytes, Transmit
<1>30. ASSUME WriteReturns PROVE Typed'
  BY <1>30 DEF WriteReturns, Finish, TaskDone, Loop
<1>31. ASSUME WriteFails PROVE Typed'
  <2>1. QueueTypes' /\ MainTypes'
    BY <1>31 DEF WriteFails, Report, Finish, TaskDone, Loop
  <2>2. RowTypes'
    BY <1>31 DEF WriteFails, Report, Finish, TaskDone, Loop
  <2>3. HandTypes'
    BY <1>31 DEF WriteFails, Report, Finish, TaskDone, Loop
  <2>4. /\ ready' = TRUE /\ displayGone' = TRUE /\ leaving' = FALSE
        /\ UNCHANGED <<lastSent, tries, timeouts, link, unanswered, faults>>
    BY <1>31 DEF WriteFails, Finish
  <2>5. reports' \in Nat
    BY <1>31 DEF WriteFails, Report
  <2> QED
    BY <2>1, <2>2, <2>3, <2>4, <2>5
<1>32. ASSUME StartIdleCheck PROVE Typed'
  BY <1>32 DEF StartIdleCheck
<1>33. ASSUME NEW r \in Rows, ReadIdleRow(r) PROVE Typed'
  <2>1. draw' \in [Drawers -> Stage] /\ raced' \in [Rows -> BOOLEAN]
    BY <1>33, DisturbedType DEF ReadIdleRow, ReadRace
  <2> QED
    BY <1>33, <2>1 DEF ReadIdleRow
<1>34. ASSUME PutIdleRefresh PROVE Typed'
  BY <1>34 DEF PutIdleRefresh
<1>35. ASSUME EndIdleCheck PROVE Typed'
  BY <1>35 DEF EndIdleCheck, Loop
<1>36. ASSUME Exit PROVE Typed'
  BY <1>36 DEF Exit
<1>37. ASSUME RenderLine PROVE Typed'
  BY <1>37 DEF RenderLine
<1>38. ASSUME AcknowledgeLine PROVE Typed'
  BY <1>38 DEF AcknowledgeLine
<1>39. ASSUME RejectLine PROVE Typed'
  BY <1>39 DEF RejectLine
<1>40. ASSUME SendUnsolicited PROVE Typed'
  BY <1>40 DEF SendUnsolicited
<1>41. ASSUME LoseLine PROVE Typed'
  BY <1>41 DEF LoseLine
<1>42. ASSUME NEW s \in {"up", "silent", "down"}, ChangeLink(s) PROVE Typed'
  BY <1>42 DEF ChangeLink
<1>43. CASE UNCHANGED vars
  BY <1>43 DEF vars
<1>44. \A r \in Rows : cells[r] \in Nat /\ cells[r] + 1 \in Nat
  BY DEF Typed, RowTypes
<1> HIDE DEF Typed, QueueTypes, RowTypes, MainTypes, HandTypes, FlagTypes, Mains, Senders,
     Packet, queueVars, rowVars, raceVars, mainVars, senderVars, gateVars, deviceVars, senderSide
<1> QED
  BY <1>44, <1>43, <1>1, <1>2, <1>3, <1>4, <1>5, <1>6, <1>7, <1>8, <1>9, <1>10, <1>11, <1>12, <1>13,
     <1>14, <1>15, <1>16, <1>17, <1>18, <1>19, <1>20, <1>21, <1>22, <1>23, <1>24,
     <1>25, <1>26, <1>27, <1>28, <1>29, <1>30, <1>31, <1>32, <1>33, <1>34, <1>35,
     <1>36, <1>37, <1>38, <1>39, <1>40, <1>41, <1>42 DEF
     Next, DrawerStep, DrawStep, MainStep, SenderStep, DeviceStep

-----------------------------------------------------------------------------
(* The queue never holds more than was put, and every packet in it or in   *)
(* the sender's hand is counted once.  Packets are told apart by their     *)
(* rank, which no packet of the queue has reached yet.                     *)
Counting ==
  /\ IsFiniteSet(queue)
  /\ \A p \in queue : p.n <= serial
  /\ unfinished = Cardinality(queue) + Taken

LEMMA QueueFinite == IsFiniteSet(queue) => Cardinality(queue) \in Nat
  BY FS_CardinalityType

(* A put counts the packet it adds. *)
LEMMA PutCounts ==
  ASSUME Typed, Counting, NEW p, p.n = serial + 1, queue' = queue \cup {p},
         serial' = serial + 1, unfinished' = unfinished + 1, Taken' = Taken
  PROVE  Counting'
<1>1. \A q \in queue : q.n \in Nat /\ q.n <= serial
  BY DEF Typed, QueueTypes, Packet, Counting
<1>2. serial \in Nat /\ Taken \in Nat
  BY DEF Typed, QueueTypes, Taken
<1>3. p \notin queue
  BY <1>1, <1>2
<1>4. IsFiniteSet(queue') /\ Cardinality(queue') = Cardinality(queue) + 1
  BY <1>3, FS_AddElement DEF Counting
<1>5. \A q \in queue' : q.n <= serial'
  BY <1>1, <1>2
<1>6. unfinished' = Cardinality(queue') + Taken'
  BY <1>2, <1>4, QueueFinite DEF Counting
<1> QED
  BY <1>4, <1>5, <1>6 DEF Counting

(* So does taking a packet from the queue, into the hand or out of it. *)
LEMMA TakeCounts ==
  ASSUME Typed, Counting, NEW p \in queue, queue' = queue \ {p}, serial' = serial,
         unfinished' - Taken' = unfinished - Taken - 1, unfinished' \in Int
  PROVE  Counting'
<1>1. IsFiniteSet(queue') /\ Cardinality(queue') = Cardinality(queue) - 1
  BY FS_RemoveElement DEF Counting
<1>2. Taken \in Nat /\ Taken' \in Nat
  BY DEF Taken
<1>3. unfinished' = Cardinality(queue') + Taken'
  BY <1>1, <1>2, QueueFinite DEF Counting
<1> QED
  BY <1>1, <1>3 DEF Counting

(* task_done() ends the count of the packet in hand. *)
LEMMA FinishCounts ==
  ASSUME Counting, Finish, UNCHANGED <<queue, serial, main>>, hand # NoPacket, pc # "idlePut"
  PROVE  Counting'
<1>1. Taken \in Nat /\ Taken' = Taken - 1
  BY DEF Finish, Taken
<1>2. unfinished' = Cardinality(queue') + Taken'
  BY <1>1, QueueFinite DEF Counting, Finish, TaskDone
<1> QED
  BY <1>2 DEF Counting

LEMMA CountingInit == Init => Counting
<1> SUFFICES ASSUME Init PROVE Counting
  OBVIOUS
<1> DEFINE f == [r \in Rows |-> [n |-> 1, row |-> r, frame |-> Blank, kind |-> "frame"]]
<1>1. f \in Surjection(Rows, queue)
  BY DEF Init, Surjection
<1>2. IsFiniteSet(queue)
  BY <1>1, FS_Surjection, RowsAssumption
<1>3. \A p \in queue : p.n <= serial
  BY DEF Init
<1>4. Taken = 0 /\ unfinished = Cardinality(queue)
  BY DEF Init, Taken
<1> QED
  BY <1>2, <1>3, <1>4, QueueFinite DEF Counting

LEMMA CountingNext == Typed /\ Counting /\ [Next]_vars => Counting'
<1> SUFFICES ASSUME Typed, Counting, [Next]_vars PROVE Counting'
  OBVIOUS
<1> USE NoPacketAssumption DEF queueVars, rowVars, raceVars, mainVars, senderVars, gateVars, deviceVars,
        senderSide
<1>1. ASSUME UNCHANGED <<queue, unfinished, serial>>, Taken' = Taken PROVE Counting'
  BY <1>1 DEF Counting
<1>2. ASSUME NEW d \in Drawers, NEW r \in Rows, Draw(d, r) PROVE Counting'
  BY <1>1, <1>2 DEF Draw, Taken
<1>3. ASSUME NEW d \in Drawers, CopyRow(d) PROVE Counting'
  BY <1>1, <1>3 DEF CopyRow, Taken
<1>4. ASSUME NEW d \in Drawers, PutFrame(d) PROVE Counting'
  <2> DEFINE p == NewPacket(draw[d].row, draw[d].frame, "frame")
  <2>1. /\ p.n = serial + 1 /\ queue' = queue \cup {p} /\ serial' = serial + 1
        /\ unfinished' = unfinished + 1 /\ Taken' = Taken
    BY <1>4 DEF PutFrame, Put, NewPacket, Taken
  <2> QED
    BY <2>1, PutCounts
<1>5. ASSUME NEW d \in Drawers, StampRow(d) PROVE Counting'
  BY <1>1, <1>5 DEF StampRow, Taken
<1>6. ASSUME StartRefresh PROVE Counting'
  BY <1>1, <1>6 DEF StartRefresh, Taken
<1>7. ASSUME NEW r \in Rows, ReadRow(r) PROVE Counting'
  BY <1>1, <1>7 DEF ReadRow, Taken
<1>8. ASSUME NEW r \in Rows, PutRefresh(r) PROVE Counting'
  <2> DEFINE p == NewPacket(r, seen, "refresh")
  <2>1. /\ p.n = serial + 1 /\ queue' = queue \cup {p} /\ serial' = serial + 1
        /\ unfinished' = unfinished + 1 /\ Taken' = Taken
    BY <1>8 DEF PutRefresh, Put, NewPacket, Taken
  <2> QED
    BY <2>1, PutCounts
<1>9. ASSUME StartTermination PROVE Counting'
  BY <1>1, <1>9 DEF StartTermination, Taken
<1>10. ASSUME BlockNewWrites PROVE Counting'
  BY <1>1, <1>10 DEF BlockNewWrites, Taken
<1>11. ASSUME NEW p \in queue, DrainOne(p) PROVE Counting'
  <2>1. unfinished \in Int
    BY QueueFinite DEF Counting, Taken
  <2>2. /\ queue' = queue \ {p} /\ serial' = serial
        /\ unfinished' - Taken' = unfinished - Taken - 1 /\ unfinished' \in Int
    BY <1>11, <2>1 DEF DrainOne, Taken
  <2> QED
    BY <2>2, TakeCounts
<1>12. ASSUME DrainedOne PROVE Counting'
  <2>1. Taken \in Nat /\ Taken' = Taken - 1
    BY <1>12 DEF DrainedOne, Taken
  <2> QED
    BY <1>12, <2>1, QueueFinite DEF DrainedOne, Counting
<1>13. ASSUME DrainEnds PROVE Counting'
  BY <1>1, <1>13 DEF DrainEnds, Taken
<1>14. ASSUME NEW r \in Rows, ClearRow(r) PROVE Counting'
  <2> DEFINE p == NewPacket(r, Blank, "frame")
  <2>1. /\ p.n = serial + 1 /\ queue' = queue \cup {p} /\ serial' = serial + 1
        /\ unfinished' = unfinished + 1 /\ Taken' = Taken
    BY <1>14 DEF ClearRow, Put, NewPacket, Taken
  <2> QED
    BY <2>1, PutCounts
<1>15. ASSUME FlushEnds PROVE Counting'
  BY <1>1, <1>15 DEF FlushEnds, Taken
<1>16. ASSUME JoinEnds PROVE Counting'
  BY <1>1, <1>16 DEF JoinEnds, Taken
<1>17. ASSUME NEW p \in queue, Take(p) PROVE Counting'
  <2>1. unfinished \in Int
    BY QueueFinite DEF Counting, Taken
  <2>2. /\ queue' = queue \ {p} /\ serial' = serial
        /\ unfinished' - Taken' = unfinished - Taken - 1 /\ unfinished' \in Int
    BY <1>17, <2>1 DEF Take, Taken, Typed, QueueTypes, HandTypes
  <2> QED
    BY <2>2, TakeCounts
<1>18. ASSUME DropPacket PROVE Counting'
  BY <1>18, FinishCounts DEF DropPacket, Taken, Typed, HandTypes
<1>19. ASSUME ExaminePacket PROVE Counting'
  BY <1>1, <1>19 DEF ExaminePacket, Taken
<1>20. ASSUME SlotOpens PROVE Counting'
  BY <1>1, <1>20 DEF SlotOpens, Taken
<1>21. ASSUME WaitExpires PROVE Counting'
  BY <1>1, <1>21 DEF WaitExpires, Taken
<1>22. ASSUME GiveUpLeaving PROVE Counting'
  BY <1>1, <1>22 DEF GiveUpLeaving, Taken
<1>23. ASSUME NoticeDisconnect PROVE Counting'
  BY <1>1, <1>23 DEF NoticeDisconnect, Taken
<1>24. ASSUME KeepWaiting PROVE Counting'
  BY <1>1, <1>24 DEF KeepWaiting, WaitAgain, Taken
<1>25. ASSUME RenderTimeout PROVE Counting'
  BY <1>1, <1>25 DEF RenderTimeout, Taken
<1>26. ASSUME ResendLine PROVE Counting'
  BY <1>1, <1>26 DEF ResendLine, WaitAgain, Taken
<1>27. ASSUME ResendFails PROVE Counting'
  BY <1>1, <1>27 DEF ResendFails, Taken
<1>28. ASSUME AbandonLine PROVE Counting'
  BY <1>1, <1>28 DEF AbandonLine, WaitAgain, Taken
<1>29. ASSUME GiveUpSlot PROVE Counting'
  BY <1>29, FinishCounts DEF GiveUpSlot, Taken, Typed, HandTypes
<1>30. ASSUME SendBytes PROVE Counting'
  BY <1>1, <1>30 DEF SendBytes, Taken
<1>31. ASSUME WriteReturns PROVE Counting'
  BY <1>31, FinishCounts DEF WriteReturns, Taken, Typed, HandTypes
<1>32. ASSUME WriteFails PROVE Counting'
  BY <1>32, FinishCounts DEF WriteFails, Taken, Typed, HandTypes
<1>33. ASSUME StartIdleCheck PROVE Counting'
  BY <1>1, <1>33 DEF StartIdleCheck, Taken, Typed, HandTypes
<1>34. ASSUME NEW r \in Rows, ReadIdleRow(r) PROVE Counting'
  BY <1>1, <1>34 DEF ReadIdleRow, Taken, Typed, HandTypes
<1>35. ASSUME PutIdleRefresh PROVE Counting'
  <2>1. CASE isTerminating
    BY <1>1, <1>35, <2>1 DEF PutIdleRefresh, Taken
  <2>2. CASE ~isTerminating
    <3> DEFINE p == [hand EXCEPT !.n = serial + 1]
    <3>1. hand \in Packet
      BY <1>35 DEF PutIdleRefresh, Typed, HandTypes
    <3>2. /\ p.n = serial + 1 /\ queue' = queue \cup {p} /\ serial' = serial + 1
          /\ unfinished' = unfinished + 1 /\ Taken' = Taken
      BY <1>35, <2>2, <3>1 DEF PutIdleRefresh, Taken, Packet
    <3> QED
      BY <3>2, PutCounts
  <2> QED
    BY <2>1, <2>2
<1>36. ASSUME EndIdleCheck PROVE Counting'
  BY <1>1, <1>36 DEF EndIdleCheck, Loop, Taken, Typed, HandTypes
<1>37. ASSUME Exit PROVE Counting'
  BY <1>1, <1>37 DEF Exit, Taken, Typed, HandTypes
<1>38. ASSUME RenderLine PROVE Counting'
  BY <1>1, <1>38 DEF RenderLine, Taken
<1>39. ASSUME AcknowledgeLine PROVE Counting'
  BY <1>1, <1>39 DEF AcknowledgeLine, Taken
<1>40. ASSUME RejectLine PROVE Counting'
  BY <1>1, <1>40 DEF RejectLine, Taken
<1>41. ASSUME SendUnsolicited PROVE Counting'
  BY <1>1, <1>41 DEF SendUnsolicited, Taken
<1>42. ASSUME LoseLine PROVE Counting'
  BY <1>1, <1>42 DEF LoseLine, Taken
<1>43. ASSUME NEW s \in {"up", "silent", "down"}, ChangeLink(s) PROVE Counting'
  BY <1>1, <1>43 DEF ChangeLink, Taken
<1>44. CASE UNCHANGED vars
  BY <1>1, <1>44 DEF vars, Taken
<1> HIDE DEF queueVars, rowVars, raceVars, mainVars, senderVars, gateVars, deviceVars, senderSide
<1> QED
  BY <1>44, <1>2, <1>3, <1>4, <1>5, <1>6, <1>7, <1>8, <1>9, <1>10, <1>11, <1>12, <1>13, <1>14,
     <1>15, <1>16, <1>17, <1>18, <1>19, <1>20, <1>21, <1>22, <1>23, <1>24, <1>25, <1>26,
     <1>27, <1>28, <1>29, <1>30, <1>31, <1>32, <1>33, <1>34, <1>35, <1>36, <1>37,
     <1>38, <1>39, <1>40, <1>41, <1>42, <1>43
     DEF Next, DrawerStep, DrawStep, MainStep, SenderStep, DeviceStep, Typed, RowTypes

-----------------------------------------------------------------------------
(* The driver's state keeps its types, whatever the threads and the        *)
(* display do, for every set of rows and every bound.                      *)
THEOREM TypeCorrect == Spec => []TypeOK
<1>1. Typed /\ Counting => TypeOK
  <2> SUFFICES ASSUME Typed, Counting PROVE TypeOK
    OBVIOUS
  <2>1. unfinished \in Nat
    BY QueueFinite DEF Counting, Taken
  <2> QED
    BY <2>1 DEF TypeOK, Typed, QueueTypes, RowTypes, MainTypes, HandTypes, FlagTypes, Stage
<1> QED
  BY <1>1, TypedInit, TypedNext, CountingInit, CountingNext, PTL DEF Spec

(* Every packet put on the queue is counted until the sender is done with  *)
(* it, so the wait for the queue to drain ends when nothing is left.       *)
THEOREM Accounting == Spec => []QueueAccounting
<1>1. Counting => QueueAccounting
  BY DEF Counting, QueueAccounting
<1> QED
  BY <1>1, TypedInit, TypedNext, CountingInit, CountingNext, PTL DEF Spec
=============================================================================
