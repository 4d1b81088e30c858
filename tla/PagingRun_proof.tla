--------------------------- MODULE PagingRun_proof ---------------------------
(***************************************************************************)
(* Proofs about the course of a run of the paging simulator: when the use  *)
(* of a frame ends, that the scan of that tick finds it, who may still     *)
(* wait then, what is in the output file, and last that the threads do     *)
(* together what PagingService promises.  They rest on the invariants of   *)
(* the hand-over and of the tables.                                        *)
(***************************************************************************)
EXTENDS PagingTables_proof, FiniteSetTheorems

InFrameQueue(f) == \E i \in 1 .. Len(frame_queue) : frame_queue[i] = f

OnceInQueue == \A i, j \in 1 .. Len(frame_queue) : frame_queue[i] = frame_queue[j] => i = j

(* Rows that have called and have no page yet.                             *)
Waits(r) == Queued(r) \/ IsWoken(r)

InRound == main_pc \in {"lock", "scan", "release", "waitReleased", "relock"}

(* The scan of this tick has passed frame f.                               *)
Scanned(f) == \/ main_pc \in {"release", "waitReleased", "relock"}
              \/ main_pc = "scan" /\ f < frame_ind

-----------------------------------------------------------------------------
(* What a step that gives a page to a row does to the frames. *)

(* A step changes frame f, and takes no other frame out of the queue.      *)
Touches(f) ==
  /\ frame_table'[f].end_time \in Int
  /\ \A g \in Frames : g # f => frame_table'[g] = frame_table[g]
  /\ \A g \in Frames : InFrameQueue(g)' => InFrameQueue(g)
  /\ \A g \in Frames : g # f /\ InFrameQueue(g) => InFrameQueue(g)'
  /\ OnceInQueue => OnceInQueue' /\ ~InFrameQueue(f)'

Prolonged(r, end) ==
  LET later == max(end, CallTime(r) + WorkTime(r))
  IN  IF later = g_current_time THEN later + WorkTime(r) ELSE later

ResidentEffect(r, f) ==
  /\ Touches(f)
  /\ frame_table[f].page_number = Page(r) /\ frame_table[f].end_time # Unused
  /\ frame_table'[f].page_number = Page(r)
  /\ frame_table'[f].end_time = Prolonged(r, frame_table[f].end_time)

EmptyEffect(r, f) ==
  /\ Touches(f)
  /\ frame_table[f].end_time = Unused
  /\ frame_table'[f].page_number = Page(r)
  /\ frame_table'[f].end_time = CallTime(r) + WorkTime(r)

EvictEffect(r, f) ==
  /\ Touches(f)
  /\ InFrameQueue(f)
  /\ frame_table'[f].page_number = Page(r)
  /\ frame_table'[f].end_time = max(frame_table[f].end_time, CallTime(r)) + WorkTime(r)

LEMMA UpdateEffect ==
  ASSUME SyncInv, TablesInv, NEW r \in Rows, thread_pc[r] # "none",
         page_table[Page(r)].valid,
         update_frame_in_table(Page(r), CallTime(r), WorkTime(r), g_current_time)
  PROVE  \E f \in Frames : ResidentEffect(r, f)
<1> DEFINE p == Page(r)
           end == new_end_of_use(p, CallTime(r), WorkTime(r), g_current_time)
<1>1. p \in Pages /\ CallTime(r) \in Int /\ WorkTime(r) \in Int /\ g_current_time \in Int
  BY RequestTypes DEF SyncInv, SyncTypeOK
<1>2. PICK f \in Frames :
        /\ f = page_table[p].frame_number
        /\ frame_table[f].page_number = p
        /\ frame_table[f].end_time = page_table[p].end_of_use
        /\ page_table[p].end_of_use >= 0 /\ page_table[p].end_of_use \in Int
  BY <1>1 DEF TablesInv, TableParts, PageToFrame, TablesTypeOK, PageEntry
<1>3. end = Prolonged(r, frame_table[f].end_time) /\ end \in Int
  BY <1>1, <1>2 DEF new_end_of_use, Prolonged, max
<1>4. /\ frame_table' = [frame_table EXCEPT ![f].end_time = end]
      /\ frame_queue' = RemoveFirst(frame_queue, f)
  BY <1>2 DEF update_frame_in_table, remove_frame_from_queue
<1>5. frame_table \in [Frames -> FrameEntry] /\ frame_queue \in Seq(Frames)
  BY DEF TablesInv, TableParts, TablesTypeOK
<1> HIDE DEF p, end
<1>6. /\ frame_table'[f].end_time = end /\ frame_table'[f].page_number = frame_table[f].page_number
      /\ \A g \in Frames : g # f => frame_table'[g] = frame_table[g]
  BY <1>2, <1>4, <1>5 DEF FrameEntry
<1>7. frame_queue' \in Seq(Frames)
  BY <1>4, <1>5, RemoveFirstProperties
<1>8. /\ \A i \in 1 .. Len(frame_queue') :
           \E j \in 1 .. Len(frame_queue) : frame_queue[j] = frame_queue'[i]
      /\ \A j \in 1 .. Len(frame_queue) : frame_queue[j] # f =>
           \E i \in 1 .. Len(frame_queue') : frame_queue'[i] = frame_queue[j]
      /\ OnceInQueue => ~Contains(frame_queue', f) /\ OnceInQueue'
  BY SMTT(30), <1>4, <1>5, RemoveFirstElements DEF OnceInQueue
<1>9. InFrameQueue(f)' => Contains(frame_queue', f)
  BY <1>7 DEF InFrameQueue, Contains
<1>10. Touches(f)
  BY <1>3, <1>6, <1>8, <1>9 DEF Touches, InFrameQueue
<1>11. frame_table[f].end_time # Unused
  BY <1>2 DEF Unused
<1>12. QED BY <1>2, <1>3, <1>6, <1>10, <1>11 DEF ResidentEffect, p

LEMMA UseEmptyEffect ==
  ASSUME SyncInv, TablesInv, NEW r \in Rows, UseEmptyFrame(r)
  PROVE  \E f \in Frames : EmptyEffect(r, f)
<1>1. CallTime(r) \in Int /\ WorkTime(r) \in Int
  BY RequestTypes DEF UseEmptyFrame
<1>2. PICK written \in BOOLEAN :
        update_empty_frame(Page(r), CallTime(r), WorkTime(r), written)
  BY DEF UseEmptyFrame
<1>3. PICK f \in Frames :
        /\ frame_table[f].end_time = Unused
        /\ frame_table' = [frame_table EXCEPT ![f] =
             [page_number |-> Page(r), end_time |-> CallTime(r) + WorkTime(r)]]
        /\ frame_queue' = frame_queue
  BY <1>2 DEF update_empty_frame, FirstEmptyFrame, EmptyFrames
<1>4. /\ frame_table'[f] = [page_number |-> Page(r), end_time |-> CallTime(r) + WorkTime(r)]
      /\ \A g \in Frames : g # f => frame_table'[g] = frame_table[g]
  BY <1>3 DEF TablesInv, TableParts, TablesTypeOK
<1>5. ~InFrameQueue(f)
  BY <1>3 DEF TablesInv, TableParts, QueuedUsed, InFrameQueue
<1>6. Touches(f)
  BY <1>1, <1>3, <1>4, <1>5 DEF Touches, InFrameQueue, OnceInQueue
<1>7. QED BY <1>3, <1>4, <1>6 DEF EmptyEffect

LEMMA EvictAndPlaceEffect ==
  ASSUME SyncInv, TablesInv, NEW r \in Rows, EvictAndPlace(r)
  PROVE  \E f \in Frames : f = Head(frame_queue) /\ EvictEffect(r, f)
<1>1. thread_pc[r] = "evict"
  BY DEF EvictAndPlace, ThreadGoto
<1>2. CallTime(r) \in Int /\ WorkTime(r) \in Int
  BY <1>1, RequestTypes
<1>3. PICK ew, pw \in BOOLEAN :
        evicte_and_place(CallTime(r), WorkTime(r), Page(r), ew, pw)
  BY DEF EvictAndPlace
<1>5. frame_queue \in Seq(Frames) /\ frame_queue # <<>> /\ frame_table \in [Frames -> FrameEntry]
  BY <1>1 DEF TablesInv, TableParts, TablesTypeOK, VictimInv, AvailableCountsQueue
<1>6. PICK f \in Frames : f = Head(frame_queue) /\ f = frame_queue[1] /\ 1 \in 1 .. Len(frame_queue)
  BY <1>5
<1> DEFINE end == max(frame_table[f].end_time, CallTime(r)) + WorkTime(r)
<1>4. /\ frame_table' = [frame_table EXCEPT ![f] = [page_number |-> Page(r), end_time |-> end]]
      /\ frame_queue' = Tail(frame_queue)
  BY <1>3, <1>6 DEF evicte_and_place
<1>7. end \in Int
  BY <1>2, <1>5, <1>6 DEF FrameEntry, max
<1> HIDE DEF end
<1>8. /\ frame_table'[f] = [page_number |-> Page(r), end_time |-> end]
      /\ \A g \in Frames : g # f => frame_table'[g] = frame_table[g]
  BY <1>4, <1>5, <1>6
<1>9. /\ Len(frame_queue') = Len(frame_queue) - 1
      /\ \A i \in 1 .. Len(frame_queue) - 1 : frame_queue'[i] = frame_queue[i + 1]
  BY <1>4, <1>5
<1>10. Len(frame_queue) \in Nat
  BY <1>5
<1>11. \A g \in Frames : InFrameQueue(g)' => InFrameQueue(g)
  <2> SUFFICES ASSUME NEW i \in 1 .. Len(frame_queue) - 1
               PROVE  \E j \in 1 .. Len(frame_queue) : frame_queue[j] = frame_queue'[i]
    BY <1>9 DEF InFrameQueue
  <2>1. i + 1 \in 1 .. Len(frame_queue)
    BY <1>10
  <2>2. QED BY <2>1, <1>9
<1>12. \A g \in Frames : g # f /\ InFrameQueue(g) => InFrameQueue(g)'
  <2> SUFFICES ASSUME NEW j \in 1 .. Len(frame_queue), frame_queue[j] # f
               PROVE  \E i \in 1 .. Len(frame_queue') : frame_queue'[i] = frame_queue[j]
    BY DEF InFrameQueue
  <2>1. j # 1
    BY <1>6
  <2>2. j - 1 \in 1 .. Len(frame_queue') /\ (j - 1) + 1 = j
    BY <1>9, <1>10, <2>1
  <2>3. QED BY <2>2, <1>9
<1>13. ASSUME OnceInQueue PROVE OnceInQueue' /\ ~InFrameQueue(f)'
  <2>1. \A i \in 1 .. Len(frame_queue') : i + 1 \in 1 .. Len(frame_queue) /\ i + 1 # 1
    BY <1>9, <1>10
  <2>2. OnceInQueue'
    <3> SUFFICES ASSUME NEW i \in 1 .. Len(frame_queue'), NEW j \in 1 .. Len(frame_queue'),
                        frame_queue'[i] = frame_queue'[j]
                 PROVE  i = j
      BY DEF OnceInQueue
    <3>1. frame_queue[i + 1] = frame_queue[j + 1]
      BY <1>9
    <3>2. i + 1 = j + 1
      BY <1>13, <2>1, <3>1 DEF OnceInQueue
    <3>3. QED BY <3>2, <1>9, <1>10
  <2>3. QED BY <1>6, <1>9, <1>13, <2>1, <2>2 DEF OnceInQueue, InFrameQueue
<1>14. Touches(f)
  BY <1>7, <1>8, <1>11, <1>12, <1>13 DEF Touches
<1>15. EvictEffect(r, f)
  BY <1>6, <1>8, <1>14 DEF EvictEffect, InFrameQueue, end
<1>16. QED BY <1>6, <1>15

-----------------------------------------------------------------------------
(* What the steps leave alone. *)

Placed(r, f) ==
  \/ thread_pc[r] \in {"place", "evict"} /\ ResidentEffect(r, f)
  \/ thread_pc[r] = "place" /\ EmptyEffect(r, f)
  \/ thread_pc[r] = "evict" /\ EvictEffect(r, f)

(* A step of a thread gives a page to its row, puts the row in the queue,  *)
(* or moves the thread on and leaves the tables alone.                     *)
LEMMA ThreadEffect ==
  ASSUME SyncInv, TablesInv, NEW r \in Rows, Thread(r)
  PROVE  /\ UNCHANGED thread_input
         /\ \/ UNCHANGED <<tables, thread_queue>>
            \/ /\ InFirstVisit(r) /\ UNCHANGED tables
               /\ thread_queue' = Append(thread_queue, r)
            \/ UNCHANGED thread_queue /\ \E f \in Frames : Placed(r, f)
<1>1. UNCHANGED thread_input
  BY DEF Thread, Enter, UseResidentPage, UseEmptyFrame, WaitForFrame, Unlock, SignalMain,
         TakeTurn, Reenter, UsePageBroughtIn, EvictAndPlace, SignalMainAgain, UnlockAgain
<1>2. CASE UseResidentPage(r) \/ UsePageBroughtIn(r)
  <2>1. /\ thread_pc[r] \in {"place", "evict"} /\ page_table[Page(r)].valid
        /\ update_frame_in_table(Page(r), CallTime(r), WorkTime(r), g_current_time)
        /\ UNCHANGED thread_queue
    BY <1>2 DEF UseResidentPage, UsePageBroughtIn, ThreadGoto
  <2>2. QED BY <1>1, <2>1, UpdateEffect DEF Placed
<1>3. CASE UseEmptyFrame(r)
  <2>1. UNCHANGED thread_queue /\ thread_pc[r] = "place"
    BY <1>3 DEF UseEmptyFrame
  <2>2. QED BY <1>1, <1>3, <2>1, UseEmptyEffect DEF Placed
<1>4. CASE EvictAndPlace(r)
  <2>1. UNCHANGED thread_queue /\ thread_pc[r] = "evict"
    BY <1>4 DEF EvictAndPlace, ThreadGoto
  <2>2. QED BY <1>1, <1>4, <2>1, EvictAndPlaceEffect DEF Placed
<1>5. CASE WaitForFrame(r)
  BY <1>1, <1>5 DEF WaitForFrame, add_to_thread_queue, InFirstVisit
<1>6. CASE Enter(r) \/ Unlock(r) \/ SignalMain(r) \/ TakeTurn(r)
  BY <1>1, <1>6 DEF Enter, Unlock, SignalMain, TakeTurn
<1>7. CASE Reenter(r) \/ SignalMainAgain(r) \/ UnlockAgain(r)
  BY <1>1, <1>7 DEF Reenter, SignalMainAgain, UnlockAgain
<1>8. QED BY <1>2, <1>3, <1>4, <1>5, <1>6, <1>7 DEF Thread

(* Where a thread goes from where.                                         *)
LEMMA ThreadMoves ==
  ASSUME SyncInv, NEW r \in Rows, Thread(r)
  PROVE  \/ thread_pc[r] = "enter" /\ thread_pc'[r] = "place"
         \/ thread_pc[r] = "place" /\ thread_pc'[r] \in {"unlock", "error"}
         \/ thread_pc[r] = "unlock" /\ thread_pc'[r] = "signal"
         \/ thread_pc[r] = "signal" /\ thread_pc'[r] \in {"success", "waitTurn"}
         \/ /\ thread_pc[r] = "waitTurn" /\ thread_pc'[r] = "reenter"
            /\ thread_semaphore[r] > 0
         \/ thread_pc[r] = "reenter" /\ thread_pc'[r] = "evict"
         \/ thread_pc[r] = "evict" /\ thread_pc'[r] = "resignal"
         \/ thread_pc[r] = "resignal" /\ thread_pc'[r] = "reunlock"
         \/ thread_pc[r] = "reunlock" /\ thread_pc'[r] = "success"
<1>0. thread_pc \in [Rows -> ThreadPC]
  BY DEF SyncInv, SyncTypeOK
<1>1. CASE Enter(r) \/ Unlock(r) \/ SignalMain(r)
  BY <1>0, <1>1 DEF Enter, Unlock, SignalMain, ThreadGoto
<1>2. CASE UseResidentPage(r) \/ UseEmptyFrame(r)
  BY <1>0, <1>2 DEF UseResidentPage, UseEmptyFrame, ThreadGoto
<1>3. CASE WaitForFrame(r)
  BY <1>0, <1>3 DEF WaitForFrame
<1>4. CASE TakeTurn(r) \/ Reenter(r)
  BY <1>0, <1>4 DEF TakeTurn, Reenter, ThreadGoto
<1>5. CASE UsePageBroughtIn(r) \/ EvictAndPlace(r)
  BY <1>0, <1>5 DEF UsePageBroughtIn, EvictAndPlace, ThreadGoto
<1>6. CASE SignalMainAgain(r) \/ UnlockAgain(r)
  BY <1>0, <1>6 DEF SignalMainAgain, UnlockAgain, ThreadGoto
<1>7. QED BY <1>1, <1>2, <1>3, <1>4, <1>5, <1>6 DEF Thread

(* A thread changes no semaphore but its own, when it takes its turn.      *)
LEMMA ThreadSemaphores ==
  ASSUME SyncInv, NEW r \in Rows, Thread(r)
  PROVE  /\ thread_pc[r] # "waitTurn" => UNCHANGED thread_semaphore
         /\ \A s \in Rows : s # r => thread_semaphore'[s] = thread_semaphore[s]
<1>0. thread_semaphore \in [Rows -> Int]
  BY DEF SyncInv, SyncTypeOK
<1>1. CASE TakeTurn(r)
  BY <1>0, <1>1 DEF TakeTurn, ThreadGoto
<1>2. CASE Enter(r) \/ Unlock(r) \/ SignalMain(r) \/ Reenter(r) \/ SignalMainAgain(r) \/ UnlockAgain(r)
  BY <1>2 DEF Enter, Unlock, SignalMain, Reenter, SignalMainAgain, UnlockAgain
<1>3. CASE UseResidentPage(r) \/ UsePageBroughtIn(r) \/ EvictAndPlace(r)
  BY <1>3 DEF UseResidentPage, UsePageBroughtIn, EvictAndPlace, syncVars
<1>4. CASE UseEmptyFrame(r) \/ WaitForFrame(r)
  BY <1>4 DEF UseEmptyFrame, WaitForFrame, syncVars
<1>5. QED BY <1>1, <1>2, <1>3, <1>4 DEF Thread

(* No step of a thread makes a thread start or wake up.                    *)
LEMMA ThreadWakesNobody ==
  ASSUME SyncInv, NEW r \in Rows, Thread(r), NEW s \in Rows
  PROVE  /\ InFirstVisit(s)' => InFirstVisit(s)
         /\ IsWoken(s)' => IsWoken(s)
         /\ thread_pc'[s] # "none" <=> thread_pc[s] # "none"
<1>1. CASE s # r
  <2>1. thread_pc'[s] = thread_pc[s] /\ thread_semaphore'[s] = thread_semaphore[s]
    BY <1>1, ThreadStep, ThreadSemaphores
  <2>2. QED BY <2>1 DEF InFirstVisit, IsWoken
<1>2. CASE s = r
  <2>1. InFirstVisit(r)' => InFirstVisit(r)
    BY ThreadMoves DEF InFirstVisit
  <2>2. thread_pc'[r] # "none" /\ thread_pc[r] # "none"
    BY ThreadMoves
  <2>3. IsWoken(r)' => IsWoken(r)
    <3>1. thread_pc[r] = "signal" => thread_semaphore'[r] = 0
      BY ThreadSemaphores DEF SyncInv, QueueInv, SleeperInv
    <3>2. QED BY <3>1, ThreadMoves DEF IsWoken
  <2>4. QED BY <1>2, <2>1, <2>2, <2>3
<1>3. QED BY <1>1, <1>2

(* Main changes each part of what it shares in one step only.              *)
LEMMA MainStep ==
  ASSUME SyncInv, Main
  PROVE  /\ UNCHANGED <<page_table, frame_table, update_table>>
         /\ g_current_time' = g_current_time \/ Tick \/ SpawnRow
         /\ next_row' = next_row \/ MoveToNextRow
         /\ frame_queue' = frame_queue \/ ScanFrame
         /\ (thread_queue' = thread_queue /\ thread_semaphore' = thread_semaphore) \/ ReleaseHead
         /\ main_pc' = "loop" => Tick
         /\ \/ SpawnRow
            \/ /\ UNCHANGED thread_input
               /\ \A r \in Rows : \/ thread_pc'[r] = thread_pc[r]
                                  \/ thread_pc[r] # "none" /\ thread_pc'[r] = "terminated"
<1>1. UNCHANGED <<page_table, frame_table, update_table>>
  BY DEF Main, LoopEnds, OrderError, NoRowNow, SpawnRow, MoveToNextRow,
     LockTables, ScanFrame, ScanDone, ReleaseHead, ThreadReleased, RelockTables, Tick,
     JoinThreads, FindLastEndTime, PrintRemains, Cleanup, tables, threadVars
<1>2. /\ g_current_time' = g_current_time \/ Tick \/ SpawnRow
      /\ next_row' = next_row \/ MoveToNextRow
  BY DEF Main, LoopEnds, OrderError, NoRowNow, SpawnRow, MoveToNextRow,
     LockTables, ScanFrame, ScanDone, ReleaseHead, ThreadReleased, RelockTables, Tick,
     JoinThreads, FindLastEndTime, PrintRemains, Cleanup
<1>3. frame_queue' = frame_queue \/ ScanFrame
  BY DEF Main, LoopEnds, OrderError, NoRowNow, SpawnRow, MoveToNextRow,
     LockTables, ScanFrame, ScanDone, ReleaseHead, ThreadReleased, RelockTables, Tick,
     JoinThreads, FindLastEndTime, PrintRemains, Cleanup, tables
<1>4. (thread_queue' = thread_queue /\ thread_semaphore' = thread_semaphore) \/ ReleaseHead
  BY DEF Main, LoopEnds, OrderError, NoRowNow, SpawnRow, MoveToNextRow,
     LockTables, ScanFrame, ScanDone, ThreadReleased, RelockTables, Tick,
     JoinThreads, FindLastEndTime, PrintRemains, Cleanup, syncVars
<1>5. main_pc' = "loop" => Tick
  BY DEF Main, LoopEnds, OrderError, NoRowNow, SpawnRow, MoveToNextRow, MainGoto, MainError,
     LockTables, ScanFrame, ScanDone, ReleaseHead, ThreadReleased, RelockTables,
     JoinThreads, FindLastEndTime, PrintRemains, Cleanup
<1>6. CASE Cleanup
  BY <1>1, <1>2, <1>3, <1>4, <1>5, <1>6 DEF Cleanup, Ended
<1>7. CASE ~Cleanup
  <2>1. SpawnRow \/ UNCHANGED <<thread_input, thread_pc>>
    BY <1>7 DEF Main, LoopEnds, OrderError, NoRowNow, MoveToNextRow,
     LockTables, ScanFrame, ScanDone, ReleaseHead, ThreadReleased, RelockTables, Tick,
     JoinThreads, FindLastEndTime, PrintRemains, threadVars
  <2>2. QED BY <1>1, <1>2, <1>3, <1>4, <1>5, <2>1
<1>8. QED BY <1>6, <1>7

-----------------------------------------------------------------------------
(* When the rows called. *)

(* A row called when main started its thread, and its first visit takes no *)
(* time; once main looks for the next row its call lies in the past.       *)
CallInv ==
  /\ next_row.work_time \in WorkTimes
  /\ \A r \in Rows : thread_pc[r] # "none" =>
       /\ CallTime(r) =< g_current_time
       /\ main_pc = "loop" => CallTime(r) < g_current_time
       /\ InFirstVisit(r) => CallTime(r) = g_current_time
       /\ WorkTime(r) \in WorkTimes

LEMMA SpawnRowKeepsCall ==
  ASSUME SyncInv, TablesInv, CallInv, SpawnRow
  PROVE  CallInv'
<1>0. current_row_ind \in Rows /\ g_current_time \in Int /\ main_pc = "loop"
  BY SpawnsARow, SimAssumption DEF SyncInv, SyncTypeOK, Rows, SimAssumption, SpawnRow
<1>1. main_pc' # "loop" /\ next_row' = next_row /\ g_current_time' = loop_time
      /\ loop_time \in {g_current_time, g_current_time - 1}
  BY DEF SpawnRow, MainError, loop_time
<1>2. \/ thread_pc' = thread_pc
      \/ thread_pc' = [thread_pc EXCEPT ![current_row_ind] = "enter"]
  BY DEF SpawnRow
<1>3. /\ \A r \in Rows : r # current_row_ind => thread_input'[r] = thread_input[r]
      /\ thread_input'[current_row_ind].call_time = loop_time
      /\ thread_input'[current_row_ind].work_time = next_row.work_time
  BY <1>0 DEF SpawnRow, TablesInv, LocalsTypeOK
<1>4. thread_pc[current_row_ind] = "none"
  BY <1>0 DEF SpawnRow, SyncInv, QueueInv, SleeperInv
<1>5. ASSUME NEW r \in Rows, thread_pc'[r] # "none"
      PROVE  /\ CallTime(r)' =< g_current_time'
             /\ InFirstVisit(r)' => CallTime(r)' = g_current_time'
             /\ WorkTime(r)' \in WorkTimes
  <2>1. CASE r = current_row_ind
    BY <1>1, <1>3, <2>1, <1>0 DEF CallTime, WorkTime, CallInv
  <2>2. CASE r # current_row_ind
    <3>1. thread_pc'[r] = thread_pc[r] /\ thread_pc[r] # "none"
      BY <1>2, <1>5, <2>2 DEF SyncInv, SyncTypeOK
    <3>2. CallTime(r) < g_current_time /\ CallTime(r) \in Int /\ WorkTime(r) \in WorkTimes
      BY <1>0, <3>1, RequestTypes DEF CallInv
    <3>3. ~InFirstVisit(r)
      BY <1>0 DEF SyncInv, HandOver
    <3>4. QED BY <1>0, <1>1, <1>3, <2>2, <3>1, <3>2, <3>3 DEF CallTime, WorkTime, InFirstVisit
  <2>3. QED BY <2>1, <2>2
<1>6. QED BY <1>1, <1>5 DEF CallInv

LEMMA NextCall == SyncInv /\ TablesInv /\ CallInv /\ [Next]_vars => CallInv'
<1> SUFFICES ASSUME SyncInv, TablesInv, CallInv, [Next]_vars PROVE CallInv'
  OBVIOUS
<1>0. g_current_time \in Int
  BY DEF SyncInv, SyncTypeOK
<1>1. ASSUME Main, ~SpawnRow PROVE CallInv'
  <2>1. next_row'.work_time \in WorkTimes
    BY <1>1, MainStep DEF MoveToNextRow, get_next_line, CallInv
  <2>2. ASSUME NEW r \in Rows, thread_pc'[r] # "none"
        PROVE  /\ CallTime(r)' =< g_current_time'
               /\ main_pc' = "loop" => CallTime(r)' < g_current_time'
               /\ InFirstVisit(r)' => CallTime(r)' = g_current_time'
               /\ WorkTime(r)' \in WorkTimes
    <3>1. /\ thread_input' = thread_input /\ thread_pc[r] # "none"
          /\ thread_pc'[r] = thread_pc[r] \/ thread_pc'[r] = "terminated"
      BY <1>1, <2>2, MainStep
    <3>2. CallTime(r)' = CallTime(r) /\ WorkTime(r)' = WorkTime(r) /\ CallTime(r) \in Int
      BY <3>1, RequestTypes DEF CallTime, WorkTime
    <3>3. CallTime(r) =< g_current_time /\ WorkTime(r) \in WorkTimes
      BY <3>1 DEF CallInv
    <3>4. InFirstVisit(r)' => InFirstVisit(r) /\ CallTime(r) = g_current_time
      BY <3>1 DEF InFirstVisit, CallInv
    <3>5. CASE Tick
      <4>1. main_pc = "release" /\ g_current_time' = g_current_time + 1
        BY <3>5 DEF Tick, MainGoto
      <4>2. ~InFirstVisit(r)
        BY <4>1 DEF SyncInv, HandOver
      <4>3. QED BY <1>0, <3>2, <3>3, <3>4, <4>1, <4>2
    <3>6. CASE ~Tick
      <4>1. g_current_time' = g_current_time /\ main_pc' # "loop"
        BY <1>1, <3>6, MainStep
      <4>2. QED BY <3>2, <3>3, <3>4, <4>1
    <3>7. QED BY <3>5, <3>6
  <2>3. QED BY <2>1, <2>2 DEF CallInv
<1>2. ASSUME NEW r \in Rows, Thread(r) PROVE CallInv'
  <2>1. UNCHANGED <<next_row, main_pc, g_current_time, thread_input>>
    BY <1>2, ThreadStep, ThreadEffect DEF mainVars
  <2>2. \A s \in Rows : /\ InFirstVisit(s)' => InFirstVisit(s)
                        /\ thread_pc'[s] # "none" <=> thread_pc[s] # "none"
    BY <1>2, ThreadWakesNobody
  <2>3. QED BY <2>1, <2>2 DEF CallInv, CallTime, WorkTime
<1>3. ASSUME UNCHANGED vars PROVE CallInv'
  BY <1>3 DEF vars, mainVars, threadVars, CallInv, CallTime, WorkTime, InFirstVisit
<1>4. QED BY <1>1, <1>2, <1>3, SpawnRowKeepsCall DEF Next, Exited

THEOREM CallInvariant == Spec => []CallInv
<1>1. Init => CallInv
  BY DEF Init, CallInv
<1>2. QED BY <1>1, NextCall, SyncInvariant, TablesInvariant, PTL DEF Spec

-----------------------------------------------------------------------------
(* Nobody waits while there is something to use. *)

(* At the end of a tick no row is left that waits, or no frame; so a row   *)
(* that waits has called now, or finds only frames whose use ended now.    *)
FreshInv ==
  /\ main_pc = "loop" /\ thread_queue # <<>> => frame_queue = <<>>
  /\ \A r \in Rows : Waits(r) =>
       \/ CallTime(r) = g_current_time
       \/ \A f \in Frames : InFrameQueue(f) => frame_table[f].end_time >= g_current_time

(* Nobody's use of a frame gets shorter.                                   *)
LEMMA UseGetsLonger ==
  ASSUME SyncInv, TablesInv, NEW r \in Rows, NEW f \in Frames, Placed(r, f),
         thread_pc[r] # "none", InFrameQueue(f)
  PROVE  frame_table'[f].end_time >= frame_table[f].end_time
<1>1. CallTime(r) \in Int /\ WorkTime(r) \in Nat /\ frame_table[f].end_time \in Int
  BY RequestTypes DEF TablesInv, TableParts, TablesTypeOK, FrameEntry
<1>2. frame_table[f].end_time # Unused
  BY DEF InFrameQueue, TablesInv, TableParts, QueuedUsed
<1>3. QED BY <1>1, <1>2 DEF Placed, ResidentEffect, EmptyEffect, EvictEffect, Prolonged, max

LEMMA ThreadKeepsFresh ==
  ASSUME SyncInv, TablesInv, CallInv, FreshInv, NEW r \in Rows, Thread(r)
  PROVE  FreshInv'
<1>1. UNCHANGED <<main_pc, g_current_time, thread_input>> /\ main_pc # "loop"
  <2>1. Visiting(r) => main_pc # "loop"
    BY DEF SyncInv, HandOver, Visiting
  <2>2. QED BY <2>1, ThreadStep, ThreadEffect DEF mainVars
<1>2. ASSUME NEW s \in Rows, Waits(s)' PROVE Waits(s) \/ CallTime(s) = g_current_time
  <2>1. IsWoken(s)' => IsWoken(s)
    BY ThreadWakesNobody
  <2>2. CASE UNCHANGED thread_queue
    BY <1>2, <2>1, <2>2 DEF Waits, Queued
  <2>3. CASE InFirstVisit(r) /\ thread_queue' = Append(thread_queue, r)
    <3>1. Queued(s)' => Queued(s) \/ s = r
      BY <2>3 DEF Queued, SyncInv, SyncTypeOK
    <3>2. CallTime(r) = g_current_time
      BY <2>3 DEF CallInv, InFirstVisit
    <3>3. QED BY <1>2, <2>1, <3>1, <3>2 DEF Waits
  <2>4. QED BY <2>2, <2>3, ThreadEffect
<1>3. ASSUME NEW f \in Frames, InFrameQueue(f)'
      PROVE  InFrameQueue(f) /\ frame_table'[f].end_time >= frame_table[f].end_time
             /\ frame_table[f].end_time \in Int /\ frame_table'[f].end_time \in Int
  <2>0. \A g \in Frames : frame_table[g].end_time \in Int
    BY DEF TablesInv, TableParts, TablesTypeOK, FrameEntry
  <2>1. CASE UNCHANGED tables
    BY <1>3, <2>0, <2>1 DEF tables, InFrameQueue
  <2>2. CASE \E g \in Frames : Placed(r, g)
    <3>1. PICK g \in Frames : Placed(r, g)
      BY <2>2
    <3>2. Touches(g)
      BY <3>1 DEF Placed, ResidentEffect, EmptyEffect, EvictEffect
    <3>3. InFrameQueue(f) /\ frame_table'[g].end_time \in Int
          /\ (f # g => frame_table'[f] = frame_table[f])
      BY <1>3, <3>2 DEF Touches
    <3>4. thread_pc[r] # "none"
      BY ThreadMoves
    <3>5. QED BY <2>0, <3>1, <3>3, <3>4, UseGetsLonger
  <2>3. QED BY <2>1, <2>2, ThreadEffect
<1>4. g_current_time \in Int
  BY DEF SyncInv, SyncTypeOK
<1>5. ASSUME NEW s \in Rows, Waits(s)', CallTime(s)' # g_current_time', NEW f \in Frames, InFrameQueue(f)'
      PROVE  frame_table'[f].end_time >= g_current_time'
  <2>1. CallTime(s) # g_current_time
    BY <1>1, <1>5 DEF CallTime
  <2>2. frame_table[f].end_time >= g_current_time
    BY <1>2, <1>3, <1>5, <2>1 DEF FreshInv
  <2>3. QED BY <1>1, <1>3, <1>4, <1>5, <2>2
<1>6. QED BY <1>1, <1>5 DEF FreshInv

(* At these points of main no thread is awake.                             *)
LEMMA NobodyAwake ==
  ASSUME SyncInv, main_pc \notin {"waitPlaced", "waitReleased", "relock"}, NEW r \in Rows
  PROVE  ~IsWoken(r) /\ ~InFirstVisit(r) /\ ~InSecondVisit(r)
BY DEF SyncInv, HandOver, IsWoken, InSecondVisit

LEMMA SpawnRowKeepsFresh ==
  ASSUME SyncInv, TablesInv, FreshInv, SpawnRow
  PROVE  FreshInv'
<1>1. /\ main_pc = "loop" /\ main_pc' # "loop"
      /\ UNCHANGED <<frame_table, frame_queue, thread_queue, thread_semaphore>>
  BY DEF SpawnRow, MainError, tables, syncVars
<1>2. \A r \in Rows : thread_pc'[r] \in {thread_pc[r], "enter"}
  BY DEF SpawnRow, SyncInv, SyncTypeOK
<1>3. ASSUME NEW r \in Rows, Waits(r)' PROVE thread_queue # <<>>
  <2>1. ~IsWoken(r)
    BY <1>1, NobodyAwake
  <2>2. ~IsWoken(r)'
    BY <1>1, <1>2, <2>1 DEF IsWoken
  <2>3. QED BY <1>1, <1>3, <2>2 DEF Waits, Queued, SyncInv, SyncTypeOK
<1>4. thread_queue # <<>> => \A f \in Frames : ~InFrameQueue(f)'
  BY <1>1 DEF FreshInv, InFrameQueue
<1>5. QED BY <1>1, <1>3, <1>4 DEF FreshInv

LEMMA ScanFrameKeepsFresh ==
  ASSUME SyncInv, TablesInv, FreshInv, ScanFrame
  PROVE  FreshInv'
<1>1. /\ main_pc' # "loop"
      /\ UNCHANGED <<frame_table, thread_queue, thread_semaphore, thread_pc, thread_input, g_current_time>>
      /\ g_current_time \in Int
  BY DEF ScanFrame, MainError, syncVars, threadVars, SyncInv, SyncTypeOK
<1>2. \A r \in Rows : (Waits(r)' <=> Waits(r)) /\ CallTime(r)' = CallTime(r)
  BY <1>1 DEF Waits, Queued, IsWoken, CallTime
<1>3. ASSUME NEW f \in Frames, InFrameQueue(f)'
      PROVE  InFrameQueue(f) \/ frame_table[f].end_time = g_current_time
  <2>1. CASE UNCHANGED frame_queue
    BY <1>3, <2>1 DEF InFrameQueue
  <2>2. CASE /\ frame_queue' = Append(frame_queue, frame_ind)
             /\ frame_table[frame_ind].end_time = g_current_time
    <3>1. frame_queue \in Seq(Frames)
      BY DEF TablesInv, TableParts, TablesTypeOK
    <3>2. InFrameQueue(f) \/ f = frame_ind
      BY <1>3, <2>2, <3>1 DEF InFrameQueue
    <3>3. QED BY <2>2, <3>2
  <2>3. QED BY <2>1, <2>2 DEF ScanFrame, add_to_frame_queue
<1>4. QED BY <1>1, <1>2, <1>3 DEF FreshInv

LEMMA ReleaseHeadKeepsFresh ==
  ASSUME SyncInv, TablesInv, FreshInv, ReleaseHead
  PROVE  FreshInv'
<1>1. /\ main_pc = "release" /\ main_pc' # "loop"
      /\ UNCHANGED <<frame_table, frame_queue, thread_pc, thread_input, g_current_time>>
  BY DEF ReleaseHead, MainGoto, tables, threadVars
<1>2. /\ thread_queue \in Seq(Rows) /\ thread_queue # <<>>
      /\ thread_queue' = Tail(thread_queue)
      /\ thread_semaphore' = [thread_semaphore EXCEPT ![Head(thread_queue)] = @ + 1]
      /\ thread_semaphore \in [Rows -> Int]
  BY DEF ReleaseHead, SyncInv, SyncTypeOK
<1>3. /\ Head(thread_queue) = thread_queue[1] /\ 1 \in 1 .. Len(thread_queue)
      /\ Head(thread_queue) \in Rows /\ Len(thread_queue) \in Nat
      /\ Len(thread_queue') = Len(thread_queue) - 1
      /\ \A i \in 1 .. Len(thread_queue) - 1 : thread_queue'[i] = thread_queue[i + 1]
  BY <1>2
<1>4. ASSUME NEW r \in Rows, Waits(r)' PROVE Waits(r)
  <2>1. CASE r = Head(thread_queue)
    BY <1>3, <2>1 DEF Waits, Queued
  <2>2. CASE r # Head(thread_queue) /\ IsWoken(r)'
    BY <1>1, <1>2, <2>2 DEF Waits, IsWoken
  <2>3. CASE Queued(r)'
    <3>1. PICK i \in 1 .. Len(thread_queue) - 1 : thread_queue[i + 1] = r
      BY <1>3, <2>3 DEF Queued
    <3>2. i + 1 \in 1 .. Len(thread_queue)
      BY <1>3
    <3>3. QED BY <3>1, <3>2 DEF Waits, Queued
  <2>4. QED BY <1>4, <2>1, <2>2, <2>3 DEF Waits
<1>5. QED BY <1>1, <1>4 DEF FreshInv, InFrameQueue, CallTime

LEMMA TickKeepsFresh ==
  ASSUME SyncInv, TablesInv, FreshInv, Tick
  PROVE  FreshInv'
<1>1. /\ main_pc = "release"
      /\ UNCHANGED <<frame_queue, thread_queue, thread_pc, thread_semaphore>>
      /\ thread_queue = <<>> \/ available_frame =< 0
  BY DEF Tick, MainGoto, tables, threadVars
<1>2. thread_queue = <<>> \/ frame_queue = <<>>
  BY <1>1 DEF TablesInv, TableParts, AvailableCountsQueue, TablesTypeOK
<1>3. ASSUME NEW r \in Rows, Waits(r)' PROVE thread_queue # <<>>
  <2>1. ~IsWoken(r)'
    BY <1>1, NobodyAwake DEF IsWoken
  <2>2. QED BY <1>1, <1>3, <2>1 DEF Waits, Queued, SyncInv, SyncTypeOK
<1>4. frame_queue = <<>> => \A f \in Frames : ~InFrameQueue(f)'
  BY <1>1 DEF InFrameQueue
<1>5. QED BY <1>1, <1>2, <1>3, <1>4 DEF FreshInv

LEMMA NextFresh == SyncInv /\ TablesInv /\ CallInv /\ FreshInv /\ [Next]_vars => FreshInv'
<1> SUFFICES ASSUME SyncInv, TablesInv, CallInv, FreshInv, [Next]_vars PROVE FreshInv'
  OBVIOUS
<1>1. ASSUME Main, ~SpawnRow, ~ScanFrame, ~ReleaseHead, ~Tick PROVE FreshInv'
  <2>1. /\ UNCHANGED <<frame_table, frame_queue, thread_queue, thread_semaphore, thread_input, g_current_time>>
        /\ main_pc' # "loop"
        /\ \A r \in Rows : thread_pc'[r] \in {thread_pc[r], "terminated"}
    BY <1>1, MainStep
  <2>2. \A r \in Rows : Waits(r)' => Waits(r)
    BY <2>1 DEF Waits, Queued, IsWoken
  <2>3. QED BY <2>1, <2>2 DEF FreshInv, InFrameQueue, CallTime
<1>2. ASSUME NEW r \in Rows, Thread(r) PROVE FreshInv'
  BY <1>2, ThreadKeepsFresh
<1>3. ASSUME UNCHANGED vars PROVE FreshInv'
  BY <1>3 DEF vars, tables, mainVars, threadVars, syncVars, FreshInv, Waits, Queued, IsWoken,
              InFrameQueue, CallTime
<1>4. QED
  BY <1>1, <1>2, <1>3, SpawnRowKeepsFresh, ScanFrameKeepsFresh, ReleaseHeadKeepsFresh,
     TickKeepsFresh DEF Next, Exited

THEOREM FreshInvariant == Spec => []FreshInv
<1>1. Init => FreshInv
  BY DEF Init, initial_tables, FreshInv, Waits, Queued, IsWoken
<1>2. QED BY <1>1, NextFresh, SyncInvariant, TablesInvariant, CallInvariant, PTL DEF Spec

-----------------------------------------------------------------------------
(* No frame is lost. *)

(* A work time of 0 loses frames; the files this is about have none.       *)
PositiveWork == 0 \notin WorkTimes

(* The scan of a tick queues every frame whose use ends in that tick.      *)
ScanInv ==
  \A f \in Frames :
    /\ frame_table[f].end_time # Unused
    /\ \/ frame_table[f].end_time < g_current_time
       \/ Scanned(f) /\ frame_table[f].end_time = g_current_time
    => InFrameQueue(f)

(* The use that a row is given ends after this tick, whose scan has passed *)
(* already when the row was woken by it.                                   *)
LEMMA PlacedEndsLater ==
  ASSUME PositiveWork, SyncInv, TablesInv, CallInv, FreshInv, ScanInv,
         NEW r \in Rows, NEW f \in Frames, Placed(r, f)
  PROVE  frame_table'[f].end_time > g_current_time
<1>1. thread_pc[r] \in {"place", "evict"}
  BY DEF Placed
<1>2. /\ CallTime(r) \in Int /\ WorkTime(r) \in Nat /\ WorkTime(r) > 0
      /\ CallTime(r) =< g_current_time /\ g_current_time \in Int
  BY <1>1, RequestTypes DEF CallInv, PositiveWork, SyncInv, SyncTypeOK
<1>3. frame_table[f].end_time \in Int
  BY DEF TablesInv, TableParts, TablesTypeOK, FrameEntry
<1>4. CASE thread_pc[r] = "place"
  <2>1. CallTime(r) = g_current_time
    BY <1>4 DEF CallInv, InFirstVisit
  <2>2. QED BY <1>2, <1>3, <1>4, <2>1 DEF Placed, ResidentEffect, EmptyEffect, Prolonged, max
<1>5. CASE thread_pc[r] = "evict"
  <2>1. Waits(r) /\ main_pc = "waitReleased"
    BY <1>5 DEF Waits, IsWoken, SyncInv, HandOver, InSecondVisit
  <2>2. \/ CallTime(r) = g_current_time
        \/ InFrameQueue(f) => frame_table[f].end_time >= g_current_time
    BY <2>1 DEF FreshInv
  <2>3. CASE ResidentEffect(r, f)
    <3>1. ~InFrameQueue(f) => frame_table[f].end_time > g_current_time
      BY <1>2, <1>3, <2>1, <2>3 DEF ResidentEffect, ScanInv, Scanned
    <3>2. QED BY <1>2, <1>3, <2>2, <2>3, <3>1 DEF ResidentEffect, Prolonged, max
  <2>4. CASE EvictEffect(r, f)
    BY <1>2, <1>3, <2>2, <2>4 DEF EvictEffect, max
  <2>5. QED BY <1>5, <2>3, <2>4 DEF Placed
<1>6. QED BY <1>1, <1>4, <1>5

LEMMA ThreadKeepsScan ==
  ASSUME PositiveWork, SyncInv, TablesInv, CallInv, FreshInv, ScanInv, NEW r \in Rows, Thread(r)
  PROVE  ScanInv'
<1>1. UNCHANGED <<main_pc, frame_ind, g_current_time>> /\ g_current_time \in Int
  BY ThreadStep DEF mainVars, SyncInv, SyncTypeOK
<1>2. CASE UNCHANGED tables
  BY <1>1, <1>2 DEF tables, ScanInv, Scanned, InFrameQueue
<1>3. CASE \E f \in Frames : Placed(r, f)
  <2>1. PICK f \in Frames : Placed(r, f)
    BY <1>3
  <2>2. /\ frame_table'[f].end_time > g_current_time /\ frame_table'[f].end_time \in Int
        /\ \A g \in Frames : g # f => frame_table'[g] = frame_table[g]
        /\ \A g \in Frames : g # f /\ InFrameQueue(g) => InFrameQueue(g)'
    BY <2>1, PlacedEndsLater DEF Placed, ResidentEffect, EmptyEffect, EvictEffect, Touches
  <2>3. ASSUME NEW g \in Frames, frame_table'[g].end_time # Unused,
               \/ frame_table'[g].end_time < g_current_time'
               \/ Scanned(g)' /\ frame_table'[g].end_time = g_current_time'
        PROVE  InFrameQueue(g)'
    <3>1. g # f
      BY <1>1, <2>2, <2>3
    <3>2. Scanned(g)' <=> Scanned(g)
      BY <1>1 DEF Scanned
    <3>3. QED BY <1>1, <2>2, <2>3, <3>1, <3>2 DEF ScanInv
  <2>4. QED BY <2>3 DEF ScanInv
<1>4. QED BY <1>2, <1>3, ThreadEffect

LEMMA ScanFrameKeepsScan ==
  ASSUME SyncInv, TablesInv, ScanInv, ScanFrame
  PROVE  ScanInv'
<1>1. /\ UNCHANGED <<frame_table, g_current_time>> /\ frame_ind \in Frames
      /\ main_pc = "scan"
  BY TablesAssumption DEF ScanFrame, SyncInv, SyncTypeOK, Frames, TablesAssumption
<1>2. frame_queue \in Seq(Frames)
  BY DEF TablesInv, TableParts, TablesTypeOK
<1>3. frame_queue' \in {frame_queue, Append(frame_queue, frame_ind)}
  BY DEF ScanFrame, add_to_frame_queue
<1>4. \A f \in Frames : InFrameQueue(f) => InFrameQueue(f)'
  BY <1>1, <1>2, <1>3 DEF InFrameQueue
<1>5. ASSUME NEW f \in Frames, Scanned(f)', frame_table[f].end_time = g_current_time
      PROVE  Scanned(f) \/ InFrameQueue(f)'
  <2>1. main_pc' = "scan" /\ frame_ind' = frame_ind + 1 /\ f < frame_ind + 1
    BY <1>5 DEF ScanFrame, Scanned, MainError
  <2>2. CASE f = frame_ind
    <3>1. frame_queue' = Append(frame_queue, frame_ind)
      BY <1>5, <2>1, <2>2 DEF ScanFrame, add_to_frame_queue, MainError
    <3>2. /\ Len(frame_queue) + 1 \in 1 .. Len(frame_queue')
          /\ frame_queue'[Len(frame_queue) + 1] = frame_ind
      BY <1>1, <1>2, <3>1
    <3>3. QED BY <2>2, <3>2 DEF InFrameQueue
  <2>3. CASE f # frame_ind
    BY <1>1, <2>1, <2>3 DEF Scanned, Frames
  <2>4. QED BY <2>2, <2>3
<1>6. QED BY <1>1, <1>4, <1>5 DEF ScanInv

LEMMA NextScan ==
  PositiveWork /\ SyncInv /\ TablesInv /\ CallInv /\ FreshInv /\ ScanInv /\ [Next]_vars => ScanInv'
<1> SUFFICES ASSUME PositiveWork, SyncInv, TablesInv, CallInv, FreshInv, ScanInv, [Next]_vars
             PROVE  ScanInv'
  OBVIOUS
<1>0. g_current_time \in Int /\ \A f \in Frames : frame_table[f].end_time \in Int
  BY DEF SyncInv, SyncTypeOK, TablesInv, TableParts, TablesTypeOK, FrameEntry
<1>1. CASE SpawnRow
  <2>1. /\ UNCHANGED <<frame_table, frame_queue>>
        /\ main_pc' \notin {"scan", "release", "waitReleased", "relock"}
        /\ g_current_time' \in {g_current_time, g_current_time - 1}
    BY <1>1 DEF SpawnRow, MainError, tables, loop_time
  <2>2. QED BY <1>0, <2>1 DEF ScanInv, Scanned, InFrameQueue
<1>2. CASE Tick
  <2>1. /\ UNCHANGED <<frame_table, frame_queue>> /\ main_pc = "release" /\ main_pc' = "loop"
        /\ g_current_time' = g_current_time + 1
    BY <1>2 DEF Tick, MainGoto, tables
  <2>2. QED BY <1>0, <2>1 DEF ScanInv, Scanned, InFrameQueue
<1>3. ASSUME Main, ~SpawnRow, ~ScanFrame, ~Tick PROVE ScanInv'
  <2>1. UNCHANGED <<frame_table, frame_queue, g_current_time>>
    BY <1>3, MainStep
  <2>2. ASSUME NEW f \in Frames, Scanned(f)' PROVE Scanned(f)
    <3>1. CASE LockTables
      BY <2>2, <3>1 DEF LockTables, MainGoto, Scanned, Frames
    <3>2. CASE ScanDone
      BY <3>2, TablesAssumption DEF ScanDone, MainGoto, Scanned, Frames, TablesAssumption
    <3>3. CASE ReleaseHead \/ ThreadReleased \/ RelockTables
      BY <3>3 DEF ReleaseHead, ThreadReleased, RelockTables, MainGoto, Scanned
    <3>4. CASE LoopEnds \/ OrderError \/ NoRowNow \/ MoveToNextRow
      BY <2>2, <3>4 DEF LoopEnds, OrderError, NoRowNow, MoveToNextRow, MainGoto, MainError, Scanned
    <3>5. CASE JoinThreads \/ FindLastEndTime \/ PrintRemains \/ Cleanup
      BY <2>2, <3>5 DEF JoinThreads, FindLastEndTime, PrintRemains, Cleanup, MainGoto, MainError, Scanned
    <3>6. QED BY <1>3, <3>1, <3>2, <3>3, <3>4, <3>5 DEF Main
  <2>3. QED BY <2>1, <2>2 DEF ScanInv, InFrameQueue
<1>4. ASSUME NEW r \in Rows, Thread(r) PROVE ScanInv'
  BY <1>4, ThreadKeepsScan
<1>5. ASSUME UNCHANGED vars PROVE ScanInv'
  BY <1>5 DEF vars, tables, mainVars, ScanInv, Scanned, InFrameQueue
<1>6. QED BY <1>1, <1>2, <1>3, <1>4, <1>5, ScanFrameKeepsScan DEF Next, Exited

THEOREM ScanInvariant ==
  ASSUME PositiveWork
  PROVE  Spec => []ScanInv
<1>1. Init => ScanInv
  BY DEF Init, initial_tables, ScanInv
<1>2. SyncInv /\ TablesInv /\ CallInv /\ FreshInv /\ ScanInv /\ [Next]_vars => ScanInv'
  BY NextScan
<1>3. QED
  BY <1>1, <1>2, SyncInvariant, TablesInvariant, CallInvariant, FreshInvariant, PTL DEF Spec

(* While no work time is 0, the scan misses no frame whose use ends: one   *)
(* whose time has passed is in the queue.                                  *)
THEOREM NoLostFrameHolds ==
  ASSUME PositiveWork
  PROVE  Spec => []NoLostFrame
<1>1. TablesInv /\ ScanInv => NoLostFrame
  <2> SUFFICES ASSUME TablesInv, ScanInv PROVE NoLostFrame
    OBVIOUS
  <2>1. DOMAIN frame_queue = 1 .. Len(frame_queue)
    BY DEF TablesInv, TableParts, TablesTypeOK
  <2>2. QED BY <2>1 DEF ScanInv, NoLostFrame, InFrameQueue, ToSet
<1>2. QED BY <1>1, TablesInvariant, ScanInvariant, PTL

-----------------------------------------------------------------------------
(* When the clock is turned back. *)

(* A row that is already due was due when the row before it called: main   *)
(* would have met it in an earlier tick otherwise.                         *)
TurnInv ==
  /\ \A r \in Rows : r < current_row_ind => thread_pc[r] # "none"
  /\ main_pc = "waitPlaced" =>
       thread_pc[current_row_ind] # "none" /\ CallTime(current_row_ind) = g_current_time
  /\ current_row_ind < NumRows =>
       /\ InRound /\ next_row.start_time =< g_current_time =>
            current_row_ind > 0 /\ CallTime(current_row_ind - 1) = g_current_time
       /\ main_pc = "loop" /\ next_row.start_time < g_current_time =>
            current_row_ind > 0 /\ CallTime(current_row_ind - 1) = g_current_time - 1

LEMMA SpawnRowKeepsTurn ==
  ASSUME SyncInv, TablesInv, TurnInv, SpawnRow
  PROVE  TurnInv'
<1>1. current_row_ind \in Rows /\ current_row_ind < NumRows
  BY SpawnsARow, SimAssumption DEF SyncInv, SyncTypeOK, Rows, SimAssumption
<1>2. /\ current_row_ind' = current_row_ind /\ main_pc' \in {"waitPlaced", "cleanup"}
      /\ g_current_time' = loop_time
  BY DEF SpawnRow, MainError
<1>3. thread_input'[current_row_ind].call_time = loop_time
  BY <1>1 DEF SpawnRow, TablesInv, LocalsTypeOK
<1>4. \A r \in Rows : thread_pc'[r] \in {thread_pc[r], "enter"}
  BY DEF SpawnRow, SyncInv, SyncTypeOK
<1>5. main_pc' = "waitPlaced" => thread_pc'[current_row_ind] = "enter"
  BY <1>1 DEF SpawnRow, MainError, SyncInv, SyncTypeOK
<1>6. QED BY <1>2, <1>3, <1>4, <1>5 DEF TurnInv, InRound, CallTime

LEMMA MoveToNextRowKeepsTurn ==
  ASSUME SyncInv, TablesInv, TurnInv, MoveToNextRow
  PROVE  TurnInv'
<1>1. /\ main_pc = "waitPlaced" /\ UNCHANGED <<thread_pc, thread_input, g_current_time>>
      /\ current_row_ind \in 0 .. NumRows /\ NumRows \in Nat
      /\ main_pc' \in {"lock", "cleanup"}
  BY SimAssumption DEF MoveToNextRow, threadVars, SyncInv, SyncTypeOK, SimAssumption, MainError
<1>2. current_row_ind' \in {current_row_ind, current_row_ind + 1}
      /\ (main_pc' = "lock" => current_row_ind' = current_row_ind + 1)
  BY DEF MoveToNextRow, MainError
<1>3. thread_pc[current_row_ind] # "none" /\ CallTime(current_row_ind) = g_current_time
  BY <1>1 DEF TurnInv
<1>4. \A r \in Rows : r < current_row_ind' => thread_pc'[r] # "none"
  BY <1>1, <1>2, <1>3 DEF TurnInv, Rows
<1>5. main_pc' = "lock" => current_row_ind' > 0 /\ CallTime(current_row_ind - 1)' = g_current_time'
  BY <1>1, <1>2, <1>3 DEF CallTime
<1>6. QED BY <1>1, <1>4, <1>5 DEF TurnInv, InRound

LEMMA NextTurn == SyncInv /\ TablesInv /\ TurnInv /\ [Next]_vars => TurnInv'
<1> SUFFICES ASSUME SyncInv, TablesInv, TurnInv, [Next]_vars PROVE TurnInv'
  OBVIOUS
<1>0. g_current_time \in Int /\ next_row.start_time \in Int /\ current_row_ind \in 0 .. NumRows
      /\ NumRows \in Nat
  BY SimAssumption DEF SyncInv, SyncTypeOK, Row, SimAssumption
<1>1. ASSUME Main, ~SpawnRow, ~MoveToNextRow PROVE TurnInv'
  <2>1. /\ UNCHANGED <<next_row, thread_input>>
        /\ \A r \in Rows : thread_pc[r] # "none" => thread_pc'[r] # "none"
        /\ main_pc' = "loop" => Tick
        /\ g_current_time' = g_current_time \/ Tick
    BY <1>1, MainStep
  <2>2. UNCHANGED current_row_ind
    BY <1>1 DEF Main, LoopEnds, OrderError, NoRowNow,
     LockTables, ScanFrame, ScanDone, ReleaseHead, ThreadReleased, RelockTables, Tick,
     JoinThreads, FindLastEndTime, PrintRemains, Cleanup
  <2>3. main_pc' # "waitPlaced"
    BY <1>1 DEF Main, LoopEnds, OrderError, NoRowNow, MainGoto, MainError,
     LockTables, ScanFrame, ScanDone, ReleaseHead, ThreadReleased, RelockTables, Tick,
     JoinThreads, FindLastEndTime, PrintRemains, Cleanup
  <2>4. CASE NoRowNow
    <3>1. /\ main_pc = "loop" /\ next_row.start_time # loop_time /\ ~OutOfOrder
          /\ main_pc' = "lock" /\ g_current_time' = g_current_time
      BY <2>4 DEF NoRowNow, MainGoto
    <3>2. current_row_ind < NumRows => next_row.start_time > g_current_time
      BY <1>0, <3>1 DEF loop_time, TurnBack, OutOfOrder
    <3>3. QED BY <1>0, <2>1, <2>2, <3>1, <3>2 DEF TurnInv
  <2>5. CASE Tick
    <3>1. main_pc = "release" /\ main_pc' = "loop" /\ g_current_time' = g_current_time + 1
      BY <2>5 DEF Tick, MainGoto
    <3>2. /\ current_row_ind < NumRows /\ next_row.start_time < g_current_time + 1 =>
               current_row_ind > 0 /\ CallTime(current_row_ind - 1) = g_current_time
      BY <1>0, <3>1 DEF TurnInv, InRound
    <3>3. (g_current_time + 1) - 1 = g_current_time
      BY <1>0
    <3>4. QED BY <2>1, <2>2, <3>1, <3>2, <3>3 DEF TurnInv, InRound, CallTime
  <2>6. CASE ~NoRowNow /\ ~Tick
    <3>1. InRound' => InRound
      BY <1>1, <2>6 DEF InRound, Main, LoopEnds, OrderError, MainGoto, MainError,
        LockTables, ScanFrame, ScanDone, ReleaseHead, ThreadReleased, RelockTables,
        JoinThreads, FindLastEndTime, PrintRemains, Cleanup
    <3>2. g_current_time' = g_current_time /\ main_pc' # "loop"
      BY <2>1, <2>6
    <3>3. QED BY <2>1, <2>2, <2>3, <3>1, <3>2 DEF TurnInv, CallTime
  <2>7. QED BY <2>4, <2>5, <2>6
<1>2. ASSUME NEW r \in Rows, Thread(r) PROVE TurnInv'
  <2>1. UNCHANGED <<next_row, main_pc, current_row_ind, g_current_time, thread_input>>
    BY <1>2, ThreadStep, ThreadEffect DEF mainVars
  <2>2. \A s \in Rows : thread_pc'[s] # "none" <=> thread_pc[s] # "none"
    BY <1>2, ThreadWakesNobody
  <2>3. main_pc = "waitPlaced" => current_row_ind \in Rows
    BY <1>0 DEF SyncInv, RowInv, Rows
  <2>4. QED BY <2>1, <2>2, <2>3 DEF TurnInv, InRound, CallTime
<1>3. ASSUME UNCHANGED vars PROVE TurnInv'
  BY <1>3 DEF vars, mainVars, threadVars, TurnInv, InRound, CallTime
<1>4. QED BY <1>1, <1>2, <1>3, SpawnRowKeepsTurn, MoveToNextRowKeepsTurn DEF Next, Exited

THEOREM TurnInvariant == Spec => []TurnInv
<1>1. Init => TurnInv
  <2> SUFFICES ASSUME Init PROVE TurnInv
    OBVIOUS
  <2>1. next_row.start_time \in Int /\ next_row.start_time >= 0
    <3>1. next_row.start_time \in FirstStarts
      BY DEF Init
    <3>2. FirstStarts \subseteq Nat
      BY SimAssumption DEF SimAssumption
    <3>3. \A t \in FirstStarts : t \in Int /\ t >= 0
      BY <3>2
    <3>4. QED BY ONLY <3>1, <3>3
  <2>2. main_pc = "loop" /\ current_row_ind = 0 /\ g_current_time = 0
    BY DEF Init
  <2>3. ~InRound /\ ~(next_row.start_time < g_current_time)
    BY <2>1, <2>2 DEF InRound
  <2>4. QED BY <2>2, <2>3 DEF TurnInv, Rows
<1>2. QED BY <1>1, NextTurn, SyncInvariant, TablesInvariant, PTL DEF Spec

-----------------------------------------------------------------------------
(* The queue of frames is exact while the clock is never turned back. *)

(* Every frame in the queue has ended, and before this tick when the scan  *)
(* has not passed it yet; none is there twice.                             *)
ExactInv ==
  ClockNeverTurned =>
    /\ OnceInQueue
    /\ \A f \in Frames : InFrameQueue(f) =>
         /\ frame_table[f].end_time =< g_current_time
         /\ \/ main_pc \in {"loop", "waitPlaced", "lock"}
            \/ main_pc = "scan" /\ f >= frame_ind
            => frame_table[f].end_time < g_current_time

(* Once turned back, the clock has been turned back.                       *)
LEMMA TurnedForEver ==
  ASSUME SyncInv, TablesInv, [Next]_vars, ClockNeverTurned'
  PROVE  ClockNeverTurned
<1>1. ASSUME NEW r \in Rows, NEW s \in Rows, r < s, thread_pc[s] # "none"
      PROVE  CallTime(r) < CallTime(s)
  <2>1. thread_pc'[s] # "none" /\ CallTime(s)' = CallTime(s) /\ CallTime(r)' = CallTime(r)
    <3>1. CASE SpawnRow
      <4>1. main_pc = "loop"
        BY <3>1 DEF SpawnRow
      <4>2. r # current_row_ind /\ s # current_row_ind
        BY <1>1, <4>1 DEF SyncInv, QueueInv, SleeperInv, Rows, SyncTypeOK
      <4>3. QED BY <1>1, <3>1, <4>2 DEF SpawnRow, CallTime, SyncInv, SyncTypeOK, TablesInv, LocalsTypeOK
    <3>2. CASE Main /\ ~SpawnRow
      BY <1>1, <3>2, MainStep DEF CallTime
    <3>3. ASSUME NEW t \in Rows, Thread(t) PROVE thread_pc'[s] # "none" /\ UNCHANGED thread_input
      BY <1>1, <3>3, ThreadEffect, ThreadWakesNobody
    <3>4. CASE UNCHANGED vars
      BY <1>1, <3>4 DEF vars, threadVars, CallTime
    <3>5. QED BY <3>1, <3>2, <3>3, <3>4 DEF Next, Exited, CallTime
  <2>2. QED BY <1>1, <2>1 DEF ClockNeverTurned
<1>2. QED BY <1>1 DEF ClockNeverTurned

LEMMA SpawnRowKeepsExact ==
  ASSUME SyncInv, TablesInv, TurnInv, ExactInv, SpawnRow, ClockNeverTurned
  PROVE  ExactInv'
<1>0. /\ current_row_ind \in Rows /\ main_pc = "loop" /\ current_row_ind \in 0 .. NumRows
      /\ current_row_ind < NumRows /\ NumRows \in Nat
      /\ g_current_time \in Int /\ next_row.start_time \in Int
  BY SpawnsARow, SimAssumption DEF SpawnRow, SyncInv, SyncTypeOK, Row, Rows, SimAssumption
<1>1. /\ UNCHANGED <<frame_table, frame_queue>>
      /\ main_pc' \in {"waitPlaced", "cleanup"} /\ g_current_time' = loop_time
  BY DEF SpawnRow, MainError, tables
<1>2. \A f \in Frames : InFrameQueue(f)' =>
        /\ frame_table'[f].end_time =< g_current_time - 1
        /\ frame_table'[f].end_time \in Int
  <2>1. \A f \in Frames : frame_table[f].end_time \in Int
    BY DEF TablesInv, TableParts, TablesTypeOK, FrameEntry
  <2>2. QED BY <1>0, <1>1, <2>1 DEF ExactInv, InFrameQueue
<1>3. CASE g_current_time' = g_current_time
  BY <1>0, <1>1, <1>2, <1>3 DEF ExactInv, OnceInQueue, InFrameQueue
<1>4. CASE main_pc' = "cleanup"
  <2>1. g_current_time' \in {g_current_time, g_current_time - 1}
    BY <1>1 DEF loop_time
  <2>2. QED BY <1>0, <1>1, <1>2, <1>4, <2>1 DEF ExactInv, OnceInQueue, InFrameQueue
<1>5. CASE g_current_time' # g_current_time /\ main_pc' = "waitPlaced"
  <2>1. /\ next_row.start_time = g_current_time - 1 /\ loop_time = g_current_time - 1
    BY <1>1, <1>5 DEF loop_time, TurnBack
  <2>2. current_row_ind > 0 /\ CallTime(current_row_ind - 1) = g_current_time - 1
    BY <1>0, <2>1 DEF TurnInv
  <2>3. current_row_ind - 1 \in Rows /\ current_row_ind - 1 < current_row_ind
        /\ current_row_ind - 1 # current_row_ind
    BY <1>0, <2>2 DEF Rows
  <2>4. CallTime(current_row_ind - 1)' = g_current_time - 1 /\ CallTime(current_row_ind)' = g_current_time - 1
    <3>1. /\ thread_input'[current_row_ind].call_time = g_current_time - 1
          /\ thread_input'[current_row_ind - 1] = thread_input[current_row_ind - 1]
      BY <1>0, <2>1, <2>3 DEF SpawnRow, TablesInv, LocalsTypeOK
    <3>2. current_row_ind' = current_row_ind
      BY DEF SpawnRow
    <3>3. QED BY <2>2, <3>1, <3>2 DEF CallTime
  <2>5. thread_pc'[current_row_ind] # "none"
    BY <1>0, <1>5 DEF SpawnRow, MainError, SyncInv, SyncTypeOK
  <2>6. ~ClockNeverTurned'
    <3>1. current_row_ind' = current_row_ind
      BY DEF SpawnRow
    <3>2. PICK s \in Rows : s = current_row_ind
      BY <1>0
    <3>3. PICK q \in Rows : q = current_row_ind - 1
      BY <2>3
    <3>4. CallTime(q)' = g_current_time - 1 /\ CallTime(s)' = g_current_time - 1
      BY <2>4, <3>1, <3>2, <3>3 DEF CallTime
    <3>5. q < s /\ thread_pc'[s] # "none" /\ ~(CallTime(q)' < CallTime(s)')
      BY <1>0, <2>3, <2>5, <3>2, <3>3, <3>4
    <3>6. QED BY <3>5 DEF ClockNeverTurned
  <2>7. QED BY <2>6 DEF ExactInv
<1>6. QED BY <1>1, <1>3, <1>4, <1>5

LEMMA ScanFrameKeepsExact ==
  ASSUME SyncInv, TablesInv, ExactInv, ScanFrame, ClockNeverTurned
  PROVE  ExactInv'
<1>1. /\ UNCHANGED <<frame_table, g_current_time>> /\ frame_ind \in Frames
      /\ main_pc = "scan" /\ frame_ind < NumFrames
  BY TablesAssumption DEF ScanFrame, SyncInv, SyncTypeOK, Frames, TablesAssumption
<1>2. frame_queue \in Seq(Frames) /\ frame_queue' \in {frame_queue, Append(frame_queue, frame_ind)}
  BY DEF TablesInv, TableParts, TablesTypeOK, ScanFrame, add_to_frame_queue
<1>3. \A f \in Frames : frame_table[f].end_time \in Int /\ g_current_time \in Int
  BY DEF TablesInv, TableParts, TablesTypeOK, FrameEntry, SyncInv, SyncTypeOK
<1>4. /\ OnceInQueue
      /\ \A f \in Frames : InFrameQueue(f) => frame_table[f].end_time =< g_current_time
      /\ \A f \in Frames : InFrameQueue(f) /\ f >= frame_ind => frame_table[f].end_time < g_current_time
  BY <1>1 DEF ExactInv
<1>5. main_pc' = "scan" => frame_ind' = frame_ind + 1
  BY DEF ScanFrame, MainError
<1>6. main_pc' \in {"scan", "cleanup"}
  BY DEF ScanFrame, MainError
<1>7. CASE frame_queue' = frame_queue
  <2>1. \A f \in Frames : InFrameQueue(f)' <=> InFrameQueue(f)
    BY <1>7 DEF InFrameQueue
  <2>2. OnceInQueue'
    BY <1>4, <1>7 DEF OnceInQueue
  <2>3. \A f \in Frames : f >= frame_ind + 1 => f >= frame_ind
    BY <1>1 DEF Frames
  <2>4. QED BY <1>1, <1>4, <1>5, <1>6, <2>1, <2>2, <2>3 DEF ExactInv
<1>8. CASE frame_queue' = Append(frame_queue, frame_ind) /\ frame_table[frame_ind].end_time = g_current_time
  <2>1. ~InFrameQueue(frame_ind)
    BY <1>1, <1>3, <1>4, <1>8 DEF Frames
  <2>2. /\ Len(frame_queue') = Len(frame_queue) + 1 /\ Len(frame_queue) \in Nat
        /\ \A i \in 1 .. Len(frame_queue) : frame_queue'[i] = frame_queue[i]
        /\ frame_queue'[Len(frame_queue) + 1] = frame_ind
    BY <1>2, <1>8
  <2>3. OnceInQueue'
    BY <1>4, <2>1, <2>2 DEF OnceInQueue, InFrameQueue
  <2>4. \A f \in Frames : InFrameQueue(f)' => InFrameQueue(f) \/ f = frame_ind
    BY <2>2 DEF InFrameQueue
  <2>5. \A f \in Frames : f >= frame_ind + 1 => f >= frame_ind /\ f # frame_ind
    BY <1>1 DEF Frames
  <2>6. QED BY <1>1, <1>3, <1>4, <1>5, <1>6, <1>8, <2>3, <2>4, <2>5 DEF ExactInv
<1>9. QED BY <1>2, <1>7, <1>8 DEF ScanFrame, add_to_frame_queue

LEMMA ThreadKeepsExact ==
  ASSUME SyncInv, TablesInv, ExactInv, NEW r \in Rows, Thread(r), ClockNeverTurned
  PROVE  ExactInv'
<1>1. UNCHANGED <<main_pc, frame_ind, g_current_time>>
  BY ThreadStep DEF mainVars
<1>2. CASE UNCHANGED tables
  BY <1>1, <1>2 DEF tables, ExactInv, OnceInQueue, InFrameQueue
<1>3. CASE \E f \in Frames : Placed(r, f)
  <2>1. PICK f \in Frames : Placed(r, f)
    BY <1>3
  <2>2. Touches(f)
    BY <2>1 DEF Placed, ResidentEffect, EmptyEffect, EvictEffect
  <2>3. QED BY <1>1, <2>2 DEF ExactInv, Touches
<1>4. QED BY <1>2, <1>3, ThreadEffect

LEMMA NextExact ==
  SyncInv /\ TablesInv /\ TurnInv /\ ExactInv /\ [Next]_vars => ExactInv'
<1> SUFFICES ASSUME SyncInv, TablesInv, TurnInv, ExactInv, [Next]_vars, ClockNeverTurned'
             PROVE  ExactInv'
  BY DEF ExactInv
<1>0. ClockNeverTurned
  BY TurnedForEver
<1>a. g_current_time \in Int /\ \A f \in Frames : frame_table[f].end_time \in Int
  BY DEF SyncInv, SyncTypeOK, TablesInv, TableParts, TablesTypeOK, FrameEntry
<1>1. CASE Tick
  <2>1. /\ UNCHANGED <<frame_table, frame_queue>> /\ main_pc = "release" /\ main_pc' = "loop"
        /\ g_current_time' = g_current_time + 1
    BY <1>1 DEF Tick, MainGoto, tables
  <2>2. QED BY <1>0, <1>a, <2>1 DEF ExactInv, OnceInQueue, InFrameQueue
<1>2. ASSUME Main, ~SpawnRow, ~ScanFrame, ~Tick PROVE ExactInv'
  <2>1. UNCHANGED <<frame_table, frame_queue, g_current_time>>
    BY <1>2, MainStep
  <2>2. \/ main_pc' \notin {"loop", "waitPlaced", "lock", "scan"}
        \/ main_pc' \in {"lock", "scan"} /\ main_pc \in {"loop", "waitPlaced", "lock"}
    BY <1>2 DEF Main, LoopEnds, OrderError, NoRowNow, MoveToNextRow, MainGoto, MainError,
     LockTables, ScanDone, ReleaseHead, ThreadReleased, RelockTables,
     JoinThreads, FindLastEndTime, PrintRemains, Cleanup
  <2>3. QED BY <1>0, <2>1, <2>2 DEF ExactInv, OnceInQueue, InFrameQueue
<1>3. ASSUME NEW r \in Rows, Thread(r) PROVE ExactInv'
  BY <1>0, <1>3, ThreadKeepsExact
<1>4. ASSUME UNCHANGED vars PROVE ExactInv'
  BY <1>0, <1>4 DEF vars, tables, mainVars, ExactInv, OnceInQueue, InFrameQueue
<1>5. QED BY <1>0, <1>1, <1>2, <1>3, <1>4, SpawnRowKeepsExact, ScanFrameKeepsExact DEF Next, Exited

THEOREM ExactInvariant == Spec => []ExactInv
<1>1. Init => ExactInv
  BY DEF Init, initial_tables, ExactInv, OnceInQueue, InFrameQueue
<1>2. QED BY <1>1, NextExact, SyncInvariant, TablesInvariant, TurnInvariant, PTL DEF Spec

(* While no two rows start at the same time, the queue holds frames whose  *)
(* use has ended, each once.                                               *)
THEOREM QueueIsExactHolds == Spec => []QueueIsExact
<1>1. TablesInv /\ ExactInv => QueueIsExact
  <2> SUFFICES ASSUME TablesInv, ExactInv, ClockNeverTurned, NEW i \in DOMAIN frame_queue
               PROVE  /\ frame_table[frame_queue[i]].end_time =< g_current_time
                      /\ \A j \in DOMAIN frame_queue : frame_queue[i] = frame_queue[j] => i = j
    BY DEF QueueIsExact
  <2>1. DOMAIN frame_queue = 1 .. Len(frame_queue) /\ frame_queue[i] \in Frames
    BY DEF TablesInv, TableParts, TablesTypeOK
  <2>2. InFrameQueue(frame_queue[i])
    BY <2>1 DEF InFrameQueue
  <2>3. QED BY <2>1, <2>2 DEF ExactInv, OnceInQueue
<1>2. QED BY <1>1, TablesInvariant, ExactInvariant, PTL

(* While no two rows start at the same time, a frame is evicted only when  *)
(* its use has ended.                                                      *)
THEOREM EvictsEndedWhileOrdered == Spec => [](ClockNeverTurned => EvictsEndedFrameOnly)
<1>1. TablesInv /\ ExactInv => (ClockNeverTurned => EvictsEndedFrameOnly)
  <2> SUFFICES ASSUME TablesInv, ExactInv, ClockNeverTurned, NEW r \in Rows,
                      thread_pc[r] = "evict"
               PROVE  frame_table[Head(frame_queue)].end_time =< g_current_time
    BY DEF EvictsEndedFrameOnly
  <2>1. 1 \in 1 .. Len(frame_queue) /\ Head(frame_queue) = frame_queue[1] /\ frame_queue[1] \in Frames
    BY DEF TablesInv, TableParts, TablesTypeOK, VictimInv, AvailableCountsQueue
  <2>2. InFrameQueue(frame_queue[1])
    BY <2>1 DEF InFrameQueue
  <2>3. QED BY <2>1, <2>2 DEF ExactInv
<1>2. QED BY <1>1, TablesInvariant, ExactInvariant, PTL

-----------------------------------------------------------------------------
(* The output file. *)

(* The definitions of PagingProps about any sequence s of lines.           *)
NextIn(s, i, j) ==
  /\ i < j /\ s[i].frame = s[j].frame
  /\ \A k \in i + 1 .. j - 1 : s[k].frame # s[j].frame

LastIn(s, i) == \A k \in i + 1 .. Len(s) : s[k].frame # s[i].frame

OffIn(s, j, i) == /\ NextIn(s, i, j)
                  /\ s[i].kind = "P" /\ s[j].kind = "E" /\ s[i].page = s[j].page

Alternates(s) ==
  /\ \A j \in 1 .. Len(s) : s[j].kind = "E" => \E i \in 1 .. Len(s) : OffIn(s, j, i)
  /\ \A i, j \in 1 .. Len(s) : NextIn(s, i, j) => s[i].kind # s[j].kind

(* By the lines of s, frame f holds page p, holds none, was never used.    *)
HoldsIn(s, f, p) == \E i \in 1 .. Len(s) : /\ s[i].frame = f /\ LastIn(s, i)
                                           /\ s[i].kind = "P" /\ s[i].page = p
LeftIn(s, f) == \A i \in 1 .. Len(s) : s[i].frame = f /\ LastIn(s, i) => s[i].kind = "E"
NeverIn(s, f) == \A i \in 1 .. Len(s) : s[i].frame # f

(* What a line l at the end of s leaves as it was, in t.                   *)
LineAtEnd(s, l, t) ==
  /\ t \in Seq(LogLine) /\ Len(s) \in Nat
  /\ Len(t) = Len(s) + 1 /\ t[Len(s) + 1] = l
  /\ \A i \in 1 .. Len(s) : t[i] = s[i]
  /\ \A i, j \in 1 .. Len(s) : NextIn(t, i, j) <=> NextIn(s, i, j)
  /\ \A i \in 1 .. Len(s) : NextIn(t, i, Len(s) + 1) <=> LastIn(s, i) /\ s[i].frame = l.frame
  /\ \A i \in 1 .. Len(s) : LastIn(t, i) <=> LastIn(s, i) /\ s[i].frame # l.frame
  /\ LastIn(t, Len(s) + 1)

LEMMA LineAppended ==
  ASSUME NEW s \in Seq(LogLine), NEW l \in LogLine, NEW t, t = Append(s, l)
  PROVE  LineAtEnd(s, l, t)
<1> DEFINE n == Len(s)
<1>1. /\ t \in Seq(LogLine) /\ n \in Nat /\ Len(t) = n + 1 /\ t[n + 1] = l
      /\ \A i \in 1 .. n : t[i] = s[i]
  <2> HIDE DEF LogLine
  <2>1. QED OBVIOUS
<1> HIDE DEF n
<1>2. ASSUME NEW i \in 1 .. n, NEW j \in 1 .. n PROVE NextIn(t, i, j) <=> NextIn(s, i, j)
  <2>1. \A k \in i + 1 .. j - 1 : k \in 1 .. n
    BY <1>1
  <2>2. QED BY <1>1, <2>1 DEF NextIn
<1>3. ASSUME NEW i \in 1 .. n
      PROVE  NextIn(t, i, n + 1) <=> LastIn(s, i) /\ s[i].frame = l.frame
  <2>1. i + 1 .. (n + 1) - 1 = i + 1 .. n /\ i < n + 1
    BY <1>1
  <2>2. \A k \in i + 1 .. n : k \in 1 .. n
    BY <1>1
  <2>3. QED BY <1>1, <2>1, <2>2 DEF NextIn, LastIn, n
<1>4. ASSUME NEW i \in 1 .. n
      PROVE  LastIn(t, i) <=> LastIn(s, i) /\ s[i].frame # l.frame
  <2>1. \A k : k \in i + 1 .. Len(t) <=> k \in i + 1 .. n \/ k = n + 1
    BY <1>1
  <2>2. \A k \in i + 1 .. n : k \in 1 .. n
    BY <1>1
  <2>3. QED BY <1>1, <2>1, <2>2 DEF LastIn, n
<1>5. LastIn(t, n + 1)
  BY <1>1 DEF LastIn
<1>6. QED BY <1>1, <1>2, <1>3, <1>4, <1>5 DEF n, LineAtEnd

(* A page is placed in a frame that holds none.                            *)
LEMMA PlacedAppended ==
  ASSUME NEW s \in Seq(LogLine), NEW l \in LogLine, NEW t, t = Append(s, l),
         Alternates(s), l.kind = "P", LeftIn(s, l.frame)
  PROVE  Alternates(t) /\ HoldsIn(t, l.frame, l.page)
<1> DEFINE n == Len(s)
<1>1. /\ n \in Nat /\ Len(t) = n + 1 /\ t[n + 1] = l
      /\ \A i \in 1 .. n : t[i] = s[i]
      /\ \A i, j \in 1 .. n : NextIn(t, i, j) <=> NextIn(s, i, j)
      /\ \A i \in 1 .. n : NextIn(t, i, n + 1) <=> LastIn(s, i) /\ s[i].frame = l.frame
      /\ LastIn(t, n + 1)
  <2>1. LineAtEnd(s, l, t)
    BY LineAppended
  <2>2. QED BY <2>1 DEF LineAtEnd
<1>0. /\ \A j \in 1 .. n : s[j].kind = "E" => \E i \in 1 .. n : OffIn(s, j, i)
      /\ \A i, j \in 1 .. n : NextIn(s, i, j) => s[i].kind # s[j].kind
      /\ \A i \in 1 .. n : s[i].frame = l.frame /\ LastIn(s, i) => s[i].kind = "E"
  BY DEF Alternates, LeftIn
<1> HIDE DEF n
<1>2. \A i \in 1 .. Len(t) : i \in 1 .. n \/ i = n + 1
  BY <1>1
<1>3. \A i \in 1 .. n : i \in 1 .. Len(t)
  BY <1>1
<1>4. \A i, j \in 1 .. n : OffIn(t, j, i) <=> OffIn(s, j, i)
  BY <1>1 DEF OffIn
<1>5. ASSUME NEW j \in 1 .. Len(t), t[j].kind = "E"
      PROVE  \E i \in 1 .. Len(t) : OffIn(t, j, i)
  <2>1. j \in 1 .. n
    BY <1>1, <1>2, <1>5
  <2>2. PICK i \in 1 .. n : OffIn(s, j, i)
    BY <1>0, <1>1, <1>5, <2>1
  <2>3. QED BY <1>3, <1>4, <2>1, <2>2
<1>6. ASSUME NEW i \in 1 .. Len(t), NEW j \in 1 .. Len(t), NextIn(t, i, j)
      PROVE  t[i].kind # t[j].kind
  <2>1. i < j /\ i \in 1 .. n
    BY <1>1, <1>2, <1>6 DEF NextIn
  <2>2. CASE j \in 1 .. n
    BY <1>0, <1>1, <1>6, <2>1, <2>2
  <2>3. CASE j = n + 1
    BY <1>0, <1>1, <1>6, <2>1, <2>3
  <2>4. QED BY <1>2, <2>2, <2>3
<1>7. HoldsIn(t, l.frame, l.page)
  <2>1. n + 1 \in 1 .. Len(t)
    BY <1>1
  <2>2. QED BY <1>1, <2>1 DEF HoldsIn
<1>8. QED BY <1>5, <1>6, <1>7 DEF Alternates

(* A page leaves the frame that holds it.                                  *)
LEMMA LeftAppended ==
  ASSUME NEW s \in Seq(LogLine), NEW l \in LogLine, NEW t, t = Append(s, l),
         Alternates(s), l.kind = "E", HoldsIn(s, l.frame, l.page)
  PROVE  Alternates(t) /\ LeftIn(t, l.frame)
<1> DEFINE n == Len(s)
<1>1. /\ n \in Nat /\ Len(t) = n + 1 /\ t[n + 1] = l
      /\ \A i \in 1 .. n : t[i] = s[i]
      /\ \A i, j \in 1 .. n : NextIn(t, i, j) <=> NextIn(s, i, j)
      /\ \A i \in 1 .. n : NextIn(t, i, n + 1) <=> LastIn(s, i) /\ s[i].frame = l.frame
      /\ \A i \in 1 .. n : LastIn(t, i) <=> LastIn(s, i) /\ s[i].frame # l.frame
  <2>1. LineAtEnd(s, l, t)
    BY LineAppended
  <2>2. QED BY <2>1 DEF LineAtEnd
<1>0. /\ \A j \in 1 .. n : s[j].kind = "E" => \E i \in 1 .. n : OffIn(s, j, i)
      /\ \A i, j \in 1 .. n : NextIn(s, i, j) => s[i].kind # s[j].kind
  BY DEF Alternates
<1>p. PICK last \in 1 .. n : /\ s[last].frame = l.frame /\ LastIn(s, last)
                             /\ s[last].kind = "P" /\ s[last].page = l.page
  BY DEF HoldsIn
<1> HIDE DEF n
<1>2. \A i \in 1 .. Len(t) : i \in 1 .. n \/ i = n + 1
  BY <1>1
<1>3. \A i \in 1 .. n : i \in 1 .. Len(t)
  BY <1>1
<1>4. \A i, j \in 1 .. n : OffIn(t, j, i) <=> OffIn(s, j, i)
  BY <1>1 DEF OffIn
<1>9. \A i \in 1 .. n : s[i].frame = l.frame /\ LastIn(s, i) => i = last
  <2> SUFFICES ASSUME NEW i \in 1 .. n, s[i].frame = l.frame, LastIn(s, i), i # last PROVE FALSE
    OBVIOUS
  <2>1. CASE i < last
    <3>1. last \in i + 1 .. n
      BY <1>1, <2>1
    <3>2. QED BY <1>p, <3>1 DEF LastIn, n
  <2>2. CASE last < i
    <3>1. i \in last + 1 .. n
      BY <1>1, <2>2
    <3>2. QED BY <1>p, <3>1 DEF LastIn, n
  <2>3. QED BY <1>1, <2>1, <2>2
<1>5. ASSUME NEW j \in 1 .. Len(t), t[j].kind = "E"
      PROVE  \E i \in 1 .. Len(t) : OffIn(t, j, i)
  <2>1. CASE j \in 1 .. n
    <3>2. PICK i \in 1 .. n : OffIn(s, j, i)
      BY <1>0, <1>1, <1>5, <2>1
    <3>3. QED BY <1>3, <1>4, <2>1, <3>2
  <2>2. CASE j = n + 1
    <3>1. NextIn(t, last, j) /\ t[last] = s[last] /\ t[j] = l
      BY <1>1, <1>p, <2>2
    <3>2. OffIn(t, j, last)
      BY <1>p, <3>1 DEF OffIn
    <3>3. QED BY <1>3, <3>2
  <2>3. QED BY <1>2, <2>1, <2>2
<1>6. ASSUME NEW i \in 1 .. Len(t), NEW j \in 1 .. Len(t), NextIn(t, i, j)
      PROVE  t[i].kind # t[j].kind
  <2>1. i < j /\ i \in 1 .. n
    BY <1>1, <1>2, <1>6 DEF NextIn
  <2>2. CASE j \in 1 .. n
    BY <1>0, <1>1, <1>6, <2>1, <2>2
  <2>3. CASE j = n + 1
    <3>1. i = last
      BY <1>1, <1>6, <1>9, <2>1, <2>3
    <3>2. QED BY <1>1, <1>p, <2>1, <2>3, <3>1
  <2>4. QED BY <1>2, <2>2, <2>3
<1>7. LeftIn(t, l.frame)
  <2> SUFFICES ASSUME NEW i \in 1 .. Len(t), t[i].frame = l.frame, LastIn(t, i)
               PROVE  t[i].kind = "E"
    BY DEF LeftIn
  <2>1. i = n + 1
    BY <1>1, <1>2
  <2>2. QED BY <1>1, <2>1
<1>8. QED BY <1>5, <1>6, <1>7 DEF Alternates

(* A line about one frame says nothing of another.                         *)
LEMMA OtherFrame ==
  ASSUME NEW s \in Seq(LogLine), NEW l \in LogLine, NEW t, t = Append(s, l), NEW f, f # l.frame
  PROVE  /\ NeverIn(s, f) => NeverIn(t, f)
         /\ LeftIn(s, f) => LeftIn(t, f)
         /\ \A p : HoldsIn(s, f, p) => HoldsIn(t, f, p)
<1> DEFINE n == Len(s)
<1>1. /\ n \in Nat /\ Len(t) = n + 1 /\ t[n + 1] = l
      /\ \A i \in 1 .. n : t[i] = s[i]
      /\ \A i \in 1 .. n : LastIn(t, i) <=> LastIn(s, i) /\ s[i].frame # l.frame
  <2>1. LineAtEnd(s, l, t)
    BY LineAppended
  <2>2. QED BY <2>1 DEF LineAtEnd
<1>2. \A i \in 1 .. n + 1 : i \in 1 .. n \/ i = n + 1
  BY <1>1
<1>3. \A i \in 1 .. n : i \in 1 .. n + 1
  BY <1>1
<1>4. NeverIn(s, f) => NeverIn(t, f)
  BY <1>1, <1>2 DEF NeverIn
<1>5. LeftIn(s, f) => LeftIn(t, f)
  BY <1>1, <1>2 DEF LeftIn
<1>6. \A p : HoldsIn(s, f, p) => HoldsIn(t, f, p)
  BY <1>1, <1>3 DEF HoldsIn
<1>7. QED BY <1>4, <1>5, <1>6

(* Main has not yet written off the page of frame f, or it has.            *)
ToWriteOff(f) == /\ main_pc \notin {"cleanup", "exited"}
                 /\ main_pc = "print" => f >= frame_ind
WrittenOff(f) == \/ main_pc = "print" /\ f < frame_ind
                 \/ result = "SUCCESS_CODE"

LogInv ==
  faults = 0 =>
    /\ Alternates(output)
    /\ \A f \in Frames :
         /\ frame_table[f].end_time = Unused => NeverIn(output, f)
         /\ frame_table[f].end_time # Unused =>
              /\ ToWriteOff(f) => HoldsIn(output, f, frame_table[f].page_number)
              /\ WrittenOff(f) => LeftIn(output, f)

(* A frame that was never used holds nothing.                              *)
LEMMA NeverUsedIsLeft ==
  ASSUME NEW s, NEW f, NeverIn(s, f)
  PROVE  LeftIn(s, f)
BY DEF NeverIn, LeftIn

LEMMA AppendTwice ==
  ASSUME NEW S, NEW s \in Seq(S), NEW a \in S, NEW b \in S
  PROVE  /\ Append(s, a) \in Seq(S)
         /\ s \o <<a>> \o <<b>> = Append(Append(s, a), b)
OBVIOUS

(* What a step of a thread has to show.                                    *)
LEMMA ThreadLog ==
  ASSUME SyncInv, EndingInv, NEW r \in Rows, Thread(r),
         Alternates(output'),
         \A f \in Frames : /\ frame_table'[f].end_time = Unused => NeverIn(output', f)
                           /\ frame_table'[f].end_time # Unused =>
                                HoldsIn(output', f, frame_table'[f].page_number)
  PROVE  LogInv'
<1>1. UNCHANGED <<main_pc, result>>
  BY ThreadStep DEF mainVars
<1>2. main_pc \in {"waitPlaced", "waitReleased", "relock"}
  BY ThreadStep DEF SyncInv, HandOver, Visiting
<1>3. result = "running"
  BY <1>2 DEF EndingInv, ResultInv
<1>4. \A f \in Frames : ToWriteOff(f)' /\ ~WrittenOff(f)'
  BY <1>1, <1>2, <1>3 DEF ToWriteOff, WrittenOff
<1>5. QED BY <1>4 DEF LogInv

LEMMA ThreadKeepsLog ==
  ASSUME SyncInv, TablesInv, EndingInv, LogInv, NEW r \in Rows, Thread(r), faults' = 0
  PROVE  LogInv'
<1>0. faults = 0
  <2>1. faults \in Nat
    BY SimAssumption DEF SyncInv, SyncTypeOK, SimAssumption
  <2>2. QED BY <2>1, ThreadStep
<1>1. \A f \in Frames : /\ frame_table[f].end_time = Unused => NeverIn(output, f)
                        /\ frame_table[f].end_time # Unused =>
                             HoldsIn(output, f, frame_table[f].page_number)
  <2>1. main_pc \in {"waitPlaced", "waitReleased", "relock"}
    BY ThreadStep DEF SyncInv, HandOver, Visiting
  <2>2. QED BY <1>0, <2>1 DEF LogInv, ToWriteOff
<1>2. Alternates(output) /\ output \in Seq(LogLine)
  BY <1>0 DEF LogInv, TablesInv, TableParts, TablesTypeOK
<1>3. CASE UseResidentPage(r) \/ UsePageBroughtIn(r)
  <2>1. /\ thread_pc[r] \in {"place", "evict"} /\ page_table[Page(r)].valid
        /\ update_frame_in_table(Page(r), CallTime(r), WorkTime(r), g_current_time)
    BY <1>3 DEF UseResidentPage, UsePageBroughtIn, ThreadGoto
  <2>2. UNCHANGED output
    BY <2>1 DEF update_frame_in_table
  <2>3. PICK f \in Frames : ResidentEffect(r, f)
    BY <2>1, UpdateEffect
  <2>4. frame_table'[f].end_time # Unused
    <3>1. CallTime(r) \in Int /\ CallTime(r) >= 0 /\ WorkTime(r) \in Nat
          /\ g_current_time \in Int /\ frame_table[f].end_time \in Int
      BY <2>1, RequestTypes DEF SyncInv, SyncTypeOK, TablesInv, TableParts, TablesTypeOK, FrameEntry
    <3>2. QED BY <2>3, <3>1 DEF ResidentEffect, Prolonged, max, Unused
  <2>5. \A g \in Frames : /\ frame_table'[g].page_number = frame_table[g].page_number
                          /\ frame_table'[g].end_time = Unused <=> frame_table[g].end_time = Unused
    BY <2>3, <2>4 DEF ResidentEffect, Touches
  <2>6. QED BY <1>1, <1>2, <2>2, <2>5, ThreadLog
<1>4. CASE UseEmptyFrame(r)
  <2>1. thread_pc[r] = "place" /\ CallTime(r) \in Int /\ CallTime(r) >= 0 /\ WorkTime(r) \in Nat
        /\ Page(r) \in Pages
    BY <1>4, RequestTypes DEF UseEmptyFrame
  <2>2. update_empty_frame(Page(r), CallTime(r), WorkTime(r), TRUE)
    <3>1. ~CallFails
      BY <1>0 DEF CallFails
    <3>2. QED BY <1>4, <3>1 DEF UseEmptyFrame
  <2>3. PICK f \in Frames :
          /\ frame_table[f].end_time = Unused
          /\ frame_table' = [frame_table EXCEPT ![f] =
               [page_number |-> Page(r), end_time |-> CallTime(r) + WorkTime(r)]]
          /\ output' = Append(output, Line(CallTime(r), Page(r), f, "P"))
    BY <2>2 DEF update_empty_frame, FirstEmptyFrame, EmptyFrames, print_to_output_file
  <2> DEFINE l == Line(CallTime(r), Page(r), f, "P")
  <2>4. l \in LogLine /\ l.frame = f /\ l.page = Page(r) /\ l.kind = "P"
    BY <2>1 DEF Line, LogLine
  <2>5. output' = Append(output, l)
    BY <2>3
  <2> HIDE DEF l
  <2>6. LeftIn(output, f)
    BY <1>1, <2>3, NeverUsedIsLeft
  <2>7. Alternates(output') /\ HoldsIn(output', f, Page(r))
    BY <1>2, <2>4, <2>5, <2>6, PlacedAppended
  <2>8. \A g \in Frames : g # f =>
          /\ NeverIn(output, g) => NeverIn(output', g)
          /\ \A p : HoldsIn(output, g, p) => HoldsIn(output', g, p)
    BY <1>2, <2>4, <2>5, OtherFrame
  <2>9. /\ frame_table'[f] = [page_number |-> Page(r), end_time |-> CallTime(r) + WorkTime(r)]
        /\ \A g \in Frames : g # f => frame_table'[g] = frame_table[g]
    BY <2>3 DEF TablesInv, TableParts, TablesTypeOK
  <2>10. frame_table'[f].end_time # Unused /\ frame_table'[f].page_number = Page(r)
    BY <2>1, <2>9 DEF Unused
  <2>11. QED BY <1>1, <2>7, <2>8, <2>9, <2>10, ThreadLog
<1>5. CASE EvictAndPlace(r)
  <2>1. thread_pc[r] = "evict" /\ CallTime(r) \in Int /\ CallTime(r) >= 0 /\ WorkTime(r) \in Nat
        /\ Page(r) \in Pages
    BY <1>5, RequestTypes DEF EvictAndPlace, ThreadGoto
  <2>2. evicte_and_place(CallTime(r), WorkTime(r), Page(r), TRUE, TRUE)
    <3>1. PICK ew, pw \in BOOLEAN :
            /\ faults' = faults + (IF ew THEN 0 ELSE 1) + (IF pw THEN 0 ELSE 1)
            /\ evicte_and_place(CallTime(r), WorkTime(r), Page(r), ew, pw)
      BY <1>5 DEF EvictAndPlace
    <3>2. ew = TRUE /\ pw = TRUE
      BY <1>0, <3>1
    <3>3. QED BY <3>1, <3>2
  <2>3. PICK f \in Frames : f = Head(frame_queue) /\ EvictEffect(r, f)
    BY <1>5, EvictAndPlaceEffect
  <2>4. PICK time \in Int : time = max(frame_table[f].end_time, CallTime(r)) /\ time >= 0
    BY <2>1 DEF max, TablesInv, TableParts, TablesTypeOK, FrameEntry
  <2>5. PICK old \in Pages : old = frame_table[f].page_number /\ frame_table[f].end_time # Unused
    BY <2>3 DEF EvictEffect, InFrameQueue, TablesInv, TableParts, QueuedUsed, FrameToPage
  <2> DEFINE e == Line(time, old, f, "E")
             l == Line(time, Page(r), f, "P")
  <2>6. PICK s : s = Append(output, e)
    OBVIOUS
  <2>7. /\ e \in LogLine /\ e.frame = f /\ e.page = old /\ e.kind = "E"
        /\ l \in LogLine /\ l.frame = f /\ l.page = Page(r) /\ l.kind = "P"
    BY <2>1 DEF Line, LogLine
  <2>8. output' = output \o <<e>> \o <<l>>
    BY <2>2, <2>3, <2>4, <2>5 DEF evicte_and_place
  <2> HIDE DEF e, l
  <2>9. s \in Seq(LogLine) /\ output' = Append(s, l)
    <3>1. output \in Seq(LogLine) /\ e \in LogLine /\ l \in LogLine
      BY <1>2, <2>7
    <3>2. /\ Append(output, e) \in Seq(LogLine)
          /\ output \o <<e>> \o <<l>> = Append(Append(output, e), l)
      BY ONLY <3>1, AppendTwice
    <3>3. QED BY <2>6, <2>8, <3>2
  <2>10. HoldsIn(output, f, old)
    BY <1>1, <2>5
  <2>11. Alternates(s) /\ LeftIn(s, f)
    BY <1>2, <2>6, <2>7, <2>10, LeftAppended
  <2>12. Alternates(output') /\ HoldsIn(output', f, Page(r))
    BY <2>7, <2>9, <2>11, PlacedAppended
  <2>13. ASSUME NEW g \in Frames, g # f
         PROVE  /\ NeverIn(output, g) => NeverIn(output', g)
                /\ \A p : HoldsIn(output, g, p) => HoldsIn(output', g, p)
    <3>1. /\ NeverIn(output, g) => NeverIn(s, g)
          /\ \A p : HoldsIn(output, g, p) => HoldsIn(s, g, p)
      BY <1>2, <2>6, <2>7, <2>13, OtherFrame
    <3>2. /\ NeverIn(s, g) => NeverIn(output', g)
          /\ \A p : HoldsIn(s, g, p) => HoldsIn(output', g, p)
      BY <2>7, <2>9, <2>13, OtherFrame
    <3>3. QED BY <3>1, <3>2
  <2>14. frame_table'[f].end_time # Unused /\ frame_table'[f].page_number = Page(r)
         /\ \A g \in Frames : g # f => frame_table'[g] = frame_table[g]
    BY <2>1, <2>3, <2>4 DEF EvictEffect, Touches, Unused
  <2>15. QED BY <1>1, <2>12, <2>13, <2>14, ThreadLog
<1>6. CASE WaitForFrame(r) \/ Enter(r) \/ Unlock(r) \/ SignalMain(r) \/ TakeTurn(r)
  <2>1. UNCHANGED tables
    BY <1>6 DEF WaitForFrame, Enter, Unlock, SignalMain, TakeTurn
  <2>2. QED BY <1>1, <1>2, <2>1, ThreadLog DEF tables
<1>7. CASE Reenter(r) \/ SignalMainAgain(r) \/ UnlockAgain(r)
  <2>1. UNCHANGED tables
    BY <1>7 DEF Reenter, SignalMainAgain, UnlockAgain
  <2>2. QED BY <1>1, <1>2, <2>1, ThreadLog DEF tables
<1>8. QED BY <1>3, <1>4, <1>5, <1>6, <1>7 DEF Thread

LEMMA PrintRemainsKeepsLog ==
  ASSUME SyncInv, TablesInv, EndingInv, LogInv, PrintRemains, faults' = 0
  PROVE  LogInv'
<1>0. faults = 0 /\ ~CallFails /\ main_pc = "print" /\ UNCHANGED frame_table
  <2>1. faults \in Nat
    BY SimAssumption DEF SyncInv, SyncTypeOK, SimAssumption
  <2>2. CallWorks \/ CallFails
    BY DEF PrintRemains
  <2>3. ~CallFails /\ faults = 0
    BY <2>1, <2>2 DEF CallWorks, CallFails
  <2>4. QED BY <2>3 DEF PrintRemains
<1> DEFINE remains == Line(last_end_time, frame_table[frame_ind].page_number, frame_ind, "E")
<1>a. \/ /\ frame_ind < NumFrames /\ frame_table[frame_ind].end_time # Unused
         /\ print_to_output_file(remains, TRUE)
         /\ frame_ind' = frame_ind + 1 /\ UNCHANGED <<main_pc, result>>
      \/ /\ frame_ind < NumFrames /\ frame_table[frame_ind].end_time = Unused
         /\ frame_ind' = frame_ind + 1 /\ UNCHANGED <<output, main_pc, result>>
      \/ /\ frame_ind = NumFrames /\ main_pc' = "cleanup" /\ UNCHANGED <<output, frame_ind>>
  BY <1>0 DEF PrintRemains
<1>1. frame_ind \in 0 .. NumFrames /\ NumFrames \in Nat /\ output \in Seq(LogLine)
  BY TablesAssumption DEF TablesAssumption, SyncInv, SyncTypeOK, TablesInv, TableParts, TablesTypeOK
<1>2. result = "running"
  BY <1>0 DEF EndingInv, ResultInv
<1>3. /\ Alternates(output)
      /\ \A f \in Frames :
           /\ frame_table[f].end_time = Unused => NeverIn(output, f)
           /\ frame_table[f].end_time # Unused =>
                /\ f >= frame_ind => HoldsIn(output, f, frame_table[f].page_number)
                /\ f < frame_ind => LeftIn(output, f)
  BY <1>0 DEF LogInv, ToWriteOff, WrittenOff
<1>4. CASE frame_ind = NumFrames
  <2>1. main_pc' = "cleanup" /\ UNCHANGED output
    <3>1. ~(frame_ind < NumFrames)
      BY <1>1, <1>4
    <3>2. QED BY <1>a, <3>1
  <2>2. \A f \in Frames : f < frame_ind /\ ~ToWriteOff(f)'
    BY <1>1, <1>4, <2>1 DEF Frames, ToWriteOff
  <2>3. QED BY <1>0, <1>3, <2>1, <2>2 DEF LogInv
<1>5. CASE frame_ind < NumFrames
  <2>1. frame_ind \in Frames
    BY <1>1, <1>5 DEF Frames
  <2>2. main_pc' = "print" /\ frame_ind' = frame_ind + 1 /\ UNCHANGED result
    <3>1. frame_ind # NumFrames
      BY <1>1, <1>5
    <3>2. QED BY <1>0, <1>a, <3>1
  <2>3. \A f \in Frames : /\ ToWriteOff(f)' <=> f >= frame_ind /\ f # frame_ind
                          /\ WrittenOff(f)' <=> f < frame_ind \/ f = frame_ind
    BY <1>1, <1>2, <2>2 DEF ToWriteOff, WrittenOff, Frames
  <2>4. CASE frame_table[frame_ind].end_time = Unused
    <3>1. UNCHANGED output
      BY <1>a, <1>1, <1>5, <2>4
    <3>2. QED BY <1>0, <1>3, <2>3, <2>4, <3>1 DEF LogInv
  <2>5. CASE frame_table[frame_ind].end_time # Unused
    <3> DEFINE f == frame_ind
               l == Line(last_end_time, frame_table[f].page_number, f, "E")
    <3>1. output' = Append(output, l)
      BY <1>a, <1>1, <1>5, <2>5 DEF print_to_output_file
    <3>2. l \in LogLine /\ l.frame = f /\ l.page = frame_table[f].page_number /\ l.kind = "E"
      BY <2>1 DEF Line, LogLine, TablesInv, LocalsTypeOK, TableParts, TablesTypeOK, FrameEntry
    <3> HIDE DEF l
    <3>3. HoldsIn(output, f, frame_table[f].page_number)
      BY <1>1, <1>3, <2>1, <2>5
    <3>4. Alternates(output') /\ LeftIn(output', f)
      BY <1>1, <1>3, <3>1, <3>2, <3>3, LeftAppended
    <3>5. \A g \in Frames : g # f =>
            /\ NeverIn(output, g) => NeverIn(output', g)
            /\ LeftIn(output, g) => LeftIn(output', g)
            /\ \A p : HoldsIn(output, g, p) => HoldsIn(output', g, p)
      BY <1>1, <3>1, <3>2, OtherFrame
    <3>6. QED BY <1>0, <1>3, <2>3, <2>5, <3>4, <3>5 DEF LogInv
  <2>6. QED BY <2>4, <2>5
<1>6. QED BY <1>1, <1>4, <1>5

LEMMA NextLog == SyncInv /\ TablesInv /\ EndingInv /\ LogInv /\ [Next]_vars => LogInv'
<1> SUFFICES ASSUME SyncInv, TablesInv, EndingInv, LogInv, [Next]_vars, faults' = 0 PROVE LogInv'
  BY DEF LogInv
<1>1. ASSUME Main, ~PrintRemains PROVE LogInv'
  <2>0. faults = 0
    <3>1. faults \in Nat
      BY SimAssumption DEF SyncInv, SyncTypeOK, SimAssumption
    <3>2. UNCHANGED faults \/ CallWorks \/ CallFails
      BY <1>1 DEF Main, LoopEnds, OrderError, NoRowNow, SpawnRow, MoveToNextRow,
         LockTables, ScanFrame, ScanDone, ReleaseHead, ThreadReleased, RelockTables, Tick,
         JoinThreads, FindLastEndTime, Cleanup
    <3>3. QED BY <3>1, <3>2 DEF CallWorks, CallFails
  <2>1. UNCHANGED <<output, frame_table>>
    BY <1>1, MainStep DEF Main, LoopEnds, OrderError, NoRowNow, SpawnRow, MoveToNextRow,
         LockTables, ScanFrame, ScanDone, ReleaseHead, ThreadReleased, RelockTables, Tick,
         JoinThreads, FindLastEndTime, Cleanup, tables
  <2>2. main_pc # "print" /\ main_pc # "exited"
    BY <1>1 DEF Main, MainGoto, LoopEnds, OrderError, NoRowNow, SpawnRow, MoveToNextRow,
         LockTables, ScanFrame, ScanDone, ReleaseHead, ThreadReleased, RelockTables, Tick,
         JoinThreads, FindLastEndTime, Cleanup
  <2>3. main_pc' = "print" => frame_ind' = 0
    BY <1>1 DEF Main, MainGoto, MainError, LoopEnds, OrderError, NoRowNow, SpawnRow, MoveToNextRow,
         LockTables, ScanFrame, ScanDone, ReleaseHead, ThreadReleased, RelockTables, Tick,
         JoinThreads, FindLastEndTime, Cleanup
  <2>4. main_pc = "cleanup" => main_pc' = "exited"
    BY <1>1 DEF Main, MainGoto, LoopEnds, OrderError, NoRowNow, SpawnRow, MoveToNextRow,
         LockTables, ScanFrame, ScanDone, ReleaseHead, ThreadReleased, RelockTables, Tick,
         JoinThreads, FindLastEndTime, Cleanup
  <2>5. result' \in {result, "ERROR_CODE"}
    BY <1>1 DEF Main, MainGoto, MainError, LoopEnds, OrderError, NoRowNow, SpawnRow, MoveToNextRow,
         LockTables, ScanFrame, ScanDone, ReleaseHead, ThreadReleased, RelockTables, Tick,
         JoinThreads, FindLastEndTime, Cleanup
  <2>6. \A f \in Frames : f >= 0 /\ ~(f < 0)
    BY DEF Frames
  <2>7. \A f \in Frames : (ToWriteOff(f)' => ToWriteOff(f)) /\ (WrittenOff(f)' => WrittenOff(f))
    BY <2>2, <2>3, <2>4, <2>5, <2>6 DEF ToWriteOff, WrittenOff
  <2>8. QED BY <2>0, <2>1, <2>7 DEF LogInv
<1>2. ASSUME NEW r \in Rows, Thread(r) PROVE LogInv'
  BY <1>2, ThreadKeepsLog
<1>3. ASSUME UNCHANGED vars PROVE LogInv'
  BY <1>3 DEF vars, tables, mainVars, LogInv, ToWriteOff, WrittenOff
<1>4. QED BY <1>1, <1>2, <1>3, PrintRemainsKeepsLog DEF Next, Exited

THEOREM LogInvariant == Spec => []LogInv
<1>1. Init => LogInv
  BY DEF Init, initial_tables, LogInv, Alternates, NeverIn
<1>2. QED BY <1>1, NextLog, SyncInvariant, TablesInvariant, EndingInvariant, PTL DEF Spec

(* The lines of each frame alternate, and the tables hold what the last of *)
(* them says.                                                              *)
THEOREM LogMatchesTablesHolds == Spec => []LogMatchesTables
<1>1. TablesInv /\ LogInv => LogMatchesTables
  <2> SUFFICES ASSUME TablesInv, LogInv, faults = 0 PROVE LogMatchesTables
    BY DEF LogMatchesTables
  <2>1. DOMAIN output = 1 .. Len(output)
    BY DEF TablesInv, TableParts, TablesTypeOK
  <2>2. Alternates(output)
    BY DEF LogInv
  <2>3. ASSUME main_pc \notin {"print", "cleanup", "exited"}, NEW f \in Frames
        PROVE  IF frame_table[f].end_time = Unused
               THEN \A i \in DOMAIN output : output[i].frame # f
               ELSE \E i \in DOMAIN output :
                      /\ output[i].frame = f /\ LastOfFrame(i)
                      /\ output[i].kind = "P" /\ output[i].page = frame_table[f].page_number
    BY <2>1, <2>3 DEF LogInv, ToWriteOff, NeverIn, HoldsIn, LastOfFrame, LastIn
  <2>4. QED
    BY <2>1, <2>2, <2>3 DEF LogMatchesTables, Alternates, OffIn, NextIn, WritesOff, NextOfFrame
<1>2. QED BY <1>1, TablesInvariant, LogInvariant, PTL

(* The end of the program is complete, and an error has a reason.          *)
THEOREM SuccessIsCompleteHolds == Spec => []SuccessIsComplete
<1>1. TablesInv /\ EndingInv /\ LogInv => SuccessIsComplete
  <2> SUFFICES ASSUME TablesInv, EndingInv, LogInv PROVE SuccessIsComplete
    OBVIOUS
  <2>1. output \in Seq(LogLine) /\ DOMAIN output = 1 .. Len(output) /\ Len(output) \in Nat
    BY DEF TablesInv, TableParts, TablesTypeOK
  <2>2. ASSUME result = "SUCCESS_CODE", faults = 0, NEW i \in 1 .. Len(output), output[i].kind = "P"
        PROVE  \E j \in 1 .. Len(output) : WritesOff(j, i)
    <3>1. Alternates(output)
      BY <2>2 DEF LogInv
    <3>2. PICK f \in Frames : f = output[i].frame
      <4>1. output[i] \in LogLine
        BY <2>1, <2>2
      <4>2. QED BY <4>1 DEF LogLine
    <3>3. ~LastIn(output, i)
      <4>1. ~NeverIn(output, f)
        BY <3>2 DEF NeverIn
      <4>2. LeftIn(output, f)
        BY <2>2, <4>1 DEF LogInv, WrittenOff
      <4>3. QED BY <2>2, <3>2, <4>2 DEF LeftIn
    <3> DEFINE T == {k \in i + 1 .. Len(output) : output[k].frame = f}
    <3>4. T \subseteq Nat /\ T # {}
      BY <2>1, <3>2, <3>3 DEF LastIn
    <3>5. PICK j \in T : \A k \in T : j =< k
      <4>1. Min(T) \in T /\ \A k \in T : Min(T) =< k
        BY <3>4, MinInSet
      <4>2. QED BY <4>1
    <3>6. j \in 1 .. Len(output) /\ i < j /\ output[j].frame = f
      BY <2>1, <3>5
    <3>7. NextIn(output, i, j)
      <4>1. ASSUME NEW k \in i + 1 .. j - 1 PROVE output[k].frame # f
        <5>1. k \in i + 1 .. Len(output) /\ ~(j =< k)
          BY <2>1, <3>6, <4>1
        <5>2. QED BY <3>5, <5>1
      <4>2. QED BY <3>2, <3>6, <4>1 DEF NextIn
    <3>8. output[j].kind # "P"
      BY <2>2, <3>1, <3>6, <3>7 DEF Alternates
    <3>9. output[j].kind = "E"
      <4>1. output[j] \in LogLine
        BY <2>1, <3>6
      <4>2. QED BY <3>8, <4>1 DEF LogLine
    <3>10. PICK h \in 1 .. Len(output) : OffIn(output, j, h)
      BY <3>1, <3>6, <3>9 DEF Alternates
    <3>11. h = i
      <4>1. NextIn(output, h, j) /\ output[h].frame = f
        BY <3>6, <3>10 DEF OffIn, NextIn
      <4>2. CASE h < i
        <5>1. i \in h + 1 .. j - 1
          BY <2>1, <3>6, <4>2
        <5>2. QED BY <3>2, <3>6, <4>1, <5>1 DEF NextIn
      <4>3. CASE i < h
        <5>1. h \in i + 1 .. j - 1
          BY <2>1, <3>6, <4>1, <4>3 DEF NextIn
        <5>2. QED BY <3>6, <3>7, <4>1, <5>1 DEF NextIn
      <4>4. QED BY <2>1, <4>2, <4>3
    <3>12. QED BY <3>6, <3>10, <3>11 DEF WritesOff, NextOfFrame, OffIn, NextIn
  <2>3. result = "SUCCESS_CODE" => \A r \in Rows : thread_pc[r] = "success"
    BY DEF EndingInv, JoinedInv
  <2>4. QED BY <2>1, <2>2, <2>3 DEF SuccessIsComplete, EndingInv, ReasonInv, ErrorReason
<1>2. QED BY <1>1, TablesInvariant, EndingInvariant, LogInvariant, PTL

-----------------------------------------------------------------------------
(* The threads do together what PagingService promises. *)

(* The bound of the promise: no call fails.                                *)
NoCallFails == MaxFaults = 0

Asked(r) == [row |-> r, page |-> Page(r), work |-> WorkTime(r), at |-> CallTime(r)]
Requests == [row : Rows, page : Pages, work : Nat, at : Int]
Served   == {r \in Rows : HasPage(r)}
Waiting  == [i \in DOMAIN InLine |-> Asked(InLine[i])]
Memory   == [f \in Frames |-> IF frame_table[f].end_time = Unused
                              THEN NoPage ELSE frame_table[f].page_number]
Until    == [f \in Frames |-> frame_table[f].end_time]

(* The row in its first visit is the current one; who sleeps has no page;  *)
(* who waits found no empty frame, and no frame is ever emptied.           *)
WaiterInv ==
  /\ \A r \in Rows : InFirstVisit(r) => r = current_row_ind
  /\ \A r \in Rows : thread_pc[r] \in {"waitTurn", "reenter", "evict"} => ~update_table[r]
  /\ \A r \in Rows : Waits(r) => \A f \in Frames : frame_table[f].end_time # Unused

LEMMA ThreadKeepsWaiter ==
  ASSUME SyncInv, TablesInv, WaiterInv, NEW r \in Rows, Thread(r)
  PROVE  WaiterInv'
<1>1. UNCHANGED current_row_ind /\ \A s \in Rows : s # r => thread_pc'[s] = thread_pc[s]
  BY ThreadStep DEF mainVars
<1>2. \A s \in Rows : InFirstVisit(s)' => s = current_row_ind'
  BY <1>1, ThreadWakesNobody DEF WaiterInv
<1>3. ASSUME NEW s \in Rows, thread_pc'[s] \in {"waitTurn", "reenter", "evict"}
      PROVE  ~update_table'[s]
  <2>0. thread_pc \in [Rows -> ThreadPC] /\ update_table \in [Rows -> BOOLEAN]
    BY DEF SyncInv, SyncTypeOK
  <2>1. CASE UseResidentPage(r) \/ UseEmptyFrame(r)
    <3>1. \A t \in Rows : t # r => update_table'[t] = update_table[t]
      BY <2>0, <2>1 DEF UseResidentPage, UseEmptyFrame
    <3>2. thread_pc'[r] \in {"unlock", "error"}
      BY <2>0, <2>1 DEF UseResidentPage, UseEmptyFrame, ThreadGoto
    <3>3. QED BY <1>1, <1>3, <3>1, <3>2 DEF WaiterInv
  <2>2. CASE SignalMain(r)
    BY <1>1, <1>3, <2>0, <2>2 DEF SignalMain, ThreadGoto, WaiterInv
  <2>3. CASE ~UseResidentPage(r) /\ ~UseEmptyFrame(r) /\ ~SignalMain(r)
    <3>1. UNCHANGED update_table
      BY <2>3 DEF Thread, Enter, WaitForFrame, Unlock, TakeTurn, Reenter,
         UsePageBroughtIn, EvictAndPlace, SignalMainAgain, UnlockAgain
    <3>2. thread_pc'[r] \in {"reenter", "evict"} => thread_pc[r] \in {"waitTurn", "reenter", "evict"}
      BY ThreadMoves
    <3>3. thread_pc'[r] # "waitTurn"
      BY <2>0, <2>3, ThreadMoves DEF Thread, Enter, WaitForFrame, Unlock, TakeTurn, Reenter,
         UsePageBroughtIn, EvictAndPlace, SignalMainAgain, UnlockAgain, ThreadGoto
    <3>4. QED BY <1>1, <1>3, <3>1, <3>2, <3>3 DEF WaiterInv
  <2>4. QED BY <2>1, <2>2, <2>3
<1>4. \A f \in Frames : frame_table[f].end_time # Unused => frame_table'[f].end_time # Unused
  <2>1. CASE UNCHANGED tables
    BY <2>1 DEF tables
  <2>2. CASE \E f \in Frames : Placed(r, f)
    <3>1. PICK f \in Frames : Placed(r, f)
      BY <2>2
    <3>2. frame_table'[f].end_time # Unused
      <4>1. thread_pc[r] # "none"
        BY <3>1 DEF Placed
      <4>2. CallTime(r) \in Int /\ CallTime(r) >= 0 /\ WorkTime(r) \in Nat
            /\ g_current_time \in Int /\ frame_table[f].end_time \in Int
        BY <4>1, RequestTypes DEF SyncInv, SyncTypeOK, TablesInv, TableParts, TablesTypeOK, FrameEntry
      <4>3. QED BY <3>1, <4>2 DEF Placed, ResidentEffect, EmptyEffect, EvictEffect, Prolonged, max, Unused
    <3>3. QED BY <3>1, <3>2 DEF Placed, ResidentEffect, EmptyEffect, EvictEffect, Touches
  <2>3. QED BY <2>1, <2>2, ThreadEffect
<1>5. ASSUME NEW s \in Rows, Waits(s)' PROVE Waits(s) \/ WaitForFrame(r)
  <2>1. IsWoken(s)' => IsWoken(s)
    BY ThreadWakesNobody
  <2>2. WaitForFrame(r) \/ UNCHANGED thread_queue
    BY DEF Thread, Enter, UseResidentPage, UseEmptyFrame, Unlock, SignalMain, TakeTurn, Reenter,
       UsePageBroughtIn, EvictAndPlace, SignalMainAgain, UnlockAgain
  <2>3. QED BY <1>5, <2>1, <2>2 DEF Waits, Queued
<1>6. WaitForFrame(r) => \A f \in Frames : frame_table[f].end_time # Unused
  BY DEF WaitForFrame, EmptyFrames
<1>7. QED BY <1>2, <1>3, <1>4, <1>5, <1>6 DEF WaiterInv

LEMMA MainKeepsWaiter ==
  ASSUME SyncInv, TablesInv, WaiterInv, Main
  PROVE  WaiterInv'
<1>1. UNCHANGED <<update_table, frame_table>>
  BY MainStep
<1>2. CASE SpawnRow
  <2>1. /\ UNCHANGED <<current_row_ind, thread_queue, thread_semaphore>>
        /\ \A r \in Rows : \/ thread_pc'[r] = thread_pc[r]
                           \/ r = current_row_ind /\ thread_pc'[r] = "enter"
    BY <1>2 DEF SpawnRow, syncVars, SyncInv, SyncTypeOK
  <2>2. \A r \in Rows : Waits(r)' => Waits(r)
    BY <2>1 DEF Waits, Queued, IsWoken
  <2>3. \A r \in Rows : InFirstVisit(r)' => InFirstVisit(r) \/ r = current_row_ind
    BY <2>1 DEF InFirstVisit
  <2>4. QED BY <1>1, <2>1, <2>2, <2>3 DEF WaiterInv
<1>3. CASE ~SpawnRow
  <2>1. \A r \in Rows : thread_pc'[r] \in {thread_pc[r], "terminated"}
    BY <1>3, MainStep
  <2>2. ASSUME NEW r \in Rows, InFirstVisit(r)' PROVE r = current_row_ind'
    <3>1. InFirstVisit(r)
      BY <2>1, <2>2 DEF InFirstVisit
    <3>2. main_pc = "waitPlaced" /\ main_semaphore = 0
      BY <3>1 DEF SyncInv, HandOver
    <3>3. FALSE
      BY <1>3, <3>2 DEF Main, LoopEnds, OrderError, NoRowNow, MoveToNextRow, MainGoto,
         LockTables, ScanFrame, ScanDone, ReleaseHead, ThreadReleased, RelockTables, Tick,
         JoinThreads, FindLastEndTime, PrintRemains, Cleanup
    <3>4. QED BY <3>3
  <2>3. ASSUME NEW r \in Rows, Waits(r)' PROVE Waits(r)
    <3>1. CASE ReleaseHead
      <4>1. /\ thread_queue # <<>> /\ thread_queue' = Tail(thread_queue)
            /\ thread_semaphore' = [thread_semaphore EXCEPT ![Head(thread_queue)] = @ + 1]
            /\ UNCHANGED thread_pc
        BY <3>1 DEF ReleaseHead, threadVars
      <4>2. thread_queue \in Seq(Rows) /\ thread_semaphore \in [Rows -> Int]
        BY DEF SyncInv, SyncTypeOK
      <4>3. Queued(Head(thread_queue))
        <5>1. 1 \in 1 .. Len(thread_queue) /\ thread_queue[1] = Head(thread_queue)
          BY <4>1, <4>2
        <5>2. QED BY <5>1 DEF Queued
      <4>4. Queued(r)' => Queued(r)
        <5>1. \A i \in 1 .. Len(Tail(thread_queue)) :
                i + 1 \in 1 .. Len(thread_queue) /\ Tail(thread_queue)[i] = thread_queue[i + 1]
          BY <4>1, <4>2
        <5>2. QED BY <4>1, <5>1 DEF Queued
      <4>5. IsWoken(r)' => IsWoken(r) \/ r = Head(thread_queue)
        BY <4>1, <4>2 DEF IsWoken
      <4>6. QED BY <2>3, <4>3, <4>4, <4>5 DEF Waits
    <3>2. CASE ~ReleaseHead
      <4>1. UNCHANGED <<thread_queue, thread_semaphore>>
        BY <3>2, MainStep
      <4>2. QED BY <2>1, <2>3, <4>1 DEF Waits, Queued, IsWoken
    <3>3. QED BY <3>1, <3>2
  <2>4. QED BY <1>1, <2>1, <2>2, <2>3 DEF WaiterInv
<1>4. QED BY <1>2, <1>3

THEOREM WaiterInvariant == Spec => []WaiterInv
<1>1. Init => WaiterInv
  BY DEF Init, WaiterInv, InFirstVisit, Waits, Queued, IsWoken
<1>2. SyncInv /\ TablesInv /\ WaiterInv /\ [Next]_vars => WaiterInv'
  <2> SUFFICES ASSUME SyncInv, TablesInv, WaiterInv, [Next]_vars PROVE WaiterInv'
    OBVIOUS
  <2>1. CASE UNCHANGED vars
    BY <2>1 DEF vars, tables, mainVars, threadVars, syncVars, WaiterInv, InFirstVisit, Waits,
       Queued, IsWoken
  <2>2. QED BY <2>1, MainKeepsWaiter, ThreadKeepsWaiter DEF Next, Exited
<1>3. QED BY <1>1, <1>2, SyncInvariant, TablesInvariant, PTL DEF Spec

(* The line of the rows that wait: at most one of them is woken.           *)
LEMMA SetToSeqEmpty == SetToSeq({}) = <<>>
<1>1. Cardinality({}) = 0
  BY FS_EmptySet
<1>2. \A f \in [1 .. 0 -> {}] : f = <<>>
  <2> SUFFICES ASSUME NEW f \in [1 .. 0 -> {}] PROVE f = <<>>
    OBVIOUS
  <2>1. f \in Seq({}) /\ Len(f) = 0
    OBVIOUS
  <2>2. QED BY <2>1, EmptySeq
<1>3. <<>> \in [1 .. 0 -> {}] /\ IsInjective(<<>>)
  BY DEF IsInjective
<1>4. QED BY <1>1, <1>2, <1>3 DEF SetToSeq

LEMMA SetToSeqOne == ASSUME NEW e PROVE SetToSeq({e}) = <<e>>
<1>1. Cardinality({e}) = 1
  BY FS_Singleton
<1>2. \A f \in [1 .. 1 -> {e}] : f = <<e>>
  <2> SUFFICES ASSUME NEW f \in [1 .. 1 -> {e}] PROVE f = <<e>>
    OBVIOUS
  <2>1. f \in Seq({e}) /\ Len(f) = 1 /\ f[1] = e
    <3>1. f[1] = e /\ DOMAIN f = 1 .. 1
      OBVIOUS
    <3>2. f \in Seq({e})
      <4>1. [1 .. 1 -> {e}] \in {[1 .. n -> {e}] : n \in Nat}
        OBVIOUS
      <4>2. QED BY <4>1, SeqDef
    <3>3. Len(f) = 1
      <4>1. Len(f) \in Nat /\ DOMAIN f = 1 .. Len(f)
        BY SMTT(30), <3>2
      <4>2. 1 \in 1 .. Len(f) /\ ~(2 \in 1 .. Len(f))
        BY <3>1, <4>1
      <4>3. QED BY <4>1, <4>2
    <3>4. QED BY <3>1, <3>2, <3>3
  <2>2. <<e>> \in Seq({e}) /\ Len(<<e>>) = 1 /\ <<e>>[1] = e
    OBVIOUS
  <2>3. QED BY <2>1, <2>2, SeqEqual
<1>3. <<e>> \in [1 .. 1 -> {e}] /\ IsInjective(<<e>>)
  BY DEF IsInjective
<1>4. QED BY <1>1, <1>2, <1>3 DEF SetToSeq

LEMMA LineOfQueue ==
  ASSUME thread_queue \in Seq(Rows), \A r \in Rows : ~IsWoken(r)
  PROVE  InLine = thread_queue
<1>1. {r \in Rows : IsWoken(r)} = {}
  OBVIOUS
<1>2. InLine = <<>> \o thread_queue
  BY <1>1, SetToSeqEmpty DEF InLine
<1>3. QED BY <1>2

LEMMA LineOfWoken ==
  ASSUME SyncInv, NEW r \in Rows, IsWoken(r)
  PROVE  InLine = <<r>> \o thread_queue
<1>1. {s \in Rows : IsWoken(s)} = {r}
  BY DEF IsWoken, SyncInv, HandOver, Visiting, InSecondVisit
<1>2. QED BY <1>1, SetToSeqOne DEF InLine

LEMMA LineInRows ==
  ASSUME SyncInv
  PROVE  InLine \in Seq(Rows)
<1>0. thread_queue \in Seq(Rows)
  BY DEF SyncInv, SyncTypeOK
<1>1. CASE \E r \in Rows : IsWoken(r)
  <2>1. PICK r \in Rows : IsWoken(r)
    BY <1>1
  <2>2. <<r>> \in Seq(Rows)
    OBVIOUS
  <2>3. <<r>> \o thread_queue \in Seq(Rows)
    BY ONLY <1>0, <2>2, ConcatProperties
  <2>4. QED BY <2>1, <2>3, LineOfWoken
<1>2. CASE \A r \in Rows : ~IsWoken(r)
  BY <1>0, <1>2, LineOfQueue
<1>3. QED BY <1>1, <1>2

(* Who is in line waits, hence was started.                                *)
LEMMA InLineWaits ==
  ASSUME SyncInv, NEW i \in 1 .. Len(InLine)
  PROVE  InLine[i] \in Rows /\ Waits(InLine[i]) /\ thread_pc[InLine[i]] # "none"
<1>0. thread_queue \in Seq(Rows) /\ InLine \in Seq(Rows) /\ InLine[i] \in Rows
  BY LineInRows DEF SyncInv, SyncTypeOK
<1>1. Waits(InLine[i])
  <2>1. CASE \E r \in Rows : IsWoken(r)
    <3>1. PICK r \in Rows : IsWoken(r)
      BY <2>1
    <3>2. InLine = <<r>> \o thread_queue
      BY <3>1, LineOfWoken
    <3>3. InLine[i] = r \/ (i - 1 \in 1 .. Len(thread_queue) /\ InLine[i] = thread_queue[i - 1])
      BY <1>0, <3>2
    <3>4. QED BY <3>1, <3>3 DEF Waits, Queued
  <2>2. CASE \A r \in Rows : ~IsWoken(r)
    BY <1>0, <2>2, LineOfQueue DEF Waits, Queued
  <2>3. QED BY <2>1, <2>2
<1>2. ASSUME Queued(InLine[i]) PROVE thread_pc[InLine[i]] # "none"
  BY <1>2 DEF Queued, SyncInv, QueueInv, CellInv
<1>3. QED BY <1>0, <1>1, <1>2 DEF Waits, IsWoken

LEMMA WaitingSame ==
  ASSUME InLine' = InLine,
         \A i \in DOMAIN InLine : thread_input'[InLine[i]] = thread_input[InLine[i]]
  PROVE  Waiting' = Waiting
BY DEF Waiting, Asked, Page, CallTime, WorkTime

LEMMA WaitingGrows ==
  ASSUME InLine \in Seq(Rows), NEW r \in Rows, InLine' = Append(InLine, r),
         UNCHANGED thread_input
  PROVE  Waiting' = Append(Waiting, Asked(r))
<1> DEFINE S == {Asked(s) : s \in Rows}
           n == Len(InLine)
<1>1. n \in Nat /\ Waiting \in Seq(S) /\ Len(Waiting) = n /\ Asked(r) \in S
      /\ \A i \in 1 .. n : Waiting[i] = Asked(InLine[i])
  <2>1. n \in Nat /\ DOMAIN InLine = 1 .. n /\ \A i \in 1 .. n : InLine[i] \in Rows
    OBVIOUS
  <2>2. Waiting = [i \in 1 .. n |-> Asked(InLine[i])]
    BY <2>1 DEF Waiting
  <2>3. Waiting \in [1 .. n -> S]
    BY <2>1, <2>2
  <2> HIDE DEF S, n
  <2>4. Waiting \in Seq(S) /\ Len(Waiting) = n
    BY <2>1, <2>3
  <2>5. QED BY <2>1, <2>2, <2>4 DEF S
<1>2. /\ DOMAIN InLine' = 1 .. n + 1
      /\ \A i \in 1 .. n : InLine'[i] = InLine[i]
      /\ InLine'[n + 1] = r
  OBVIOUS
<1>3. Waiting' = [i \in 1 .. n + 1 |-> Asked(InLine'[i])]
  BY <1>2 DEF Waiting, Asked, Page, CallTime, WorkTime
<1> HIDE DEF S, n
<1>4. /\ Append(Waiting, Asked(r)) \in Seq(S)
      /\ Len(Append(Waiting, Asked(r))) = n + 1
      /\ \A i \in 1 .. n : Append(Waiting, Asked(r))[i] = Asked(InLine[i])
      /\ Append(Waiting, Asked(r))[n + 1] = Asked(r)
  BY <1>1, AppendProperties
<1>5. PICK w : w = Append(Waiting, Asked(r))
  OBVIOUS
<1>7. w \in Seq(S) /\ Len(w) = n + 1 /\ n \in Nat
  BY <1>1, <1>4, <1>5
<1>8. w = [i \in 1 .. n + 1 |-> w[i]]
  BY <1>7
<1>9. \A i \in 1 .. n + 1 : w[i] = Asked(InLine'[i])
  BY <1>1, <1>2, <1>4, <1>5
<1>10. QED BY <1>3, <1>5, <1>8, <1>9

LEMMA WaitingShrinks ==
  ASSUME NEW r \in Rows, thread_queue \in Seq(Rows), InLine = <<r>> \o thread_queue,
         InLine' = thread_queue, UNCHANGED thread_input
  PROVE  Waiting # <<>> /\ Head(Waiting) = Asked(r) /\ Waiting' = Tail(Waiting)
<1> DEFINE n == Len(thread_queue)
<1>1. n \in Nat /\ DOMAIN thread_queue = 1 .. n /\ \A i \in 1 .. n : thread_queue[i] \in Rows
  OBVIOUS
<1>2. /\ InLine[1] = r /\ DOMAIN InLine = 1 .. n + 1
      /\ \A i \in 1 .. n : InLine[i + 1] = thread_queue[i]
  <2>1. <<r>> \in Seq(Rows) /\ Len(<<r>>) = 1 /\ <<r>>[1] = r
    OBVIOUS
  <2>2. /\ InLine \in Seq(Rows) /\ Len(InLine) = 1 + n
        /\ \A i \in 1 .. 1 + n : InLine[i] = IF i =< 1 THEN <<r>>[i] ELSE thread_queue[i - 1]
    BY <2>1, ConcatProperties
  <2>3. QED BY <1>1, <2>1, <2>2
<1>3. Waiting = [i \in 1 .. n + 1 |-> Asked(InLine[i])]
  BY <1>2 DEF Waiting
<1>4. Waiting' = [i \in 1 .. n |-> Asked(thread_queue[i])]
  BY <1>1 DEF Waiting, Asked, Page, CallTime, WorkTime
<1> HIDE DEF n
<1>5. PICK w : w = Waiting
  OBVIOUS
<1> DEFINE S == {Asked(s) : s \in Rows}
<1>6. w \in [1 .. n + 1 -> S]
  <2>1. \A i \in 1 .. n + 1 : InLine[i] \in Rows
    <3>1. \A i \in 1 .. n + 1 : i = 1 \/ (i - 1 \in 1 .. n /\ InLine[i] = InLine[(i - 1) + 1])
      BY <1>1
    <3>2. QED BY <1>1, <1>2, <3>1
  <2>2. QED BY <1>3, <1>5, <2>1
<1>7. w[1] = Asked(r) /\ \A i \in 1 .. n : w[i + 1] = Asked(thread_queue[i])
  BY <1>1, <1>2, <1>3, <1>5
<1> HIDE DEF S
<1>8. w \in Seq(S) /\ Len(w) = n + 1
  BY <1>1, <1>6
<1>9. w # <<>> /\ Head(w) = w[1] /\ Tail(w) = [i \in 1 .. n |-> w[i + 1]]
  <2>1. w # <<>>
    BY <1>1, <1>8
  <2>2. Head(w) = w[1]
    BY <1>8, <2>1
  <2>3. /\ Tail(w) \in Seq(S) /\ Len(Tail(w)) = n
        /\ \A i \in 1 .. n : Tail(w)[i] = w[i + 1]
    BY <1>1, <1>8, <2>1, HeadTailProperties
  <2>4. PICK t : t = Tail(w)
    OBVIOUS
  <2>5. t \in Seq(S) /\ Len(t) = n /\ n \in Nat
    BY <1>1, <2>3, <2>4
  <2>6. t = [i \in 1 .. n |-> t[i]]
    BY <2>5
  <2>7. QED BY <2>1, <2>2, <2>3, <2>4, <2>6
<1>10. QED BY <1>4, <1>5, <1>7, <1>9

(* When main looks for the next row, and when a thread tries its page,     *)
(* every row before the current one has its page or is in the queue.       *)
LEMMA EarlierRows ==
  ASSUME SyncInv, EndingInv, TurnInv, WaiterInv,
         main_pc = "loop" \/ \E r \in Rows : thread_pc[r] = "place",
         NEW s \in Rows
  PROVE  /\ ~IsWoken(s)
         /\ ~(HasPage(s) /\ Queued(s))
         /\ HasPage(s) \/ Queued(s) <=> s < current_row_ind
<1>1. /\ main_pc # "exited"
      /\ \/ main_pc = "loop" /\ \A r \in Rows : ~Visiting(r)
         \/ /\ main_pc = "waitPlaced" /\ thread_pc[current_row_ind] = "place"
            /\ current_row_ind \in Rows
            /\ \A r \in Rows : Visiting(r) => r = current_row_ind
  <2>1. CASE main_pc = "loop"
    BY <2>1, NobodyAwake DEF Visiting
  <2>2. ASSUME NEW r \in Rows, thread_pc[r] = "place"
        PROVE  /\ main_pc = "waitPlaced" /\ thread_pc[current_row_ind] = "place"
               /\ current_row_ind \in Rows
               /\ \A t \in Rows : Visiting(t) => t = current_row_ind
    <3>1. InFirstVisit(r) /\ Visiting(r)
      BY <2>2 DEF InFirstVisit, Visiting
    <3>2. QED BY <2>2, <3>1 DEF WaiterInv, SyncInv, HandOver
  <2>3. QED BY <2>1, <2>2
<1>2. ~IsWoken(s)
  <2>1. IsWoken(s) => Visiting(s) /\ thread_pc[s] # "place"
    BY DEF IsWoken, Visiting, InSecondVisit
  <2>2. QED BY <1>1, <2>1
<1>3. thread_pc[s] \notin {"error", "terminated"}
  <2>1. thread_pc[s] = "error" => main_pc = "waitPlaced" /\ \A r \in Rows : ~Visiting(r)
    BY DEF EndingInv, FailedInv
  <2>2. thread_pc[current_row_ind] = "place" /\ current_row_ind \in Rows => Visiting(current_row_ind)
    BY DEF Visiting, InFirstVisit
  <2>3. thread_pc[s] # "error"
    BY <1>1, <2>1, <2>2
  <2>4. QED BY <1>1, <2>3 DEF EndingInv, FailedInv
<1>4. Queued(s) => thread_pc[s] \in {"unlock", "signal", "waitTurn"} /\ ~update_table[s]
  BY <1>3 DEF Queued, SyncInv, QueueInv, CellInv, WaiterInv
<1>5. ~(HasPage(s) /\ Queued(s))
  BY <1>4 DEF HasPage
<1>6. ASSUME s < current_row_ind PROVE HasPage(s) \/ Queued(s)
  <2>1. thread_pc[s] # "none" /\ thread_pc[s] \in ThreadPC
    BY <1>6 DEF TurnInv, SyncInv, SyncTypeOK
  <2>2. ~Visiting(s)
    <3>1. s # current_row_ind
      BY <1>6 DEF SyncInv, SyncTypeOK, Rows
    <3>2. QED BY <1>1, <3>1
  <2>3. thread_pc[s] = "success" \/ (thread_pc[s] = "waitTurn" /\ ~(thread_semaphore[s] > 0))
    BY <1>3, <2>1, <2>2 DEF ThreadPC, Visiting, InFirstVisit, InSecondVisit
  <2>4. thread_semaphore[s] \in {0, 1}
    BY DEF SyncInv, QueueInv, SleeperInv
  <2>5. QED BY <2>3, <2>4 DEF HasPage, SyncInv, QueueInv, SleeperInv
<1>7. ASSUME ~(s < current_row_ind) PROVE ~HasPage(s) /\ ~Queued(s)
  <2>1. s > current_row_ind \/ s = current_row_ind
    BY <1>7 DEF SyncInv, SyncTypeOK, Rows
  <2>2. thread_pc[s] \in {"none", "place"} /\ ~update_table[s]
    <3>1. CASE s > current_row_ind \/ main_pc = "loop"
      BY <2>1, <3>1 DEF SyncInv, QueueInv, SleeperInv
    <3>2. CASE s = current_row_ind /\ main_pc # "loop"
      <4>1. \E r \in Rows : thread_pc[r] = "place"
        BY <3>2
      <4>2. thread_pc[s] = "place"
        BY <3>2, <4>1 DEF InFirstVisit, WaiterInv
      <4>3. QED BY <4>2 DEF SyncInv, QueueInv, SleeperInv
    <3>3. QED BY <2>1, <3>1, <3>2
  <2>3. QED BY <1>4, <2>2 DEF HasPage
<1>8. QED BY <1>2, <1>5, <1>6, <1>7

LEMMA RowsAccounted ==
  ASSUME SyncInv, EndingInv, TurnInv, WaiterInv,
         main_pc = "loop" \/ \E r \in Rows : thread_pc[r] = "place"
  PROVE  /\ InLine = thread_queue
         /\ Cardinality(Served) + Len(Waiting) = current_row_ind
<1> DEFINE n == Len(thread_queue)
           Q == {s \in Rows : Queued(s)}
<1>1. thread_queue \in Seq(Rows) /\ current_row_ind \in 0 .. NumRows /\ NumRows \in Nat
  BY SimAssumption DEF SyncInv, SyncTypeOK, SimAssumption
<1>2. InLine = thread_queue
  BY <1>1, LineOfQueue, EarlierRows
<1>3. Len(Waiting) = n /\ n \in Nat
  <2>1. n \in Nat /\ DOMAIN thread_queue = 1 .. n /\ \A i \in 1 .. n : thread_queue[i] \in Rows
    BY <1>1
  <2>2. Waiting = [i \in 1 .. n |-> Asked(thread_queue[i])]
    BY <1>2, <2>1 DEF Waiting
  <2>3. Waiting \in [1 .. n -> {Asked(s) : s \in Rows}]
    BY <2>1, <2>2
  <2> HIDE DEF n
  <2>4. QED BY <2>1, <2>3
<1>4. Cardinality(Q) = n
  <2>1. thread_queue \in [1 .. n -> Q]
    <3>1. \A i \in 1 .. n : thread_queue[i] \in Q
      BY <1>1 DEF Queued
    <3>2. QED BY <1>1, <3>1
  <2>2. \A q \in Q : \E i \in 1 .. n : thread_queue[i] = q
    BY DEF Queued
  <2>3. IsInjective(thread_queue)
    BY <1>1 DEF SyncInv, QueueInv, CellInv, IsInjective
  <2>4. thread_queue \in Bijection(1 .. n, Q)
    BY <2>1, <2>2, <2>3 DEF Bijection, Injection, Surjection
  <2>5. ExistsBijection(1 .. n, Q)
    BY <2>4 DEF ExistsBijection
  <2> HIDE DEF n, Q
  <2>6. QED BY <1>3, <2>5, FS_CountingElements
<1>5. Served \cup Q = 0 .. current_row_ind - 1 /\ Served \cap Q = {}
  <2>1. \A s \in Rows : /\ ~(HasPage(s) /\ Queued(s))
                        /\ HasPage(s) \/ Queued(s) <=> s < current_row_ind
    BY EarlierRows
  <2>2. \A s : s \in 0 .. current_row_ind - 1 <=> s \in Rows /\ s < current_row_ind
    BY <1>1 DEF Rows
  <2>3. QED BY <2>1, <2>2 DEF Served
<1> HIDE DEF n, Q
<1>6. IsFiniteSet(0 .. current_row_ind - 1) /\ Cardinality(0 .. current_row_ind - 1) = current_row_ind
  BY <1>1, FS_Interval
<1>7. IsFiniteSet(Served) /\ IsFiniteSet(Q)
  BY <1>5, <1>6, FS_Subset
<1>8. /\ Cardinality(Served \cup Q) = Cardinality(Served) + Cardinality(Q) - Cardinality(Served \cap Q)
      /\ Cardinality(Served) \in Nat
  BY <1>7, FS_Union, FS_CardinalityType
<1>9. Cardinality(Served \cup Q) = current_row_ind /\ Cardinality(Served \cap Q) = 0
  BY <1>5, <1>6, FS_EmptySet
<1>10. QED BY <1>1, <1>2, <1>3, <1>4, <1>8, <1>9

RunInv == /\ SyncInv /\ TablesInv /\ EndingInv /\ CallInv /\ FreshInv /\ ScanInv
          /\ TurnInv /\ ExactInv /\ WaiterInv

(* What PagingService sees of the memory.                                  *)
LEMMA FrameSeen ==
  ASSUME TablesInv, NEW f \in Frames
  PROVE  /\ Until[f] = frame_table[f].end_time /\ Until[f] \in Int
         /\ frame_table[f].end_time = Unused => Memory[f] = NoPage
         /\ frame_table[f].end_time # Unused =>
              Memory[f] = frame_table[f].page_number /\ Memory[f] \in Pages
BY DEF Until, Memory, TablesInv, TableParts, TablesTypeOK, FrameEntry, FrameToPage

LEMMA FrameUsed ==
  ASSUME TablesInv, NEW r \in Rows, NEW f \in Frames, Touches(f),
         frame_table'[f].page_number = Page(r), frame_table'[f].end_time # Unused
  PROVE  /\ Service!UseFrame(f, Asked(r))
         /\ Until'[f] = frame_table'[f].end_time
<1>1. Memory' = [Memory EXCEPT ![f] = Page(r)]
  BY DEF Memory, Touches
<1>2. DOMAIN Until' = Frames /\ \A g \in Frames \ {f} : Until'[g] = Until[g]
  BY DEF Until, Touches
<1>3. Asked(r).page = Page(r)
  BY DEF Asked
<1>4. Until'[f] = frame_table'[f].end_time
  BY DEF Until
<1>5. QED BY <1>1, <1>2, <1>3, <1>4 DEF Service!UseFrame, Memory, Until

(* A page that is not valid is in no frame, and no page is nowhere.        *)
LEMMA NotResident ==
  ASSUME TablesInv, NEW p \in Pages, ~page_table[p].valid
  PROVE  ~Service!Resident(p)
<1>1. \A f \in Frames : Memory[f] # p
  BY FrameSeen, TablesAssumption DEF TablesAssumption, TablesInv, TableParts, FrameToPage
<1>2. QED BY <1>1 DEF Service!Resident, Memory

LEMMA NoneEmpty ==
  ASSUME TablesInv, \A f \in Frames : frame_table[f].end_time # Unused
  PROVE  ~Service!Resident(NoPage)
<1>1. \A f \in Frames : Memory[f] # NoPage
  BY FrameSeen, TablesAssumption DEF TablesAssumption
<1>2. QED BY <1>1 DEF Service!Resident, Memory

(* The clock is turned back when main starts a row, at no other time.      *)
LEMMA TurnedSame ==
  ASSUME UNCHANGED thread_input,
         \A r \in Rows : thread_pc'[r] # "none" <=> thread_pc[r] # "none"
  PROVE  ClockNeverTurned' <=> ClockNeverTurned
BY DEF ClockNeverTurned, CallTime

LEMMA WorkIsPositive ==
  ASSUME PositiveWork, CallInv, NEW r \in Rows, thread_pc[r] # "none"
  PROVE  WorkTime(r) \in WorkTimes /\ WorkTime(r) \in Nat /\ WorkTime(r) > 0
<1>1. WorkTime(r) \in WorkTimes
  BY DEF CallInv
<1>2. WorkTime(r) \in Nat /\ WorkTime(r) # 0
  BY <1>1, SimAssumption DEF SimAssumption, PositiveWork
<1>3. QED BY <1>1, <1>2

LEMMA Prolongs ==
  ASSUME PositiveWork, RunInv, NEW r \in Rows, thread_pc[r] # "none",
         NEW f \in Frames, ResidentEffect(r, f), UNCHANGED g_current_time
  PROVE  Service!Prolong(Asked(r))
<1>1. /\ CallTime(r) \in Int /\ CallTime(r) >= 0 /\ WorkTime(r) \in Nat /\ WorkTime(r) > 0
      /\ g_current_time \in Int /\ frame_table[f].end_time \in Int
  BY RequestTypes, WorkIsPositive DEF RunInv, SyncInv, SyncTypeOK, TablesInv, TableParts,
     TablesTypeOK, FrameEntry
<1>2. frame_table'[f].end_time # Unused
  BY <1>1 DEF ResidentEffect, Prolonged, max, Unused
<1>3. Service!UseFrame(f, Asked(r)) /\ Until'[f] = Prolonged(r, Until[f])
  BY <1>2, FrameUsed, FrameSeen DEF RunInv, ResidentEffect
<1>4. Memory[f] = Page(r) /\ Until[f] \in Int
  BY FrameSeen DEF RunInv, ResidentEffect
<1>5. PICK u \in Int, c \in Int : u = Until[f] /\ c = CallTime(r) + WorkTime(r)
  BY <1>1, <1>4
<1>6. Prolonged(r, Until[f]) \in {IF u > c THEN u ELSE c, (IF u > c THEN u ELSE c) + WorkTime(r)}
                                 \ {g_current_time}
  BY <1>1, <1>5 DEF Prolonged, max
<1>7. Asked(r).page = Page(r) /\ Asked(r).work = WorkTime(r) /\ Asked(r).at = CallTime(r)
  BY DEF Asked
<1>8. QED BY <1>3, <1>4, <1>5, <1>6, <1>7 DEF Service!Prolong, Memory, Until

(* The two modules mean the same by Cardinality.                           *)
LEMMA SameCardinality ==
  ASSUME NEW S
  PROVE  Service!Cardinality(S) = Cardinality(S)
BY DEF Service!Cardinality, Cardinality

(* A thread that tries its page: the row arrives.                          *)
LEMMA ArriveMaps ==
  ASSUME NEW r \in Rows, r < NumRows, Cardinality(Served) + Len(Waiting) = r,
         Page(r) \in Pages, WorkTime(r) \in WorkTimes, CallTime(r) = g_current_time,
         Service!ServeAtOnce(Asked(r)) \/ Service!StartWaiting(Asked(r))
  PROVE  Service!Arrive
<1>1. Service!NextRow = r
  BY SameCardinality DEF Service!NextRow, Served, Waiting, Asked
<1>2. Asked(r) = [row |-> Service!NextRow, page |-> Page(r), work |-> WorkTime(r),
                  at |-> g_current_time]
  BY <1>1 DEF Asked
<1>3. PICK p \in Pages, w \in WorkTimes : p = Page(r) /\ w = WorkTime(r)
  OBVIOUS
<1>4. LET row == [row |-> Service!NextRow, page |-> p, work |-> w, at |-> g_current_time]
      IN  Service!ServeAtOnce(row) \/ Service!StartWaiting(row)
  BY ZenonT(60), <1>2, <1>3 DEF Service!ServeAtOnce, Service!StartWaiting, Service!Prolong, Service!UseFrame
<1>5. Service!NextRow < NumRows
  BY <1>1
<1>6. QED BY <1>4, <1>5 DEF Service!Arrive

LEMMA PlaceIsArrival ==
  ASSUME PositiveWork, RunInv, NEW r \in Rows, thread_pc[r] = "place"
  PROVE  /\ r < NumRows /\ Cardinality(Served) + Len(Waiting) = r
         /\ Page(r) \in Pages /\ WorkTime(r) \in WorkTimes /\ CallTime(r) = g_current_time
         /\ InLine = thread_queue /\ \A s \in Rows : ~IsWoken(s)
<1>1. InFirstVisit(r) /\ r = current_row_ind
  BY DEF RunInv, WaiterInv, InFirstVisit
<1>2. r < NumRows
  BY SimAssumption DEF SimAssumption, Rows
<1>3. /\ Cardinality(Served) + Len(Waiting) = r
      /\ InLine = thread_queue /\ \A s \in Rows : ~IsWoken(s)
  BY <1>1, RowsAccounted, EarlierRows DEF RunInv
<1>4. CallTime(r) = g_current_time
  BY <1>1 DEF RunInv, CallInv
<1>5. QED BY <1>2, <1>3, <1>4, RequestTypes, WorkIsPositive DEF RunInv

(* Nobody is woken, so the line is the queue, before and after.            *)
LEMMA LineAfterPlace ==
  ASSUME RunInv, NEW r \in Rows, Thread(r), thread_pc[r] = "place"
  PROVE  InLine' = thread_queue' /\ (UNCHANGED thread_queue => UNCHANGED Waiting)
<1>1. \A s \in Rows : ~IsWoken(s)
  BY EarlierRows DEF RunInv
<1>2. \A s \in Rows : ~IsWoken(s)'
  BY <1>1, ThreadWakesNobody DEF RunInv
<1>3. thread_queue' \in Seq(Rows) /\ thread_queue \in Seq(Rows)
  <2>1. thread_queue' = thread_queue \/ thread_queue' = Append(thread_queue, r)
    BY ThreadEffect DEF RunInv
  <2>2. thread_queue \in Seq(Rows)
    BY DEF RunInv, SyncInv, SyncTypeOK
  <2>3. Append(thread_queue, r) \in Seq(Rows)
    BY ONLY <2>2, r \in Rows, AppendProperties
  <2>4. QED BY <2>1, <2>2, <2>3
<1>4. InLine = thread_queue
  BY <1>1, <1>3, LineOfQueue
<1>5. {s \in Rows : IsWoken(s)'} = {}
  BY <1>2
<1>6. InLine' = <<>> \o thread_queue'
  BY <1>5, SetToSeqEmpty DEF InLine
<1>7. InLine' = thread_queue'
  BY <1>3, <1>6
<1>8. UNCHANGED thread_input
  BY ThreadEffect DEF RunInv
<1>9. QED BY <1>4, <1>7, <1>8, WaitingSame

LEMMA UseResidentArrives ==
  ASSUME PositiveWork, NoCallFails, RunInv, NEW r \in Rows, UseResidentPage(r)
  PROVE  Service!Arrive
<1>1. /\ thread_pc[r] = "place" /\ page_table[Page(r)].valid /\ Thread(r)
      /\ update_frame_in_table(Page(r), CallTime(r), WorkTime(r), g_current_time)
      /\ UNCHANGED <<g_current_time, thread_queue, thread_input>>
      /\ thread_pc' = [thread_pc EXCEPT ![r] = "unlock"]
      /\ update_table' = [update_table EXCEPT ![r] = TRUE]
  BY DEF UseResidentPage, ThreadGoto, Thread
<1>2. PICK f \in Frames : ResidentEffect(r, f)
  BY <1>1, UpdateEffect DEF RunInv
<1>3. Service!Prolong(Asked(r))
  BY <1>1, <1>2, Prolongs
<1>4. Served' = Served \cup {r}
  BY <1>1 DEF Served, HasPage, RunInv, SyncInv, SyncTypeOK
<1>5. UNCHANGED Waiting
  BY <1>1, LineAfterPlace
<1>6. ClockNeverTurned' <=> ClockNeverTurned
  BY <1>1, ThreadWakesNobody, TurnedSame DEF RunInv
<1>7. Asked(r).row = r
  BY DEF Asked
<1>8. Service!ServeAtOnce(Asked(r))
  BY <1>1, <1>3, <1>4, <1>5, <1>6, <1>7 DEF Service!ServeAtOnce, Served, Waiting, Asked
<1>9. QED BY <1>1, <1>8, PlaceIsArrival, ArriveMaps

LEMMA UseEmptyArrives ==
  ASSUME PositiveWork, NoCallFails, RunInv, NEW r \in Rows, UseEmptyFrame(r)
  PROVE  Service!Arrive
<1>0. ~CallFails
  BY DEF NoCallFails, RunInv, SyncInv, SyncTypeOK, CallFails
<1>1. /\ thread_pc[r] = "place" /\ ~page_table[Page(r)].valid /\ Thread(r)
      /\ UNCHANGED <<g_current_time, thread_queue, thread_input>>
      /\ thread_pc' = [thread_pc EXCEPT ![r] = "unlock"]
      /\ update_table' = [update_table EXCEPT ![r] = TRUE]
  BY <1>0 DEF UseEmptyFrame, Thread
<1>2. PICK f \in Frames : EmptyEffect(r, f)
  BY UseEmptyEffect DEF RunInv
<1>3. /\ Page(r) \in Pages /\ CallTime(r) = g_current_time /\ CallTime(r) \in Int
      /\ CallTime(r) >= 0 /\ WorkTime(r) \in Nat
  BY <1>1, RequestTypes, PlaceIsArrival DEF RunInv
<1>4. frame_table'[f].end_time = g_current_time + WorkTime(r) /\ frame_table'[f].end_time # Unused
  BY <1>2, <1>3 DEF EmptyEffect, Unused
<1>5. /\ Service!UseFrame(f, Asked(r)) /\ Until'[f] = g_current_time + WorkTime(r)
      /\ Memory[f] = NoPage
  BY <1>2, <1>4, FrameUsed, FrameSeen DEF RunInv, EmptyEffect
<1>6. ~Service!Resident(Page(r))
  BY <1>1, <1>3, NotResident DEF RunInv
<1>7. Served' = Served \cup {r}
  BY <1>1 DEF Served, HasPage, RunInv, SyncInv, SyncTypeOK
<1>8. UNCHANGED Waiting
  BY <1>1, LineAfterPlace
<1>9. ClockNeverTurned' <=> ClockNeverTurned
  BY <1>1, ThreadWakesNobody, TurnedSame DEF RunInv
<1>10. Asked(r).row = r /\ Asked(r).page = Page(r) /\ Asked(r).work = WorkTime(r)
  BY DEF Asked
<1>11. Service!ServeAtOnce(Asked(r))
  BY <1>1, <1>5, <1>6, <1>7, <1>8, <1>9, <1>10
     DEF Service!ServeAtOnce, Served, Waiting, Asked, Memory, Until
<1>12. QED BY <1>1, <1>11, PlaceIsArrival, ArriveMaps

LEMMA WaitForFrameArrives ==
  ASSUME PositiveWork, NoCallFails, RunInv, NEW r \in Rows, WaitForFrame(r)
  PROVE  Service!Arrive
<1>0. ~CallFails
  BY DEF NoCallFails, RunInv, SyncInv, SyncTypeOK, CallFails
<1>1. /\ thread_pc[r] = "place" /\ ~page_table[Page(r)].valid /\ Thread(r)
      /\ thread_queue' = Append(thread_queue, r)
      /\ UNCHANGED <<g_current_time, thread_input, frame_table, update_table>>
      /\ thread_pc' = [thread_pc EXCEPT ![r] = "unlock"]
      /\ \A f \in Frames : frame_table[f].end_time # Unused
  BY <1>0 DEF WaitForFrame, Thread, add_to_thread_queue, threadVars, tables, EmptyFrames
<1>2. Waiting' = Append(Waiting, Asked(r))
  <2>1. InLine = thread_queue /\ InLine' = thread_queue'
    BY <1>1, LineAfterPlace, PlaceIsArrival
  <2>2. InLine \in Seq(Rows)
    BY LineInRows DEF RunInv
  <2>3. QED BY <1>1, <2>1, <2>2, WaitingGrows
<1>3. ~Service!Resident(Page(r)) /\ ~Service!Resident(NoPage)
  BY <1>1, NotResident, NoneEmpty, RequestTypes DEF RunInv
<1>4. Served' = Served
  BY <1>1 DEF Served, HasPage, RunInv, SyncInv, SyncTypeOK
<1>5. UNCHANGED <<Memory, Until>>
  BY <1>1 DEF Memory, Until
<1>6. ClockNeverTurned' <=> ClockNeverTurned
  BY <1>1, ThreadWakesNobody, TurnedSame DEF RunInv
<1>7. Asked(r).page = Page(r)
  BY DEF Asked
<1>8. Service!StartWaiting(Asked(r))
  BY <1>1, <1>2, <1>3, <1>4, <1>5, <1>6, <1>7
     DEF Service!StartWaiting, Served, Waiting, Asked, Memory, Until
<1>9. QED BY <1>1, <1>8, PlaceIsArrival, ArriveMaps

(* A woken thread that has the mutex: the first row of the line is served. *)
LEMMA EvictIsFirst ==
  ASSUME RunInv, NEW r \in Rows, Thread(r), thread_pc[r] = "evict"
  PROVE  /\ Waiting # <<>> /\ Head(Waiting) = Asked(r) /\ Waiting' = Tail(Waiting)
         /\ Served' = Served \cup {r}
         /\ ClockNeverTurned' <=> ClockNeverTurned
         /\ UNCHANGED <<g_current_time, thread_input>>
<1>1. UNCHANGED <<thread_input, g_current_time>>
  BY ThreadEffect, ThreadStep DEF RunInv
<1>2. /\ thread_pc'[r] = "resignal" /\ UNCHANGED update_table
      /\ \A s \in Rows : s # r => thread_pc'[s] = thread_pc[s]
      /\ UNCHANGED thread_queue
  <2>1. thread_pc'[r] = "resignal" /\ \A s \in Rows : s # r => thread_pc'[s] = thread_pc[s]
    BY ThreadMoves, ThreadStep DEF RunInv
  <2>2. UsePageBroughtIn(r) \/ EvictAndPlace(r)
    BY DEF Thread, Enter, UseResidentPage, UseEmptyFrame, WaitForFrame, Unlock, SignalMain,
           TakeTurn, Reenter, SignalMainAgain, UnlockAgain, ThreadGoto
  <2>3. QED BY <2>1, <2>2 DEF UsePageBroughtIn, EvictAndPlace
<1>3. InLine = <<r>> \o thread_queue
  BY LineOfWoken DEF RunInv, IsWoken
<1>4. thread_queue \in Seq(Rows)
  BY DEF RunInv, SyncInv, SyncTypeOK
<1>5. InLine' = thread_queue
  <2>1. \A s \in Rows : ~IsWoken(s)'
    <3>1. ~IsWoken(r)'
      BY <1>2 DEF IsWoken
    <3>2. ASSUME NEW s \in Rows, IsWoken(s)' PROVE s = r
      <4>1. IsWoken(s)
        BY <3>2, ThreadWakesNobody DEF RunInv
      <4>2. Visiting(s) /\ Visiting(r)
        BY <4>1 DEF IsWoken, Visiting, InSecondVisit
      <4>3. QED BY <4>2 DEF RunInv, SyncInv, HandOver
    <3>3. QED BY <3>1, <3>2
  <2>2. {s \in Rows : IsWoken(s)'} = {}
    BY <2>1
  <2>3. InLine' = <<>> \o thread_queue'
    BY <2>2, SetToSeqEmpty DEF InLine
  <2>4. QED BY <1>2, <1>4, <2>3
<1>6. Served' = Served \cup {r}
  BY <1>2 DEF Served, HasPage
<1>7. ClockNeverTurned' <=> ClockNeverTurned
  BY <1>1, ThreadWakesNobody, TurnedSame DEF RunInv
<1>8. QED BY <1>1, <1>3, <1>4, <1>5, <1>6, <1>7, WaitingShrinks

LEMMA BroughtInServesFirst ==
  ASSUME PositiveWork, RunInv, NEW r \in Rows, UsePageBroughtIn(r)
  PROVE  Service!ServeFirst
<1>1. /\ thread_pc[r] = "evict" /\ page_table[Page(r)].valid /\ Thread(r)
      /\ update_frame_in_table(Page(r), CallTime(r), WorkTime(r), g_current_time)
  BY DEF UsePageBroughtIn, ThreadGoto, Thread
<1>2. PICK f \in Frames : ResidentEffect(r, f)
  BY <1>1, UpdateEffect DEF RunInv
<1>3. /\ Waiting # <<>> /\ Head(Waiting) = Asked(r) /\ Waiting' = Tail(Waiting)
      /\ Served' = Served \cup {r}
      /\ ClockNeverTurned' <=> ClockNeverTurned
      /\ UNCHANGED <<g_current_time, thread_input>>
  BY <1>1, EvictIsFirst
<1>4. Service!Prolong(Asked(r))
  BY <1>1, <1>2, <1>3, Prolongs
<1>5. Service!Prolong(Head(Waiting))
  BY <1>3, <1>4 DEF Service!Prolong, Service!UseFrame
<1>6. Head(Waiting).row = r
  BY <1>3 DEF Asked
<1>7. QED BY <1>3, <1>5, <1>6 DEF Service!ServeFirst, Waiting, Asked, Served

LEMMA EvictionServesFirst ==
  ASSUME PositiveWork, RunInv, NEW r \in Rows, EvictAndPlace(r)
  PROVE  Service!ServeFirst
<1>1. thread_pc[r] = "evict" /\ ~page_table[Page(r)].valid /\ Thread(r)
  BY DEF EvictAndPlace, ThreadGoto, Thread
<1>2. PICK f \in Frames : EvictEffect(r, f)
  BY EvictAndPlaceEffect DEF RunInv
<1>3. /\ Waiting # <<>> /\ Head(Waiting) = Asked(r) /\ Waiting' = Tail(Waiting)
      /\ Served' = Served \cup {r}
      /\ ClockNeverTurned' <=> ClockNeverTurned
      /\ UNCHANGED <<g_current_time, thread_input>>
  BY <1>1, EvictIsFirst
<1>4. /\ Page(r) \in Pages /\ CallTime(r) \in Int /\ CallTime(r) >= 0 /\ WorkTime(r) \in Nat
      /\ CallTime(r) =< g_current_time
      /\ g_current_time \in Int /\ frame_table[f].end_time \in Int
  BY <1>1, RequestTypes DEF RunInv, CallInv, SyncInv, SyncTypeOK, TablesInv, TableParts,
     TablesTypeOK, FrameEntry
<1>5. /\ frame_table'[f].end_time >= CallTime(r) + WorkTime(r)
      /\ frame_table'[f].end_time # Unused
  BY <1>2, <1>4 DEF EvictEffect, max, Unused
<1>6. ClockNeverTurned => /\ frame_table[f].end_time =< g_current_time
                          /\ frame_table'[f].end_time = g_current_time + WorkTime(r)
  <2>1. InFrameQueue(f) /\ Waits(r)
    BY <1>1, <1>2 DEF EvictEffect, Waits, IsWoken
  <2>2. ClockNeverTurned => frame_table[f].end_time =< g_current_time
    BY <2>1 DEF RunInv, ExactInv
  <2>3. CallTime(r) = g_current_time \/ frame_table[f].end_time >= g_current_time
    BY <2>1 DEF RunInv, FreshInv
  <2>4. QED BY <1>2, <1>4, <2>2, <2>3 DEF EvictEffect, max
<1>7. /\ Service!UseFrame(f, Asked(r)) /\ Until'[f] = frame_table'[f].end_time
      /\ Until[f] = frame_table[f].end_time
  BY <1>2, <1>5, FrameUsed, FrameSeen DEF RunInv, EvictEffect
<1>8. ~Service!Resident(Page(r))
  BY <1>1, <1>4, NotResident DEF RunInv
<1>9. Asked(r).row = r /\ Asked(r).page = Page(r) /\ Asked(r).work = WorkTime(r)
      /\ Asked(r).at = CallTime(r)
  BY DEF Asked
<1>10. /\ Service!UseFrame(f, Head(Waiting))
       /\ Until'[f] >= Head(Waiting).at + Head(Waiting).work
       /\ ClockNeverTurned => /\ Until[f] =< g_current_time
                              /\ Until'[f] = g_current_time + Head(Waiting).work
       /\ ~Service!Resident(Head(Waiting).page)
       /\ Head(Waiting).row = r
  BY ZenonT(60), <1>3, <1>5, <1>6, <1>7, <1>8, <1>9 DEF Service!UseFrame, Service!Resident
<1>11. QED BY <1>3, <1>10 DEF Service!ServeFirst, Waiting, Asked, Served, Until

(* The other steps are none of PagingService's, but for two of main's.     *)
LEMMA ServiceStutters ==
  ASSUME UNCHANGED <<g_current_time, frame_table, Waiting, Served>>,
         ClockNeverTurned' <=> ClockNeverTurned
  PROVE  UNCHANGED Service!serviceVars
<1>1. UNCHANGED <<Memory, Until>>
  BY DEF Memory, Until
<1>2. QED BY <1>1 DEF Service!serviceVars, Waiting, Asked, Served, Memory, Until

LEMMA ThreadStutters ==
  ASSUME RunInv, NEW r \in Rows, Thread(r), thread_pc[r] \notin {"place", "evict"}
  PROVE  UNCHANGED Service!serviceVars
<1>0. /\ thread_pc \in [Rows -> ThreadPC]
      /\ \/ Enter(r) \/ Unlock(r) \/ SignalMain(r) \/ TakeTurn(r) \/ Reenter(r)
         \/ SignalMainAgain(r) \/ UnlockAgain(r)
  BY DEF Thread, UseResidentPage, UseEmptyFrame, WaitForFrame, UsePageBroughtIn, EvictAndPlace,
         ThreadGoto, RunInv, SyncInv, SyncTypeOK
<1>1. UNCHANGED <<g_current_time, frame_table, thread_queue, thread_input, update_table>>
  BY <1>0 DEF Enter, Unlock, SignalMain, TakeTurn, Reenter, SignalMainAgain, UnlockAgain, tables
<1>2. \A s \in Rows : HasPage(s)' <=> HasPage(s)
  <2>1. ASSUME NEW s \in Rows, s # r PROVE HasPage(s)' <=> HasPage(s)
    BY <1>1, <2>1, ThreadStep DEF RunInv, HasPage
  <2>2. HasPage(r)' <=> HasPage(r)
    <3>1. SignalMain(r) /\ thread_pc'[r] = "success" => update_table[r]
      BY <1>0 DEF SignalMain, ThreadGoto
    <3>2. thread_pc[r] = "signal" => SignalMain(r)
      BY <1>0 DEF Enter, Unlock, TakeTurn, Reenter, SignalMainAgain, UnlockAgain, ThreadGoto
    <3>3. QED BY <1>1, <3>1, <3>2, ThreadMoves DEF RunInv, HasPage
  <2>3. QED BY <2>1, <2>2
<1>3. UNCHANGED Served
  BY <1>2 DEF Served
<1>4. \A s \in Rows : IsWoken(s)' <=> IsWoken(s)
  <2>1. ASSUME NEW s \in Rows, IsWoken(s) PROVE IsWoken(s)'
    <3>1. CASE s = r
      <4>1. thread_pc[r] \in {"waitTurn", "reenter"}
        BY <2>1, <3>1 DEF IsWoken
      <4>2. thread_pc'[r] \in {"reenter", "evict"}
        BY <4>1, ThreadMoves DEF RunInv
      <4>3. QED BY <3>1, <4>2 DEF IsWoken
    <3>2. CASE s # r
      BY <2>1, <3>2, ThreadStep, ThreadSemaphores DEF RunInv, IsWoken
    <3>3. QED BY <3>1, <3>2
  <2>2. QED BY <2>1, ThreadWakesNobody DEF RunInv
<1>5. UNCHANGED Waiting
  <2>1. {s \in Rows : IsWoken(s)'} = {s \in Rows : IsWoken(s)}
    BY <1>4
  <2>2. InLine' = InLine
    BY <1>1, <2>1 DEF InLine
  <2>3. QED BY <1>1, <2>2, WaitingSame
<1>6. ClockNeverTurned' <=> ClockNeverTurned
  BY <1>1, ThreadWakesNobody, TurnedSame DEF RunInv
<1>7. QED BY <1>1, <1>3, <1>5, <1>6, ServiceStutters

LEMMA ThreadServes ==
  ASSUME PositiveWork, NoCallFails, RunInv, NEW r \in Rows, Thread(r)
  PROVE  [Service!Next]_(Service!serviceVars)
<1>1. CASE thread_pc[r] \notin {"place", "evict"}
  BY <1>1, ThreadStutters
<1>2. CASE thread_pc[r] = "place"
  <2>1. UseResidentPage(r) \/ UseEmptyFrame(r) \/ WaitForFrame(r)
    BY <1>2 DEF Thread, Enter, Unlock, SignalMain, TakeTurn, Reenter, UsePageBroughtIn,
       EvictAndPlace, SignalMainAgain, UnlockAgain, ThreadGoto
  <2>2. Service!Arrive
    BY <2>1, UseResidentArrives, UseEmptyArrives, WaitForFrameArrives
  <2>3. QED BY <2>2 DEF Service!Next
<1>3. CASE thread_pc[r] = "evict"
  <2>1. UsePageBroughtIn(r) \/ EvictAndPlace(r)
    BY <1>3 DEF Thread, Enter, UseResidentPage, UseEmptyFrame, WaitForFrame, Unlock, SignalMain,
           TakeTurn, Reenter, SignalMainAgain, UnlockAgain, ThreadGoto
  <2>2. Service!ServeFirst
    BY <2>1, BroughtInServesFirst, EvictionServesFirst
  <2>3. QED BY <2>2 DEF Service!Next
<1>4. QED BY <1>1, <1>2, <1>3

(* Main starts a row: it turns the clock back, or nothing happens yet.     *)
LEMMA SpawnRowServes ==
  ASSUME NoCallFails, RunInv, SpawnRow
  PROVE  Service!TurnBack \/ UNCHANGED Service!serviceVars
<1> DEFINE n == current_row_ind
<1>0. ~CallFails
  BY DEF NoCallFails, RunInv, SyncInv, SyncTypeOK, CallFails
<1>1. /\ n \in Rows /\ n < NumRows /\ NumRows \in Nat /\ main_pc = "loop"
      /\ g_current_time \in Int /\ next_row.start_time \in Int
  BY SpawnsARow, SimAssumption DEF RunInv, SyncInv, SyncTypeOK, Rows, SimAssumption, SpawnRow, Row
<1>2. /\ thread_pc[n] = "none" /\ ~update_table[n]
      /\ \A s \in Rows : s < n => thread_pc[s] # "none"
      /\ \A s \in Rows : s > n => thread_pc[s] = "none"
  BY <1>1 DEF RunInv, SyncInv, QueueInv, SleeperInv, TurnInv
<1>3. /\ g_current_time' = loop_time /\ loop_time = next_row.start_time
      /\ thread_pc' = [thread_pc EXCEPT ![n] = "enter"]
      /\ thread_input' = [thread_input EXCEPT ![n] =
                            [call_time |-> loop_time, virtual_page_num |-> next_row.page,
                             work_time |-> next_row.work_time]]
      /\ UNCHANGED <<frame_table, thread_queue, thread_semaphore, update_table>>
  BY <1>0 DEF SpawnRow, tables, syncVars
<1> HIDE DEF n
<1>4. /\ thread_pc'[n] = "enter" /\ thread_input'[n].call_time = loop_time
      /\ \A s \in Rows : s # n => /\ thread_pc'[s] = thread_pc[s]
                                  /\ thread_input'[s] = thread_input[s]
  BY <1>1, <1>3 DEF RunInv, SyncInv, SyncTypeOK, TablesInv, LocalsTypeOK
<1>5. UNCHANGED Served
  BY <1>2, <1>3, <1>4 DEF Served, HasPage
<1>6. UNCHANGED Waiting
  <2>1. \A s \in Rows : IsWoken(s)' <=> IsWoken(s)
    BY <1>2, <1>3, <1>4 DEF IsWoken
  <2>2. {s \in Rows : IsWoken(s)'} = {s \in Rows : IsWoken(s)}
    BY <2>1
  <2>3. InLine' = InLine
    BY <1>3, <2>2 DEF InLine
  <2>4. \A i \in DOMAIN InLine : thread_input'[InLine[i]] = thread_input[InLine[i]]
    <3>1. InLine \in Seq(Rows)
      BY LineInRows DEF RunInv
    <3>2. \A i \in 1 .. Len(InLine) : InLine[i] \in Rows /\ InLine[i] # n
      BY <1>2, InLineWaits DEF RunInv
    <3>3. QED BY <1>4, <3>1, <3>2
  <2>5. QED BY <2>3, <2>4, WaitingSame
<1>7. UNCHANGED <<Memory, Until>>
  BY <1>3 DEF Memory, Until
<1>8. CASE ~TurnBack
  <2>1. loop_time = g_current_time
    BY <1>8 DEF loop_time
  <2>2. \A r, s \in Rows : r < s /\ thread_pc[s] # "none" => r # n /\ s # n
    BY <1>1, <1>2 DEF Rows
  <2>3. \A r \in Rows : r < n => CallTime(r) < g_current_time
    BY <1>1, <1>2 DEF RunInv, CallInv
  <2>4. ClockNeverTurned' => ClockNeverTurned
    BY <1>4, <2>2 DEF ClockNeverTurned, CallTime
  <2>5. ASSUME ClockNeverTurned, NEW r \in Rows, NEW s \in Rows, r < s, thread_pc'[s] # "none"
        PROVE  CallTime(r)' < CallTime(s)'
    <3>1. CASE s = n
      BY <1>4, <2>1, <2>3, <2>5, <3>1 DEF CallTime, Rows
    <3>2. CASE s # n
      <4>1. thread_pc[s] # "none" /\ r # n
        BY <1>4, <2>2, <2>5, <3>2
      <4>2. QED BY <1>4, <2>5, <3>2, <4>1 DEF ClockNeverTurned, CallTime
    <3>3. QED BY <3>1, <3>2
  <2>6. ClockNeverTurned' <=> ClockNeverTurned
    BY <2>4, <2>5 DEF ClockNeverTurned
  <2>7. QED BY <1>3, <1>5, <1>6, <2>1, <2>6, ServiceStutters
<1>9. CASE TurnBack
  <2>1. loop_time = g_current_time - 1 /\ next_row.start_time < g_current_time
    BY <1>1, <1>9 DEF loop_time, TurnBack
  <2>2. n > 0 /\ CallTime(n - 1) = g_current_time - 1
    BY <1>1, <2>1 DEF RunInv, TurnInv, n
  <2>3. n - 1 \in Rows /\ n - 1 < n /\ n - 1 # n
    BY <1>1, <2>2 DEF Rows
  <2>4. ~ClockNeverTurned'
    <3>1. PICK k \in Rows, m \in Rows : k = n - 1 /\ m = n
      BY <1>1, <2>3
    <3>2. k < m /\ thread_pc'[m] # "none"
      BY <1>4, <2>3, <3>1
    <3>3. ~(thread_input'[k].call_time < thread_input'[m].call_time)
      BY <1>1, <1>4, <2>1, <2>2, <2>3, <3>1 DEF CallTime
    <3>4. QED BY <3>2, <3>3 DEF ClockNeverTurned, CallTime
  <2>5. Cardinality(Served) + Len(Waiting) = n
    BY <1>1, RowsAccounted DEF RunInv, n
  <2>6. Service!NextRow = n
    BY <2>5, SameCardinality DEF Service!NextRow, Served, Waiting, Asked
  <2>7. n \in 1 .. NumRows - 1
    BY <1>1, <2>2 DEF Rows
  <2>8. QED BY <1>3, <1>5, <1>6, <1>7, <2>1, <2>4, <2>6, <2>7
           DEF Service!TurnBack, Served, Waiting, Asked, Memory, Until
<1>10. QED BY <1>8, <1>9

(* Main wakes the head of the queue: it stays the first of the line.       *)
LEMMA ReleaseHeadStutters ==
  ASSUME RunInv, ReleaseHead
  PROVE  UNCHANGED Service!serviceVars
<1> DEFINE h == Head(thread_queue)
<1>1. /\ main_pc = "release" /\ thread_queue # <<>> /\ thread_queue' = Tail(thread_queue)
      /\ thread_semaphore' = [thread_semaphore EXCEPT ![h] = @ + 1]
      /\ UNCHANGED <<g_current_time, frame_table, thread_pc, thread_input, update_table>>
  BY DEF ReleaseHead, MainGoto, tables, threadVars
<1>2. thread_queue \in Seq(Rows) /\ thread_semaphore \in [Rows -> Int]
  BY DEF RunInv, SyncInv, SyncTypeOK
<1>3. h \in Rows /\ 1 \in 1 .. Len(thread_queue) /\ thread_queue[1] = h
  BY <1>1, <1>2
<1>4. \A s \in Rows : ~IsWoken(s) /\ ~InFirstVisit(s)
  BY <1>1, NobodyAwake DEF RunInv
<1>5. thread_pc[h] = "waitTurn" /\ thread_semaphore[h] = 0
  <2>1. thread_pc[h] \in {"unlock", "signal", "waitTurn", "terminated"} /\ thread_semaphore[h] = 0
    BY <1>3 DEF RunInv, SyncInv, QueueInv, CellInv
  <2>2. thread_pc[h] # "terminated"
    BY <1>1, <1>3 DEF RunInv, EndingInv, FailedInv
  <2>3. thread_pc[h] \notin {"unlock", "signal"}
    BY <1>3, <1>4 DEF InFirstVisit
  <2>4. QED BY <2>1, <2>2, <2>3
<1>6. \A s \in Rows : IsWoken(s)' <=> s = h
  <2>1. ASSUME NEW s \in Rows, s # h PROVE ~IsWoken(s)'
    BY <1>1, <1>2, <1>4, <2>1 DEF IsWoken
  <2>2. ASSUME NEW s \in Rows, s = h PROVE IsWoken(s)'
    BY <1>1, <1>2, <1>5, <2>2 DEF IsWoken
  <2>3. QED BY <2>1, <2>2
<1>7. InLine' = InLine
  <2>1. {s \in Rows : IsWoken(s)'} = {h}
    BY <1>3, <1>6
  <2>2. InLine' = <<h>> \o Tail(thread_queue)
    BY <1>1, <2>1, SetToSeqOne DEF InLine
  <2>3. InLine = thread_queue
    BY <1>2, <1>4, LineOfQueue
  <2> HIDE DEF h
  <2>4. PICK t : t = Tail(thread_queue)
    OBVIOUS
  <2>5. /\ t \in Seq(Rows) /\ Len(t) = Len(thread_queue) - 1
        /\ \A i \in 1 .. Len(t) : t[i] = thread_queue[i + 1]
    BY <1>1, <1>2, <2>4, HeadTailProperties
  <2>6. <<h>> \in Seq(Rows) /\ Len(<<h>>) = 1 /\ <<h>>[1] = h
    BY <1>3
  <2>7. /\ <<h>> \o t \in Seq(Rows) /\ Len(<<h>> \o t) = 1 + Len(t)
        /\ \A i \in 1 .. 1 + Len(t) : (<<h>> \o t)[i] = IF i =< 1 THEN <<h>>[i] ELSE t[i - 1]
    BY <2>5, <2>6, ConcatProperties
  <2>8. \A i \in 1 .. 1 + Len(t) : (<<h>> \o t)[i] = thread_queue[i]
    <3> SUFFICES ASSUME NEW i \in 1 .. 1 + Len(t) PROVE (<<h>> \o t)[i] = thread_queue[i]
      OBVIOUS
    <3>1. CASE i = 1
      BY <1>3, <2>6, <2>7, <3>1
    <3>2. CASE i # 1
      <4>1. i - 1 \in 1 .. Len(t) /\ (i - 1) + 1 = i
        BY <2>5, <3>2
      <4>2. QED BY <2>5, <2>7, <4>1
    <3>3. QED BY <3>1, <3>2
  <2>9. Len(thread_queue) = 1 + Len(t)
    <3>1. Len(t) \in Nat /\ Len(thread_queue) \in Nat
      BY <1>2, <2>5
    <3>2. QED BY <2>5, <3>1
  <2>10. <<h>> \o t = thread_queue
    <3>1. PICK u : u = <<h>> \o t
      OBVIOUS
    <3>2. u \in Seq(Rows) /\ Len(u) = Len(thread_queue)
          /\ \A i \in 1 .. Len(u) : u[i] = thread_queue[i]
      BY <2>7, <2>8, <2>9, <3>1
    <3>3. u = thread_queue
      BY ONLY <1>2, <3>2, SeqEqual
    <3>4. QED BY <3>1, <3>3
  <2>11. QED BY <2>2, <2>3, <2>4, <2>10
<1>8. UNCHANGED Waiting
  BY <1>1, <1>7, WaitingSame
<1>9. UNCHANGED Served
  BY <1>1 DEF Served, HasPage
<1>10. ClockNeverTurned' <=> ClockNeverTurned
  BY <1>1, TurnedSame
<1>11. QED BY <1>1, <1>8, <1>9, <1>10, ServiceStutters

(* A step that leaves the line, the requests and the pages alone.          *)
LEMMA QuietStep ==
  ASSUME UNCHANGED <<frame_table, thread_queue, thread_semaphore, thread_input, update_table>>,
         \A r \in Rows : /\ IsWoken(r)' <=> IsWoken(r)
                         /\ HasPage(r)' <=> HasPage(r)
                         /\ thread_pc'[r] # "none" <=> thread_pc[r] # "none"
  PROVE  /\ UNCHANGED <<Waiting, Served, Memory, Until>>
         /\ ClockNeverTurned' <=> ClockNeverTurned
<1>1. {s \in Rows : IsWoken(s)'} = {s \in Rows : IsWoken(s)}
  OBVIOUS
<1>2. InLine' = InLine
  BY <1>1 DEF InLine
<1>3. UNCHANGED Served
  BY DEF Served
<1>4. QED BY <1>2, <1>3, WaitingSame, TurnedSame DEF Memory, Until

(* Time passes when nobody waits, or when no frame is left to give away.   *)
LEMMA TickServes ==
  ASSUME RunInv, Tick
  PROVE  Service!Pass
<1>1. /\ main_pc = "release" /\ g_current_time' = g_current_time + 1
      /\ thread_queue = <<>> \/ available_frame =< 0
      /\ UNCHANGED <<frame_table, thread_queue, thread_semaphore, thread_pc, thread_input,
                     update_table>>
  BY DEF Tick, MainGoto, tables, threadVars
<1>2. UNCHANGED <<Waiting, Served, Memory, Until>> /\ (ClockNeverTurned' <=> ClockNeverTurned)
  BY <1>1, QuietStep DEF IsWoken, HasPage
<1>3. \A s \in Rows : ~IsWoken(s)
  BY <1>1, NobodyAwake DEF RunInv
<1>4. thread_queue \in Seq(Rows) /\ InLine = thread_queue
  BY <1>3, LineOfQueue DEF RunInv, SyncInv, SyncTypeOK
<1>5. CASE thread_queue = <<>>
  <2>1. Waiting = <<>>
    <3>1. DOMAIN InLine = {}
      BY <1>4, <1>5
    <3>2. Waiting \in [1 .. 0 -> {}]
      BY <3>1 DEF Waiting
    <3>3. Waiting \in Seq({}) /\ Len(Waiting) = 0
      BY <3>2
    <3>4. QED BY <3>3, EmptySeq
  <2>2. QED BY <1>1, <1>2, <2>1 DEF Service!Pass, Waiting, Asked, Served, Memory, Until
<1>6. CASE thread_queue # <<>> /\ available_frame =< 0
  <2>1. frame_queue = <<>>
    <3>1. Len(frame_queue) =< 0 /\ frame_queue \in Seq(Frames)
      BY <1>6 DEF RunInv, TablesInv, TableParts, TablesTypeOK, AvailableCountsQueue
    <3>2. QED BY <3>1, EmptySeq
  <2>2. \A f \in Frames : ~InFrameQueue(f)
    BY <2>1 DEF InFrameQueue
  <2>3. \A f \in Frames : frame_table[f].end_time # Unused
    <3>1. 1 \in 1 .. Len(thread_queue) /\ thread_queue[1] \in Rows
      BY <1>4, <1>6
    <3>2. Waits(thread_queue[1])
      BY <3>1 DEF Waits, Queued
    <3>3. QED BY <3>1, <3>2 DEF RunInv, WaiterInv
  <2>4. ASSUME NEW f \in Frames PROVE Memory[f] # NoPage /\ Until[f] > g_current_time
    <3>1. Memory[f] \in Pages /\ Until[f] = frame_table[f].end_time /\ Until[f] \in Int
          /\ g_current_time \in Int
      BY <2>3, FrameSeen DEF RunInv, SyncInv, SyncTypeOK
    <3>2. Scanned(f)
      BY <1>1 DEF Scanned
    <3>3. ~(frame_table[f].end_time < g_current_time) /\ frame_table[f].end_time # g_current_time
      BY <2>2, <2>3, <3>2 DEF RunInv, ScanInv
    <3>4. QED BY <3>1, <3>3, TablesAssumption DEF TablesAssumption
  <2>5. QED BY <1>1, <1>2, <2>4 DEF Service!Pass, Waiting, Asked, Served, Memory, Until
<1>7. QED BY <1>1, <1>5, <1>6

LEMMA MainServes ==
  ASSUME NoCallFails, RunInv, Main
  PROVE  [Service!Next]_(Service!serviceVars)
<1>1. CASE SpawnRow
  BY <1>1, SpawnRowServes DEF Service!Next
<1>2. CASE ReleaseHead
  BY <1>2, ReleaseHeadStutters
<1>3. CASE Tick
  BY <1>3, TickServes DEF Service!Next
<1>4. CASE ~SpawnRow /\ ~ReleaseHead /\ ~Tick
  <2>1. /\ UNCHANGED <<g_current_time, frame_table, thread_queue, thread_semaphore,
                       thread_input, update_table>>
        /\ \A r \in Rows : \/ thread_pc'[r] = thread_pc[r]
                           \/ thread_pc[r] # "none" /\ thread_pc'[r] = "terminated"
    BY <1>4, MainStep DEF RunInv
  <2>2. CASE UNCHANGED thread_pc
    <3>1. UNCHANGED <<Waiting, Served>> /\ (ClockNeverTurned' <=> ClockNeverTurned)
      BY <2>1, <2>2, QuietStep DEF IsWoken, HasPage
    <3>2. QED BY <2>1, <3>1, ServiceStutters
  <2>3. CASE Cleanup
    <3>1. /\ main_pc = "cleanup"
          /\ thread_pc' = [r \in Rows |-> IF Ended(r) \/ thread_pc[r] = "none"
                                          THEN thread_pc[r] ELSE "terminated"]
      BY <2>3 DEF Cleanup, MainGoto
    <3>2. ASSUME NEW r \in Rows
          PROVE  /\ IsWoken(r)' <=> IsWoken(r)
                 /\ HasPage(r)' <=> HasPage(r)
                 /\ thread_pc'[r] # "none" <=> thread_pc[r] # "none"
      <4>1. ~IsWoken(r) /\ ~InSecondVisit(r)
        BY <3>1, NobodyAwake DEF RunInv
      <4>2. thread_pc'[r] \in {thread_pc[r], "terminated"}
            /\ (thread_pc[r] \in {"success", "none"} => thread_pc'[r] = thread_pc[r])
        BY <3>1 DEF Ended
      <4>3. QED BY <2>1, <4>1, <4>2 DEF IsWoken, InSecondVisit, HasPage
    <3>3. UNCHANGED <<Waiting, Served>> /\ (ClockNeverTurned' <=> ClockNeverTurned)
      BY <2>1, <3>2, QuietStep
    <3>4. QED BY <2>1, <3>3, ServiceStutters
  <2>4. QED BY <1>4, <2>2, <2>3 DEF Main, LoopEnds, OrderError, NoRowNow, MoveToNextRow,
         LockTables, ScanFrame, ScanDone, ThreadReleased, RelockTables,
         JoinThreads, FindLastEndTime, PrintRemains, threadVars
<1>5. QED BY <1>1, <1>2, <1>3, <1>4

(* While no call fails and every row works for some time, the main thread  *)
(* and the page threads together do what PagingService promises.           *)
THEOREM ServiceImplemented ==
  ASSUME PositiveWork, NoCallFails
  PROVE  Spec => ImplementsService
<1>1. Init => Service!Init
  <2> SUFFICES ASSUME Init PROVE Service!Init
    OBVIOUS
  <2>1. /\ g_current_time = 0 /\ thread_queue = <<>>
        /\ \A r \in Rows : thread_pc[r] = "none" /\ ~update_table[r]
        /\ \A f \in Frames : frame_table[f].end_time = Unused
    BY DEF Init, initial_tables
  <2>2. ClockNeverTurned
    BY <2>1 DEF ClockNeverTurned
  <2>3. Served = {}
    BY <2>1 DEF Served, HasPage
  <2>4. Waiting = <<>>
    <3>1. \A r \in Rows : ~IsWoken(r)
      BY <2>1 DEF IsWoken
    <3>2. InLine = <<>>
      BY <2>1, <3>1, LineOfQueue
    <3>3. Waiting \in [1 .. 0 -> {}]
      BY <3>2 DEF Waiting
    <3>4. Waiting \in Seq({}) /\ Len(Waiting) = 0
      BY <3>3
    <3>5. QED BY <3>4, EmptySeq
  <2>5. Memory = [f \in Frames |-> NoPage] /\ Until = [f \in Frames |-> -1]
    BY <2>1 DEF Memory, Until, Unused
  <2>6. QED BY <2>1, <2>2, <2>3, <2>4, <2>5
            DEF Service!Init, Waiting, Asked, Served, Memory, Until
<1>2. RunInv /\ [Next]_vars => [Service!Next]_(Service!serviceVars)
  <2> SUFFICES ASSUME RunInv, [Next]_vars PROVE [Service!Next]_(Service!serviceVars)
    OBVIOUS
  <2>1. CASE UNCHANGED vars
    <3>1. UNCHANGED <<g_current_time, frame_table, thread_queue, thread_semaphore,
                      thread_input, update_table, thread_pc>>
      BY <2>1 DEF vars, tables, syncVars, threadVars
    <3>2. UNCHANGED <<Waiting, Served>> /\ (ClockNeverTurned' <=> ClockNeverTurned)
      BY <3>1, QuietStep DEF IsWoken, HasPage
    <3>3. QED BY <3>1, <3>2, ServiceStutters
  <2>2. QED BY <2>1, MainServes, ThreadServes DEF Next, Exited
<1>3. Spec => []RunInv
  BY SyncInvariant, TablesInvariant, EndingInvariant, CallInvariant, FreshInvariant,
     ScanInvariant, TurnInvariant, ExactInvariant, WaiterInvariant, PTL DEF RunInv
<1>4. QED BY <1>1, <1>2, <1>3, PTL DEF Spec, ImplementsService, Service!Spec
=============================================================================
