-------------------------- MODULE PagingTables_proof --------------------------
(***************************************************************************)
(* Proofs about the paging simulator.  First the hand-over of control      *)
(* between main and the page threads: the program counters, the mutex, the *)
(* semaphores, the thread queue and the row counters, and nothing of the   *)
(* tables.  Then the tables, which rest on it: the counter of the frame    *)
(* queue, the victim of an eviction, and the agreement of the page table   *)
(* with the frame table.                                                   *)
(***************************************************************************)
EXTENDS PagingProps, SequenceTheorems, WellFoundedInduction, TLAPS

(* The types of the variables the hand-over depends on.                    *)
SyncTypeOK ==
  /\ g_current_time \in Int
  /\ mutex \in Rows \cup {MainThread, NoOwner}
  /\ main_semaphore \in Int
  /\ thread_semaphore \in [Rows -> Int]
  /\ thread_queue \in Seq(Rows)
  /\ main_pc \in MainPC
  /\ current_row_ind \in 0 .. NumRows
  /\ next_row \in Row
  /\ lines_left \in Int
  /\ frame_ind \in 0 .. NumFrames
  /\ result \in {"running", "SUCCESS_CODE", "ERROR_CODE"}
  /\ thread_pc \in [Rows -> ThreadPC]
  /\ update_table \in [Rows -> BOOLEAN]
  /\ faults \in 0 .. MaxFaults

(* The rows that are still to come, and the last one when none is.         *)
RowInv ==
  /\ current_row_ind < NumRows => lines_left \in 0 .. NumRows - 1 - current_row_ind
  /\ main_pc = "waitPlaced" =>
       current_row_ind < NumRows /\ next_row.start_time = g_current_time
  /\ current_row_ind = NumRows =>
       /\ main_pc = "loop" => next_row.start_time < g_current_time
       /\ main_pc \in {"lock", "scan", "release", "waitReleased", "relock"} =>
            next_row.start_time =< g_current_time

(* Main waits while a thread visits the tables, and only one visits.       *)
Visiting(r) == InFirstVisit(r) \/ InSecondVisit(r)

HandOver ==
  /\ main_semaphore \in {0, 1}
  /\ main_semaphore = 1 => main_pc \in {"waitPlaced", "waitReleased"}
  /\ \A r, s \in Rows : Visiting(r) /\ Visiting(s) => r = s
  /\ \A r \in Rows :
       /\ InFirstVisit(r) => main_pc = "waitPlaced" /\ main_semaphore = 0
       /\ InSecondVisit(r) /\ thread_pc[r] # "reunlock" =>
            main_pc = "waitReleased" /\ main_semaphore = 0
       /\ thread_pc[r] = "reunlock" =>
            \/ main_pc = "waitReleased" /\ main_semaphore = 1
            \/ main_pc = "relock" /\ main_semaphore = 0

(* A thread that sleeps, or will, is queued; one that was woken is not.    *)
Queued(r) == \E i \in 1 .. Len(thread_queue) : thread_queue[i] = r

SleeperInv(r) ==
  /\ thread_semaphore[r] \in {0, 1}
  /\ thread_semaphore[r] = 1 => thread_pc[r] \in {"waitTurn", "terminated"}
  /\ thread_pc[r] \in {"enter", "place"} => ~update_table[r]
  /\ thread_pc[r] \in {"unlock", "signal"} /\ ~update_table[r] => Queued(r)
  /\ thread_pc[r] = "waitTurn" /\ thread_semaphore[r] = 0 => Queued(r)
  /\ \/ r > current_row_ind
     \/ r = current_row_ind /\ main_pc \notin {"waitPlaced", "cleanup", "exited"}
     => thread_pc[r] = "none" /\ ~update_table[r]

CellInv(i) ==
  /\ thread_pc[thread_queue[i]] \in {"unlock", "signal", "waitTurn", "terminated"}
  /\ thread_pc[thread_queue[i]] \in {"unlock", "signal"} => ~update_table[thread_queue[i]]
  /\ thread_semaphore[thread_queue[i]] = 0
  /\ \A j \in 1 .. Len(thread_queue) : thread_queue[i] = thread_queue[j] => i = j

QueueInv ==
  /\ \A r \in Rows : SleeperInv(r)
  /\ \A i \in 1 .. Len(thread_queue) : CellInv(i)

SyncInv == SyncTypeOK /\ RowInv /\ HandOver /\ MutexProtectsTables /\ QueueInv

-----------------------------------------------------------------------------
(* Steps that need more than one step of reasoning. *)

(* The counters that a step moves by one, or not at all, keep their ranges. *)
LEMMA FaultsInRange ==
  ASSUME SyncTypeOK, CallWorks \/ CallFails
  PROVE  faults' \in 0 .. MaxFaults
BY SimAssumption DEF SimAssumption, SyncTypeOK, CallWorks, CallFails

LEMMA FrameIndInRange ==
  ASSUME SyncTypeOK,
         \/ frame_ind' \in {frame_ind, 0}
         \/ frame_ind < NumFrames /\ frame_ind' = frame_ind + 1
  PROVE  frame_ind' \in 0 .. NumFrames
BY TablesAssumption DEF TablesAssumption, SyncTypeOK

LEMMA SpawnRowTypes ==
  ASSUME SyncInv, SpawnRow
  PROVE  SyncTypeOK'
<1>1. faults' \in 0 .. MaxFaults
  BY FaultsInRange DEF SpawnRow, SyncInv
<1>2. thread_pc' \in [Rows -> ThreadPC]
  BY DEF SpawnRow, SyncInv, SyncTypeOK, ThreadPC
<1>3. main_pc' \in MainPC /\ result' \in {"running", "SUCCESS_CODE", "ERROR_CODE"}
  BY DEF SpawnRow, SyncInv, SyncTypeOK, MainPC, MainError
<1>4. g_current_time' \in Int
  BY DEF SpawnRow, SyncInv, SyncTypeOK, loop_time
<1>5. QED
  BY <1>1, <1>2, <1>3, <1>4 DEF SpawnRow, SyncInv, SyncTypeOK, syncVars

LEMMA MoveToNextRowTypes ==
  ASSUME SyncInv, MoveToNextRow
  PROVE  SyncTypeOK'
<1>1. next_row' \in Row
  BY SimAssumption
     DEF MoveToNextRow, get_next_line, SyncInv, SyncTypeOK, Row, SimAssumption
<1>2. current_row_ind' \in 0 .. NumRows /\ lines_left' \in Int
  BY SimAssumption DEF MoveToNextRow, SyncInv, SyncTypeOK, RowInv, SimAssumption
<1>3. main_pc' \in MainPC /\ result' \in {"running", "SUCCESS_CODE", "ERROR_CODE"}
  BY DEF MoveToNextRow, SyncInv, SyncTypeOK, MainPC, MainError
<1>4. QED
  BY <1>1, <1>2, <1>3 DEF MoveToNextRow, SyncInv, SyncTypeOK, threadVars

LEMMA ScanFrameTypes ==
  ASSUME SyncInv, ScanFrame
  PROVE  SyncTypeOK'
<1>1. faults' \in 0 .. MaxFaults
  BY FaultsInRange DEF ScanFrame, SyncInv
<1>2. frame_ind' \in 0 .. NumFrames
  BY FrameIndInRange DEF ScanFrame, SyncInv
<1>3. main_pc' \in MainPC /\ result' \in {"running", "SUCCESS_CODE", "ERROR_CODE"}
  BY DEF ScanFrame, SyncInv, SyncTypeOK, MainPC, MainError
<1>4. QED
  BY <1>1, <1>2, <1>3 DEF ScanFrame, SyncInv, SyncTypeOK, syncVars, threadVars

LEMMA FindLastEndTimeTypes ==
  ASSUME SyncInv, FindLastEndTime
  PROVE  SyncTypeOK'
<1>1. frame_ind' \in 0 .. NumFrames
  BY FrameIndInRange DEF FindLastEndTime, SyncInv
<1>2. QED
  BY <1>1 DEF FindLastEndTime, SyncInv, SyncTypeOK, syncVars, threadVars, MainPC

LEMMA PrintRemainsTypes ==
  ASSUME SyncInv, PrintRemains
  PROVE  SyncTypeOK'
<1>1. faults' \in 0 .. MaxFaults
  BY FaultsInRange DEF PrintRemains, SyncInv
<1>2. frame_ind' \in 0 .. NumFrames
  BY FrameIndInRange DEF PrintRemains, SyncInv
<1>3. main_pc' \in MainPC /\ result' \in {"running", "SUCCESS_CODE", "ERROR_CODE"}
  BY DEF PrintRemains, SyncInv, SyncTypeOK, MainPC, MainError
<1>4. QED
  BY <1>1, <1>2, <1>3 DEF PrintRemains, SyncInv, SyncTypeOK, syncVars, threadVars

LEMMA UseEmptyFrameTypes ==
  ASSUME SyncInv, NEW r \in Rows, UseEmptyFrame(r)
  PROVE  SyncTypeOK'
<1>1. faults' \in 0 .. MaxFaults
  BY FaultsInRange DEF UseEmptyFrame, SyncInv
<1>2. thread_pc' \in [Rows -> ThreadPC] /\ update_table' \in [Rows -> BOOLEAN]
  BY DEF UseEmptyFrame, SyncInv, SyncTypeOK, ThreadPC
<1>3. QED
  BY <1>1, <1>2 DEF UseEmptyFrame, SyncInv, SyncTypeOK, syncVars, mainVars

LEMMA WaitForFrameTypes ==
  ASSUME SyncInv, NEW r \in Rows, WaitForFrame(r)
  PROVE  SyncTypeOK'
<1>1. faults' \in 0 .. MaxFaults
  BY FaultsInRange DEF WaitForFrame, add_to_thread_queue, SyncInv
<1>2. thread_pc' \in [Rows -> ThreadPC]
  BY DEF WaitForFrame, SyncInv, SyncTypeOK, ThreadPC
<1>3. thread_queue' = thread_queue \/ thread_queue' = Append(thread_queue, r)
  BY DEF WaitForFrame, add_to_thread_queue
<1>4. thread_queue' \in Seq(Rows)
  <2>1. thread_queue \in Seq(Rows)
    BY DEF SyncInv, SyncTypeOK
  <2>2. Append(thread_queue, r) \in Seq(Rows)
    BY <2>1
  <2>3. QED BY <1>3, <2>1, <2>2
<1>5. QED
  BY <1>1, <1>2, <1>3, <1>4 DEF WaitForFrame, SyncInv, SyncTypeOK, syncVars, mainVars

(* A thread that has looked for its page goes on, or returns with an error. *)
LEMMA FirstVisitStep ==
  ASSUME SyncInv, NEW r \in Rows, thread_pc[r] = "place",
         NEW pc \in {"unlock", "error"}, thread_pc' = [thread_pc EXCEPT ![r] = pc],
         UNCHANGED <<main_pc, main_semaphore, thread_semaphore>>
  PROVE  HandOver'
<1>1. InFirstVisit(r) /\ ~InSecondVisit(r)
  BY DEF InFirstVisit, InSecondVisit
<1>2. ~InSecondVisit(r)' /\ thread_pc'[r] # "reunlock"
  BY DEF SyncInv, SyncTypeOK, InSecondVisit
<1>3. \A s \in Rows : s # r => thread_pc'[s] = thread_pc[s]
  BY DEF SyncInv, SyncTypeOK
<1>4. \A s \in Rows : s # r => /\ InFirstVisit(s)' <=> InFirstVisit(s)
                               /\ InSecondVisit(s)' <=> InSecondVisit(s)
  BY <1>3 DEF InFirstVisit, InSecondVisit
<1>5. QED
  BY <1>1, <1>2, <1>3, <1>4 DEF SyncInv, HandOver, Visiting

(* The cell that add_to_thread_queue links in, and those before it.         *)
LEMMA CellAppended ==
  ASSUME SyncInv, NEW r \in Rows, UNCHANGED <<thread_semaphore, update_table>>,
   thread_queue' = Append(thread_queue, r) /\ thread_pc' = [thread_pc EXCEPT ![r] = "unlock"],
   \A i \in 1 .. Len(thread_queue) : thread_queue[i] # r,
   thread_semaphore[r] = 0 /\ ~update_table[r],
   /\ Len(thread_queue') = Len(thread_queue) + 1
        /\ \A i \in 1 .. Len(thread_queue) : thread_queue'[i] = thread_queue[i]
        /\ thread_queue'[Len(thread_queue) + 1] = r,
   NEW i \in 1 .. Len(thread_queue')
   PROVE CellInv(i)'
<1> DEFINE n == Len(thread_queue)
<1>0. n \in Nat /\ thread_queue' \in Seq(Rows)
  BY DEF SyncInv, SyncTypeOK
<1> HIDE DEF n
<1>1. CASE i = n + 1
  <2>1. thread_queue'[i] = r /\ thread_pc'[r] = "unlock"
     BY <1>1 DEF SyncInv, SyncTypeOK, n
  <2>2. \A j \in 1 .. n+1 : thread_queue'[j] = r => j = n+1
     BY <1>0 DEF n
  <2>3. Len(thread_queue') = n+1
     BY DEF n
  <2>4. QED BY ONLY <2>1, <2>2, <2>3, <1>1, thread_semaphore[r] = 0 /\ ~update_table[r], UNCHANGED <<thread_semaphore, update_table>> DEF CellInv
<1>2. CASE i \in 1 .. Len(thread_queue)
      <4>1. thread_queue[i] \in Rows /\ thread_queue[i] # r /\ thread_queue'[i] = thread_queue[i]
        BY <1>2 DEF SyncInv, SyncTypeOK
      <4>3. CellInv(i) /\ thread_pc'[thread_queue[i]] = thread_pc[thread_queue[i]]
        BY <1>2, <4>1 DEF SyncInv, QueueInv
      <4>2. \A j \in 1 .. Len(thread_queue') : thread_queue'[i] = thread_queue'[j] => i = j
        <5> TAKE j \in 1 .. Len(thread_queue')
        <5>1. CASE j \in 1..n
          BY <5>1, <4>1, <4>3, <1>0 DEF CellInv
        <5>2. CASE j = n+1
          BY <5>2, <4>1 DEF n
        <5>3. QED BY <5>1, <5>2, <1>0 DEF n
      <4>4. QED BY <4>1, <4>2, <4>3 DEF CellInv
<1>3. QED BY <1>1, <1>2, <1>0 DEF n

(* SpawnRow never starts a row beyond the last.                            *)
LEMMA SpawnsARow == ASSUME SyncInv, SpawnRow PROVE current_row_ind < NumRows
<1>1. CASE current_row_ind = NumRows
  <2>1. ~TurnBack BY <1>1 DEF TurnBack
  <2>2. next_row.start_time < g_current_time
    BY <1>1 DEF SpawnRow, RowInv, SyncInv
  <2>3. next_row.start_time = g_current_time
    BY <2>1 DEF SpawnRow, loop_time
  <2>5. next_row.start_time \in Int
    BY DEF SyncInv, SyncTypeOK, Row
  <2>4. QED BY <2>2, <2>3, <2>5
<1>2. QED BY <1>1, SimAssumption DEF SyncInv, SyncTypeOK, SimAssumption

LEMMA UseResidentPageQueue ==
  ASSUME SyncInv, NEW r \in Rows, UseResidentPage(r)
  PROVE  QueueInv'
<1> USE DEF SyncInv, QueueInv, SyncTypeOK
<1>1. /\ thread_pc' = [thread_pc EXCEPT ![r] = "unlock"]
      /\ thread_pc[r] = "place"
      /\ update_table' = [update_table EXCEPT ![r] = TRUE]
      /\ UNCHANGED <<thread_semaphore, thread_queue, main_pc, current_row_ind>>
  BY DEF UseResidentPage, ThreadGoto, syncVars, mainVars
<1>2. ASSUME NEW s \in Rows PROVE SleeperInv(s)'
  BY <1>1 DEF SleeperInv, Queued
<1>3. ASSUME NEW i \in 1 .. Len(thread_queue) PROVE CellInv(i)'
  <2>1. thread_queue[i] # r
    BY <1>1 DEF CellInv
  <2>2. QED BY <1>1, <2>1 DEF CellInv
<1>4. QED BY <1>1, <1>2, <1>3

LEMMA SignalMainHandOver ==
  ASSUME SyncInv, NEW r \in Rows, SignalMain(r)
  PROVE  HandOver'
<1>1. \E pc \in {"success", "waitTurn"} : thread_pc' = [thread_pc EXCEPT ![r] = pc]
  BY DEF SignalMain, ThreadGoto
<1>2. InFirstVisit(r) /\ thread_semaphore[r] = 0
  BY DEF SignalMain, ThreadGoto, InFirstVisit, SyncInv, QueueInv, SleeperInv
<1>3. UNCHANGED <<main_pc, thread_semaphore>> /\ main_semaphore' = main_semaphore + 1
  BY DEF SignalMain, mainVars
<1>4. ~InFirstVisit(r)' /\ ~InSecondVisit(r)' /\ thread_pc'[r] # "reunlock"
  BY <1>1, <1>2, <1>3 DEF SyncInv, SyncTypeOK, InSecondVisit, InFirstVisit
<1>5. \A s \in Rows : s # r => thread_pc'[s] = thread_pc[s]
  BY <1>1 DEF SyncInv, SyncTypeOK
<1>6. \A s \in Rows : s # r => ~InFirstVisit(s)' /\ ~InSecondVisit(s)'
  BY <1>2, <1>3, <1>5 DEF SyncInv, HandOver, Visiting, InFirstVisit, InSecondVisit
<1>7. main_pc = "waitPlaced" /\ main_semaphore = 0
  BY <1>2 DEF SyncInv, HandOver
<1>8. \A s \in Rows : thread_pc'[s] # "reunlock"
  BY <1>4, <1>6 DEF InSecondVisit
<1>9. QED
  BY <1>3, <1>4, <1>6, <1>7, <1>8 DEF HandOver, Visiting

LEMMA SignalMainQueue ==
  ASSUME SyncInv, NEW r \in Rows, SignalMain(r)
  PROVE  QueueInv'
<1> USE DEF SyncInv, QueueInv, SyncTypeOK
<1>1. /\ thread_pc' = [thread_pc EXCEPT ![r] = IF update_table[r] THEN "success" ELSE "waitTurn"]
      /\ thread_pc[r] = "signal"
      /\ UNCHANGED <<update_table, thread_semaphore, thread_queue, main_pc, current_row_ind>>
  BY DEF SignalMain, ThreadGoto, mainVars
<1>2. ASSUME NEW s \in Rows PROVE SleeperInv(s)'
  BY <1>1 DEF SleeperInv, Queued
<1>3. ASSUME NEW i \in 1 .. Len(thread_queue) PROVE CellInv(i)'
  BY <1>1 DEF CellInv
<1>4. QED BY <1>1, <1>2, <1>3

LEMMA UnlockQueue ==
  ASSUME SyncInv, NEW r \in Rows, Unlock(r)
  PROVE  QueueInv'
<1> USE DEF SyncInv, QueueInv, SyncTypeOK
<1>1. /\ thread_pc' = [thread_pc EXCEPT ![r] = "signal"]
      /\ thread_pc[r] = "unlock"
      /\ UNCHANGED <<update_table, thread_semaphore, thread_queue, main_pc, current_row_ind>>
  BY DEF Unlock, ThreadGoto, mainVars
<1>2. ASSUME NEW s \in Rows PROVE SleeperInv(s)'
  BY <1>1 DEF SleeperInv, Queued
<1>3. ASSUME NEW i \in 1 .. Len(thread_queue) PROVE CellInv(i)'
  BY <1>1 DEF CellInv
<1>4. QED BY <1>1, <1>2, <1>3

LEMMA UseEmptyFrameQueue ==
  ASSUME SyncInv, NEW r \in Rows, UseEmptyFrame(r)
  PROVE  QueueInv'
<1> USE DEF SyncInv, QueueInv, SyncTypeOK
<1>1. /\ thread_pc[r] = "place"
      /\ UNCHANGED <<thread_semaphore, thread_queue, main_pc, current_row_ind>>
      /\ \/ /\ thread_pc' = [thread_pc EXCEPT ![r] = "unlock"]
            /\ update_table' = [update_table EXCEPT ![r] = TRUE]
         \/ /\ thread_pc' = [thread_pc EXCEPT ![r] = "error"]
            /\ update_table' = update_table
  BY DEF UseEmptyFrame, syncVars, mainVars
<1>2. ASSUME NEW s \in Rows PROVE SleeperInv(s)'
  BY <1>1 DEF SleeperInv, Queued
<1>3. ASSUME NEW i \in 1 .. Len(thread_queue) PROVE CellInv(i)'
  <2>1. thread_queue[i] # r
    BY <1>1 DEF CellInv
  <2>2. QED BY <1>1, <2>1 DEF CellInv
<1>4. QED BY <1>1, <1>2, <1>3

LEMMA WaitForFrameQueue ==
  ASSUME SyncInv, NEW r \in Rows, WaitForFrame(r)
  PROVE  QueueInv'
<1> USE DEF SyncInv, QueueInv, SyncTypeOK
<1>1. /\ thread_pc[r] = "place"
      /\ UNCHANGED <<thread_semaphore, update_table, main_pc, current_row_ind>>
  BY DEF WaitForFrame, add_to_thread_queue, syncVars, mainVars
<1>2. \/ /\ thread_pc' = [thread_pc EXCEPT ![r] = "unlock"]
         /\ thread_queue' = Append(thread_queue, r)
      \/ /\ thread_pc' = [thread_pc EXCEPT ![r] = "error"]
         /\ thread_queue' = thread_queue
  BY DEF WaitForFrame, add_to_thread_queue
<1>3. \A i \in 1 .. Len(thread_queue) : thread_queue[i] # r
  BY <1>1 DEF CellInv
<1>4. thread_semaphore[r] = 0 /\ ~update_table[r]
  BY <1>1 DEF SleeperInv
<1>5. CASE thread_queue' = thread_queue /\ thread_pc' = [thread_pc EXCEPT ![r] = "error"]
  <2>1. ASSUME NEW s \in Rows PROVE SleeperInv(s)'
    BY <1>1, <1>5 DEF SleeperInv, Queued
  <2>2. ASSUME NEW i \in 1 .. Len(thread_queue) PROVE CellInv(i)'
    BY <1>1, <1>3, <1>5 DEF CellInv
  <2>3. QED BY <1>5, <2>1, <2>2
<1>6. CASE thread_queue' = Append(thread_queue, r) /\ thread_pc' = [thread_pc EXCEPT ![r] = "unlock"]
  <2>1. /\ Len(thread_queue') = Len(thread_queue) + 1
        /\ \A i \in 1 .. Len(thread_queue) : thread_queue'[i] = thread_queue[i]
        /\ thread_queue'[Len(thread_queue) + 1] = r
    BY <1>6
  <2>2. \A s \in Rows : Queued(s) \/ s = r => Queued(s)'
    <3>1. Len(thread_queue) \in Nat
      OBVIOUS
    <3>2. \A i \in 1 .. Len(thread_queue) : i \in 1 .. Len(thread_queue')
      BY <2>1, <3>1
    <3>3. Len(thread_queue) + 1 \in 1 .. Len(thread_queue')
      BY <2>1, <3>1
    <3>4. QED BY <2>1, <3>2, <3>3 DEF Queued
  <2>3. ASSUME NEW s \in Rows PROVE SleeperInv(s)'
    BY <1>1, <1>4, <1>6, <2>2 DEF SleeperInv
  <2>4. ASSUME NEW i \in 1 .. Len(thread_queue') PROVE CellInv(i)'
    <3>1. UNCHANGED <<thread_semaphore, update_table>>
      BY <1>1
    <3>2. QED BY <1>3, <1>4, <1>6, <2>1, <3>1, CellAppended
  <2>5. QED BY <2>3, <2>4
<1>7. QED BY <1>2, <1>5, <1>6

LEMMA SpawnRowQueue ==
  ASSUME SyncInv, SpawnRow
  PROVE  QueueInv'
<1> USE DEF SyncInv, QueueInv, SyncTypeOK
<1>1. /\ UNCHANGED <<thread_semaphore, thread_queue, update_table, current_row_ind>>
      /\ main_pc = "loop"
      /\ \/ thread_pc' = [thread_pc EXCEPT ![current_row_ind] = "enter"] /\ main_pc' = "waitPlaced"
         \/ thread_pc' = thread_pc /\ main_pc' = "cleanup"
  BY DEF SpawnRow, syncVars, MainError
<1>2. current_row_ind \in Rows
  BY SpawnsARow, SimAssumption DEF Rows, SimAssumption
<1>3. thread_pc[current_row_ind] = "none" /\ ~update_table[current_row_ind]
  BY <1>1, <1>2 DEF SleeperInv
<1>4. thread_semaphore[current_row_ind] = 0
  BY <1>2, <1>3 DEF SleeperInv
<1>5. ASSUME NEW s \in Rows PROVE SleeperInv(s)'
  <2>1. CASE s = current_row_ind
    <3>1. ~(s > current_row_ind) /\ main_pc' \in {"waitPlaced", "cleanup"}
      BY <1>1, <2>1
    <3>2. thread_pc'[s] \in {"enter", "none"} /\ ~update_table'[s] /\ thread_semaphore'[s] = 0
      BY <1>1, <1>3, <1>4, <2>1
    <3>3. QED BY <1>1, <3>1, <3>2 DEF SleeperInv
  <2>2. CASE s # current_row_ind
    <3>1. thread_pc'[s] = thread_pc[s] /\ SleeperInv(s)
      BY <1>1, <2>2
    <3>2. QED BY <1>1, <2>2, <3>1 DEF SleeperInv, Queued
  <2>3. QED BY <2>1, <2>2
<1>6. ASSUME NEW i \in 1 .. Len(thread_queue) PROVE CellInv(i)'
  <2>1. thread_queue[i] # current_row_ind
    BY <1>3 DEF CellInv
  <2>2. QED BY <1>1, <2>1 DEF CellInv
<1>7. QED BY <1>1, <1>5, <1>6

LEMMA ReleaseHeadQueue ==
  ASSUME SyncInv, ReleaseHead
  PROVE  QueueInv'
<1> DEFINE h == Head(thread_queue)
<1>1. /\ UNCHANGED <<update_table, thread_pc, current_row_ind>>
      /\ main_pc = "release" /\ main_pc' = "waitReleased"
      /\ thread_queue # <<>>
      /\ thread_queue' = Tail(thread_queue)
      /\ thread_semaphore' = [thread_semaphore EXCEPT ![h] = @ + 1]
  BY DEF ReleaseHead, MainGoto, threadVars
<1>2. thread_queue \in Seq(Rows) /\ thread_semaphore \in [Rows -> Int]
  BY DEF SyncInv, SyncTypeOK
<1>3. /\ h = thread_queue[1] /\ h \in Rows
      /\ Len(thread_queue) >= 1
      /\ Len(thread_queue') = Len(thread_queue) - 1
      /\ \A i \in 1 .. Len(thread_queue) - 1 : thread_queue'[i] = thread_queue[i + 1]
  BY <1>1, <1>2
<1>4. \A s \in Rows : SleeperInv(s)
  BY DEF SyncInv, QueueInv
<1>5. \A i \in 1 .. Len(thread_queue) : CellInv(i)
  BY DEF SyncInv, QueueInv
<1>6. thread_semaphore[h] = 0 /\ thread_pc[h] \in {"waitTurn", "terminated"}
  <2>1. CellInv(1)
    BY <1>2, <1>3, <1>5
  <2>2. QED BY <1>1, <1>3, <2>1 DEF CellInv, SyncInv, HandOver, InFirstVisit
<1>7. thread_semaphore'[h] = 1 /\ \A s \in Rows : s # h => thread_semaphore'[s] = thread_semaphore[s]
  BY <1>1, <1>2, <1>3, <1>6
<1>8. ASSUME NEW s \in Rows, s # h, Queued(s) PROVE Queued(s)'
  <2>1. PICK i \in 1 .. Len(thread_queue) : thread_queue[i] = s
    BY <1>8 DEF Queued
  <2>2. i \in 1 .. Len(thread_queue) /\ i # 1
    BY <1>3, <1>8, <2>1
  <2>3. i - 1 \in 1 .. Len(thread_queue) - 1 /\ (i - 1) + 1 = i
    BY <1>2, <2>2
  <2>4. thread_queue'[i - 1] = s
    BY <1>3, <2>1, <2>3
  <2>5. QED BY <1>3, <2>3, <2>4 DEF Queued
<1>9. ASSUME NEW s \in Rows PROVE SleeperInv(s)'
  BY <1>1, <1>4, <1>6, <1>7, <1>8 DEF SleeperInv
<1>10. ASSUME NEW i \in 1 .. Len(thread_queue') PROVE CellInv(i)'
  <2>1. i \in 1 .. Len(thread_queue) - 1
    BY <1>3
  <2>2. 1 \in 1 .. Len(thread_queue) /\ i + 1 \in 1 .. Len(thread_queue) /\ i + 1 # 1
    BY <1>2, <1>3, <2>1
  <2>3. CellInv(1) /\ CellInv(i + 1)
    BY <1>5, <2>2
  <2>4. thread_queue'[i] = thread_queue[i + 1] /\ thread_queue[i + 1] \in Rows
    BY <1>2, <1>3, <2>1, <2>2
  <2>5. thread_queue'[i] # h
    BY <1>3, <2>2, <2>3, <2>4 DEF CellInv
  <2>6. ASSUME NEW j \in 1 .. Len(thread_queue'), thread_queue'[i] = thread_queue'[j]
        PROVE  i = j
    <3>1. j \in 1 .. Len(thread_queue) - 1 /\ j + 1 \in 1 .. Len(thread_queue)
      BY <1>2, <1>3
    <3>2. thread_queue[i + 1] = thread_queue[j + 1]
      BY <1>3, <2>1, <2>6, <3>1
    <3>3. i + 1 = j + 1
      BY <2>3, <3>1, <3>2 DEF CellInv
    <3>4. QED BY <2>1, <3>1, <3>3
  <2>7. QED BY <1>1, <1>7, <2>3, <2>4, <2>5, <2>6 DEF CellInv
<1>11. QED BY <1>9, <1>10 DEF QueueInv

-----------------------------------------------------------------------------
(* Each step keeps the invariant. *)

LEMMA LoopEndsKeepsSync ==
  ASSUME SyncInv, LoopEnds
  PROVE  SyncInv'
<1>1. SyncTypeOK'
  BY DEF SyncInv, SyncTypeOK, MainPC, LoopEnds, MainGoto, syncVars, threadVars
<1>2. RowInv'
  BY DEF SyncInv, RowInv, LoopEnds, MainGoto
<1>3. HandOver'
  BY DEF SyncInv, HandOver, Visiting, InFirstVisit, InSecondVisit, LoopEnds, MainGoto, syncVars,
         threadVars
<1>4. MutexProtectsTables'
  BY DEF SyncInv, MutexProtectsTables, LoopEnds, MainGoto, syncVars, threadVars
<1>5. QueueInv'
  BY DEF SyncInv, QueueInv, SleeperInv, Queued, LoopEnds, MainGoto, syncVars, threadVars,
         WorkRemains
<1>6. QED BY <1>1, <1>2, <1>3, <1>4, <1>5 DEF SyncInv

LEMMA OrderErrorKeepsSync ==
  ASSUME SyncInv, OrderError
  PROVE  SyncInv'
<1>1. SyncTypeOK'
  BY DEF SyncInv, SyncTypeOK, MainPC, OrderError, MainError, syncVars, threadVars
<1>2. RowInv'
  BY DEF SyncInv, RowInv, OrderError, MainError
<1>3. HandOver'
  BY DEF SyncInv, HandOver, Visiting, InFirstVisit, InSecondVisit, OrderError, syncVars,
         threadVars
<1>4. MutexProtectsTables'
  BY DEF SyncInv, MutexProtectsTables, OrderError, MainError, syncVars, threadVars
<1>5. QueueInv'
  BY DEF SyncInv, QueueInv, SleeperInv, CellInv, Queued, OrderError, syncVars, threadVars
<1>6. QED BY <1>1, <1>2, <1>3, <1>4, <1>5 DEF SyncInv

LEMMA NoRowNowKeepsSync ==
  ASSUME SyncInv, NoRowNow
  PROVE  SyncInv'
<1>1. SyncTypeOK'
  BY DEF SyncInv, SyncTypeOK, MainPC, NoRowNow, MainGoto, syncVars, threadVars
<1>2. RowInv'
  BY DEF SyncInv, RowInv, SyncTypeOK, Row, NoRowNow, MainGoto
<1>3. HandOver'
  BY DEF SyncInv, HandOver, Visiting, InFirstVisit, InSecondVisit, NoRowNow, MainGoto, syncVars,
         threadVars
<1>4. MutexProtectsTables'
  BY DEF SyncInv, MutexProtectsTables, NoRowNow, MainGoto, syncVars, threadVars
<1>5. QueueInv'
  BY DEF SyncInv, QueueInv, SleeperInv, CellInv, Queued, NoRowNow, MainGoto, syncVars,
         threadVars
<1>6. QED BY <1>1, <1>2, <1>3, <1>4, <1>5 DEF SyncInv

LEMMA SpawnRowKeepsSync ==
  ASSUME SyncInv, SpawnRow
  PROVE  SyncInv'
<1>1. SyncTypeOK'
  BY SpawnRowTypes
<1>2. RowInv'
  BY SimAssumption DEF SyncInv, SimAssumption, RowInv, SyncTypeOK, SpawnRow, loop_time, TurnBack
<1>3. HandOver'
  BY SimAssumption, TablesAssumption
     DEF SyncInv, SimAssumption, TablesAssumption, HandOver, Visiting, InFirstVisit,
         InSecondVisit, SyncTypeOK, MainPC, ThreadPC, MainThread, NoOwner, SpawnRow, syncVars
<1>4. MutexProtectsTables'
  BY DEF SyncInv, MutexProtectsTables, SyncTypeOK, SpawnRow, MainError, syncVars
<1>5. QueueInv'
  BY SpawnRowQueue
<1>6. QED BY <1>1, <1>2, <1>3, <1>4, <1>5 DEF SyncInv

LEMMA MoveToNextRowKeepsSync ==
  ASSUME SyncInv, MoveToNextRow
  PROVE  SyncInv'
<1>1. SyncTypeOK'
  BY MoveToNextRowTypes
<1>2. RowInv'
  BY SimAssumption, TablesAssumption
     DEF SyncInv, SimAssumption, TablesAssumption, RowInv, SyncTypeOK, MoveToNextRow
<1>3. HandOver'
  BY DEF SyncInv, HandOver, Visiting, InFirstVisit, InSecondVisit, MoveToNextRow, threadVars
<1>4. MutexProtectsTables'
  BY DEF SyncInv, MutexProtectsTables, MoveToNextRow, MainError, threadVars
<1>5. QueueInv'
  BY DEF SyncInv, QueueInv, SleeperInv, CellInv, Queued, SyncTypeOK, Rows, MoveToNextRow,
         MainError, threadVars
<1>6. QED BY <1>1, <1>2, <1>3, <1>4, <1>5 DEF SyncInv

LEMMA LockTablesKeepsSync ==
  ASSUME SyncInv, LockTables
  PROVE  SyncInv'
<1>1. SyncTypeOK'
  BY TablesAssumption
     DEF SyncInv, TablesAssumption, SyncTypeOK, MainPC, LockTables, MainGoto, threadVars
<1>2. RowInv'
  BY DEF SyncInv, RowInv, LockTables, MainGoto
<1>3. HandOver'
  BY DEF SyncInv, HandOver, Visiting, InFirstVisit, InSecondVisit, LockTables, MainGoto,
         threadVars
<1>4. MutexProtectsTables'
  BY DEF SyncInv, MutexProtectsTables, NoOwner, Rows, LockTables, threadVars
<1>5. QueueInv'
  BY DEF SyncInv, QueueInv, SleeperInv, CellInv, Queued, LockTables, MainGoto, threadVars
<1>6. QED BY <1>1, <1>2, <1>3, <1>4, <1>5 DEF SyncInv

LEMMA ScanFrameKeepsSync ==
  ASSUME SyncInv, ScanFrame
  PROVE  SyncInv'
<1>1. SyncTypeOK'
  BY ScanFrameTypes
<1>2. RowInv'
  BY DEF SyncInv, RowInv, ScanFrame, MainError
<1>3. HandOver'
  BY DEF SyncInv, HandOver, Visiting, InFirstVisit, InSecondVisit, ScanFrame, syncVars,
         threadVars
<1>4. MutexProtectsTables'
  BY DEF SyncInv, MutexProtectsTables, ScanFrame, syncVars, threadVars
<1>5. QueueInv'
  BY DEF SyncInv, QueueInv, SleeperInv, CellInv, Queued, ScanFrame, syncVars, threadVars
<1>6. QED BY <1>1, <1>2, <1>3, <1>4, <1>5 DEF SyncInv

LEMMA ScanDoneKeepsSync ==
  ASSUME SyncInv, ScanDone
  PROVE  SyncInv'
<1>1. SyncTypeOK'
  BY DEF SyncInv, SyncTypeOK, MainPC, ScanDone, MainGoto, syncVars, threadVars
<1>2. RowInv'
  BY DEF SyncInv, RowInv, ScanDone, MainGoto
<1>3. HandOver'
  BY DEF SyncInv, HandOver, Visiting, InFirstVisit, InSecondVisit, ScanDone, MainGoto, syncVars,
         threadVars
<1>4. MutexProtectsTables'
  BY DEF SyncInv, MutexProtectsTables, ScanDone, MainGoto, syncVars, threadVars
<1>5. QueueInv'
  BY DEF SyncInv, QueueInv, SleeperInv, CellInv, Queued, ScanDone, MainGoto, syncVars,
         threadVars
<1>6. QED BY <1>1, <1>2, <1>3, <1>4, <1>5 DEF SyncInv

LEMMA ReleaseHeadKeepsSync ==
  ASSUME SyncInv, ReleaseHead
  PROVE  SyncInv'
<1>1. SyncTypeOK'
  BY SimAssumption, TablesAssumption
     DEF SyncInv, SimAssumption, TablesAssumption, SyncTypeOK, MainPC, ReleaseHead, MainGoto,
         threadVars
<1>2. RowInv'
  BY DEF SyncInv, RowInv, ReleaseHead, MainGoto
<1>3. HandOver'
  BY DEF SyncInv, HandOver, Visiting, InFirstVisit, InSecondVisit, ReleaseHead, MainGoto,
         threadVars
<1>4. MutexProtectsTables'
  BY DEF SyncInv, MutexProtectsTables, MainThread, Rows, ReleaseHead, MainGoto, threadVars
<1>5. QueueInv'
  BY ReleaseHeadQueue
<1>6. QED BY <1>1, <1>2, <1>3, <1>4, <1>5 DEF SyncInv

LEMMA ThreadReleasedKeepsSync ==
  ASSUME SyncInv, ThreadReleased
  PROVE  SyncInv'
<1>1. SyncTypeOK'
  BY DEF SyncInv, SyncTypeOK, MainPC, ThreadReleased, MainGoto, threadVars
<1>2. RowInv'
  BY DEF SyncInv, RowInv, ThreadReleased, MainGoto
<1>3. HandOver'
  BY DEF SyncInv, HandOver, Visiting, InFirstVisit, InSecondVisit, ThreadReleased, MainGoto,
         threadVars
<1>4. MutexProtectsTables'
  BY DEF SyncInv, MutexProtectsTables, ThreadReleased, MainGoto, threadVars
<1>5. QueueInv'
  BY DEF SyncInv, QueueInv, SleeperInv, CellInv, Queued, ThreadReleased, MainGoto, threadVars
<1>6. QED BY <1>1, <1>2, <1>3, <1>4, <1>5 DEF SyncInv

LEMMA RelockTablesKeepsSync ==
  ASSUME SyncInv, RelockTables
  PROVE  SyncInv'
<1>1. SyncTypeOK'
  BY DEF SyncInv, SyncTypeOK, MainPC, RelockTables, MainGoto, threadVars
<1>2. RowInv'
  BY DEF SyncInv, RowInv, RelockTables, MainGoto
<1>3. HandOver'
  BY DEF SyncInv, HandOver, Visiting, InFirstVisit, InSecondVisit, NoOwner, Rows,
         MutexProtectsTables, RelockTables, MainGoto, threadVars
<1>4. MutexProtectsTables'
  BY DEF SyncInv, MutexProtectsTables, NoOwner, Rows, RelockTables, threadVars
<1>5. QueueInv'
  BY DEF SyncInv, QueueInv, SleeperInv, CellInv, Queued, RelockTables, MainGoto, threadVars
<1>6. QED BY <1>1, <1>2, <1>3, <1>4, <1>5 DEF SyncInv

LEMMA TickKeepsSync ==
  ASSUME SyncInv, Tick
  PROVE  SyncInv'
<1>1. SyncTypeOK'
  BY DEF SyncInv, SyncTypeOK, MainPC, Tick, MainGoto, threadVars
<1>2. RowInv'
  BY DEF SyncInv, RowInv, SyncTypeOK, Row, Tick, MainGoto
<1>3. HandOver'
  BY DEF SyncInv, HandOver, Visiting, InFirstVisit, InSecondVisit, Tick, MainGoto, threadVars
<1>4. MutexProtectsTables'
  BY DEF SyncInv, MutexProtectsTables, MainThread, Rows, Tick, MainGoto, threadVars
<1>5. QueueInv'
  BY DEF SyncInv, QueueInv, SleeperInv, CellInv, Queued, Tick, MainGoto, threadVars
<1>6. QED BY <1>1, <1>2, <1>3, <1>4, <1>5 DEF SyncInv

LEMMA JoinThreadsKeepsSync ==
  ASSUME SyncInv, JoinThreads
  PROVE  SyncInv'
<1>1. SyncTypeOK'
  BY SimAssumption, TablesAssumption
     DEF SyncInv, SimAssumption, TablesAssumption, SyncTypeOK, MainPC, JoinThreads, MainError,
         CallWorks, CallFails, syncVars, threadVars
<1>2. RowInv'
  BY DEF SyncInv, RowInv, JoinThreads, MainError
<1>3. HandOver'
  BY DEF SyncInv, HandOver, Visiting, InFirstVisit, InSecondVisit, JoinThreads, syncVars,
         threadVars
<1>4. MutexProtectsTables'
  BY DEF SyncInv, MutexProtectsTables, JoinThreads, MainError, syncVars, threadVars
<1>5. QueueInv'
  BY DEF SyncInv, QueueInv, SleeperInv, CellInv, Queued, JoinThreads, syncVars, threadVars
<1>6. QED BY <1>1, <1>2, <1>3, <1>4, <1>5 DEF SyncInv

LEMMA FindLastEndTimeKeepsSync ==
  ASSUME SyncInv, FindLastEndTime
  PROVE  SyncInv'
<1>1. SyncTypeOK'
  BY FindLastEndTimeTypes
<1>2. RowInv'
  BY DEF SyncInv, RowInv, FindLastEndTime
<1>3. HandOver'
  BY DEF SyncInv, HandOver, Visiting, InFirstVisit, InSecondVisit, FindLastEndTime, syncVars,
         threadVars
<1>4. MutexProtectsTables'
  BY DEF SyncInv, MutexProtectsTables, FindLastEndTime, syncVars, threadVars
<1>5. QueueInv'
  BY DEF SyncInv, QueueInv, SleeperInv, CellInv, Queued, FindLastEndTime, syncVars, threadVars
<1>6. QED BY <1>1, <1>2, <1>3, <1>4, <1>5 DEF SyncInv

LEMMA PrintRemainsKeepsSync ==
  ASSUME SyncInv, PrintRemains
  PROVE  SyncInv'
<1>1. SyncTypeOK'
  BY PrintRemainsTypes
<1>2. RowInv'
  BY DEF SyncInv, RowInv, PrintRemains, MainError
<1>3. HandOver'
  BY DEF SyncInv, HandOver, Visiting, InFirstVisit, InSecondVisit, PrintRemains, syncVars,
         threadVars
<1>4. MutexProtectsTables'
  BY DEF SyncInv, MutexProtectsTables, PrintRemains, MainError, syncVars, threadVars
<1>5. QueueInv'
  BY DEF SyncInv, QueueInv, SleeperInv, CellInv, Queued, PrintRemains, syncVars, threadVars
<1>6. QED BY <1>1, <1>2, <1>3, <1>4, <1>5 DEF SyncInv

LEMMA CleanupKeepsSync ==
  ASSUME SyncInv, Cleanup
  PROVE  SyncInv'
<1>1. SyncTypeOK'
  BY DEF SyncInv, SyncTypeOK, MainPC, ThreadPC, Cleanup, MainGoto, syncVars
<1>2. RowInv'
  BY DEF SyncInv, RowInv, Cleanup, MainGoto
<1>3. HandOver'
  BY DEF SyncInv, HandOver, Visiting, InFirstVisit, InSecondVisit, Cleanup, MainGoto, syncVars
<1>4. MutexProtectsTables'
  BY DEF MutexProtectsTables, Cleanup, MainGoto, Ended
<1>5. QueueInv'
  BY SimAssumption
     DEF SyncInv, SimAssumption, QueueInv, SleeperInv, CellInv, Queued, SyncTypeOK, MainThread,
         NoOwner, Cleanup, MainGoto, syncVars
<1>6. QED BY <1>1, <1>2, <1>3, <1>4, <1>5 DEF SyncInv

LEMMA EnterKeepsSync ==
  ASSUME SyncInv, NEW r \in Rows, Enter(r)
  PROVE  SyncInv'
<1>1. SyncTypeOK'
  BY DEF SyncInv, SyncTypeOK, ThreadPC, Enter, ThreadGoto, mainVars
<1>2. RowInv'
  BY DEF SyncInv, RowInv, Enter, mainVars
<1>3. HandOver'
  BY DEF SyncInv, HandOver, Visiting, InFirstVisit, InSecondVisit, Enter, ThreadGoto, mainVars
<1>4. MutexProtectsTables'
  BY DEF SyncInv, MutexProtectsTables, MainThread, NoOwner, Rows, Enter, ThreadGoto, mainVars
<1>5. QueueInv'
  BY DEF SyncInv, QueueInv, SleeperInv, CellInv, Queued, Enter, ThreadGoto, mainVars
<1>6. QED BY <1>1, <1>2, <1>3, <1>4, <1>5 DEF SyncInv

LEMMA UseResidentPageKeepsSync ==
  ASSUME SyncInv, NEW r \in Rows, UseResidentPage(r)
  PROVE  SyncInv'
<1>1. SyncTypeOK'
  BY DEF SyncInv, SyncTypeOK, ThreadPC, UseResidentPage, ThreadGoto, syncVars, mainVars
<1>2. RowInv'
  BY DEF SyncInv, RowInv, UseResidentPage, mainVars
<1>3. HandOver'
  BY DEF SyncInv, HandOver, Visiting, InFirstVisit, InSecondVisit, UseResidentPage, ThreadGoto,
         syncVars, mainVars
<1>4. MutexProtectsTables'
  BY DEF SyncInv, MutexProtectsTables, UseResidentPage, ThreadGoto, syncVars, mainVars
<1>5. QueueInv'
  BY UseResidentPageQueue
<1>6. QED BY <1>1, <1>2, <1>3, <1>4, <1>5 DEF SyncInv

LEMMA UseEmptyFrameKeepsSync ==
  ASSUME SyncInv, NEW r \in Rows, UseEmptyFrame(r)
  PROVE  SyncInv'
<1>1. SyncTypeOK'
  BY UseEmptyFrameTypes
<1>2. RowInv'
  BY DEF SyncInv, RowInv, UseEmptyFrame, mainVars
<1>3. HandOver'
  BY FirstVisitStep DEF UseEmptyFrame, syncVars, mainVars
<1>4. MutexProtectsTables'
  BY DEF SyncInv, MutexProtectsTables, SyncTypeOK, UseEmptyFrame, syncVars, mainVars
<1>5. QueueInv'
  BY UseEmptyFrameQueue
<1>6. QED BY <1>1, <1>2, <1>3, <1>4, <1>5 DEF SyncInv

LEMMA WaitForFrameKeepsSync ==
  ASSUME SyncInv, NEW r \in Rows, WaitForFrame(r)
  PROVE  SyncInv'
<1>1. SyncTypeOK'
  BY WaitForFrameTypes
<1>2. RowInv'
  BY DEF SyncInv, RowInv, WaitForFrame, mainVars
<1>3. HandOver'
  BY FirstVisitStep DEF WaitForFrame, syncVars, mainVars
<1>4. MutexProtectsTables'
  BY DEF SyncInv, MutexProtectsTables, SyncTypeOK, WaitForFrame, syncVars, mainVars
<1>5. QueueInv'
  BY WaitForFrameQueue
<1>6. QED BY <1>1, <1>2, <1>3, <1>4, <1>5 DEF SyncInv

LEMMA UnlockKeepsSync ==
  ASSUME SyncInv, NEW r \in Rows, Unlock(r)
  PROVE  SyncInv'
<1>1. SyncTypeOK'
  BY DEF SyncInv, SyncTypeOK, ThreadPC, Unlock, ThreadGoto, mainVars
<1>2. RowInv'
  BY DEF SyncInv, RowInv, Unlock, mainVars
<1>3. HandOver'
  BY DEF SyncInv, HandOver, Visiting, InFirstVisit, InSecondVisit, Unlock, ThreadGoto, mainVars
<1>4. MutexProtectsTables'
  BY DEF SyncInv, MutexProtectsTables, SyncTypeOK, MainThread, Rows, Unlock, ThreadGoto,
         mainVars
<1>5. QueueInv'
  BY UnlockQueue
<1>6. QED BY <1>1, <1>2, <1>3, <1>4, <1>5 DEF SyncInv

LEMMA SignalMainKeepsSync ==
  ASSUME SyncInv, NEW r \in Rows, SignalMain(r)
  PROVE  SyncInv'
<1>1. SyncTypeOK'
  BY DEF SyncInv, SyncTypeOK, ThreadPC, SignalMain, ThreadGoto, mainVars
<1>2. RowInv'
  BY DEF SyncInv, RowInv, SignalMain, mainVars
<1>3. HandOver'
  BY SignalMainHandOver
<1>4. MutexProtectsTables'
  BY DEF SyncInv, MutexProtectsTables, SignalMain, ThreadGoto, mainVars
<1>5. QueueInv'
  BY SignalMainQueue
<1>6. QED BY <1>1, <1>2, <1>3, <1>4, <1>5 DEF SyncInv

LEMMA TakeTurnKeepsSync ==
  ASSUME SyncInv, NEW r \in Rows, TakeTurn(r)
  PROVE  SyncInv'
<1>1. SyncTypeOK'
  BY DEF SyncInv, SyncTypeOK, ThreadPC, TakeTurn, ThreadGoto, mainVars
<1>2. RowInv'
  BY DEF SyncInv, RowInv, TakeTurn, mainVars
<1>3. HandOver'
  BY DEF SyncInv, HandOver, Visiting, InFirstVisit, InSecondVisit, TakeTurn, ThreadGoto,
         mainVars
<1>4. MutexProtectsTables'
  BY DEF SyncInv, MutexProtectsTables, TakeTurn, ThreadGoto, mainVars
<1>5. QueueInv'
  BY DEF SyncInv, QueueInv, SleeperInv, CellInv, Queued, SyncTypeOK, RowInv, TakeTurn,
         ThreadGoto, mainVars
<1>6. QED BY <1>1, <1>2, <1>3, <1>4, <1>5 DEF SyncInv

LEMMA ReenterKeepsSync ==
  ASSUME SyncInv, NEW r \in Rows, Reenter(r)
  PROVE  SyncInv'
<1>1. SyncTypeOK'
  BY DEF SyncInv, SyncTypeOK, ThreadPC, Reenter, ThreadGoto, mainVars
<1>2. RowInv'
  BY DEF SyncInv, RowInv, Reenter, mainVars
<1>3. HandOver'
  BY DEF SyncInv, HandOver, Visiting, InFirstVisit, InSecondVisit, Reenter, ThreadGoto, mainVars
<1>4. MutexProtectsTables'
  BY DEF SyncInv, MutexProtectsTables, MainThread, NoOwner, Rows, Reenter, ThreadGoto, mainVars
<1>5. QueueInv'
  BY DEF SyncInv, QueueInv, SleeperInv, CellInv, Queued, Reenter, ThreadGoto, mainVars
<1>6. QED BY <1>1, <1>2, <1>3, <1>4, <1>5 DEF SyncInv

LEMMA UsePageBroughtInKeepsSync ==
  ASSUME SyncInv, NEW r \in Rows, UsePageBroughtIn(r)
  PROVE  SyncInv'
<1>1. SyncTypeOK'
  BY DEF SyncInv, SyncTypeOK, ThreadPC, UsePageBroughtIn, ThreadGoto, syncVars, mainVars
<1>2. RowInv'
  BY DEF SyncInv, RowInv, UsePageBroughtIn, mainVars
<1>3. HandOver'
  BY DEF SyncInv, HandOver, Visiting, InFirstVisit, InSecondVisit, UsePageBroughtIn, ThreadGoto,
         syncVars, mainVars
<1>4. MutexProtectsTables'
  BY DEF SyncInv, MutexProtectsTables, UsePageBroughtIn, ThreadGoto, syncVars, mainVars
<1>5. QueueInv'
  BY DEF SyncInv, QueueInv, SleeperInv, CellInv, Queued, UsePageBroughtIn, ThreadGoto, syncVars,
         mainVars
<1>6. QED BY <1>1, <1>2, <1>3, <1>4, <1>5 DEF SyncInv

LEMMA EvictAndPlaceKeepsSync ==
  ASSUME SyncInv, NEW r \in Rows, EvictAndPlace(r)
  PROVE  SyncInv'
<1>1. SyncTypeOK'
  BY DEF SyncInv, SyncTypeOK, ThreadPC, EvictAndPlace, ThreadGoto, syncVars, mainVars
<1>2. RowInv'
  BY DEF SyncInv, RowInv, EvictAndPlace, mainVars
<1>3. HandOver'
  BY DEF SyncInv, HandOver, Visiting, InFirstVisit, InSecondVisit, EvictAndPlace, ThreadGoto,
         syncVars, mainVars
<1>4. MutexProtectsTables'
  BY DEF SyncInv, MutexProtectsTables, EvictAndPlace, ThreadGoto, syncVars, mainVars
<1>5. QueueInv'
  BY DEF SyncInv, QueueInv, SleeperInv, CellInv, Queued, EvictAndPlace, ThreadGoto, syncVars,
         mainVars
<1>6. QED BY <1>1, <1>2, <1>3, <1>4, <1>5 DEF SyncInv

LEMMA SignalMainAgainKeepsSync ==
  ASSUME SyncInv, NEW r \in Rows, SignalMainAgain(r)
  PROVE  SyncInv'
<1>1. SyncTypeOK'
  BY DEF SyncInv, SyncTypeOK, ThreadPC, SignalMainAgain, ThreadGoto, mainVars
<1>2. RowInv'
  BY DEF SyncInv, RowInv, SignalMainAgain, mainVars
<1>3. HandOver'
  BY DEF SyncInv, HandOver, Visiting, InFirstVisit, InSecondVisit, SyncTypeOK, SignalMainAgain,
         ThreadGoto, mainVars
<1>4. MutexProtectsTables'
  BY DEF SyncInv, MutexProtectsTables, SignalMainAgain, ThreadGoto, mainVars
<1>5. QueueInv'
  BY DEF SyncInv, QueueInv, SleeperInv, CellInv, Queued, SignalMainAgain, ThreadGoto, mainVars
<1>6. QED BY <1>1, <1>2, <1>3, <1>4, <1>5 DEF SyncInv

LEMMA UnlockAgainKeepsSync ==
  ASSUME SyncInv, NEW r \in Rows, UnlockAgain(r)
  PROVE  SyncInv'
<1>1. SyncTypeOK'
  BY DEF SyncInv, SyncTypeOK, ThreadPC, UnlockAgain, ThreadGoto, mainVars
<1>2. RowInv'
  BY DEF SyncInv, RowInv, UnlockAgain, mainVars
<1>3. HandOver'
  BY DEF SyncInv, HandOver, Visiting, InFirstVisit, InSecondVisit, UnlockAgain, ThreadGoto,
         mainVars
<1>4. MutexProtectsTables'
  BY DEF SyncInv, MutexProtectsTables, SyncTypeOK, MainThread, Rows, UnlockAgain, ThreadGoto,
         mainVars
<1>5. QueueInv'
  BY DEF SyncInv, QueueInv, SleeperInv, CellInv, Queued, UnlockAgain, ThreadGoto, mainVars
<1>6. QED BY <1>1, <1>2, <1>3, <1>4, <1>5 DEF SyncInv

-----------------------------------------------------------------------------
LEMMA InitSync == Init => SyncInv
<1> SUFFICES ASSUME Init PROVE SyncInv
  OBVIOUS
<1>1. next_row \in Row
  <2>1. FirstStarts \subseteq Int /\ WorkTimes \subseteq Nat
    BY SimAssumption DEF SimAssumption
  <2>2. next_row \in [start_time : FirstStarts, page : Pages, work_time : WorkTimes]
    BY DEF Init
  <2>3. QED BY ONLY <2>1, <2>2 DEF Row
<1> USE SimAssumption, TablesAssumption DEF SimAssumption, TablesAssumption, Init, Rows
<1>2. SyncTypeOK
  BY <1>1
<1>3. RowInv
  BY DEF RowInv
<1>4. HandOver
  BY DEF HandOver, Visiting, InFirstVisit, InSecondVisit
<1>5. MutexProtectsTables
  BY DEF MutexProtectsTables
<1>6. QueueInv
  BY DEF QueueInv, SleeperInv, CellInv, Queued
<1>7. QED BY <1>2, <1>3, <1>4, <1>5, <1>6

LEMMA NextSync == SyncInv /\ [Next]_vars => SyncInv'
<1> SUFFICES ASSUME SyncInv, [Next]_vars PROVE SyncInv'
  OBVIOUS
<1>1. ASSUME Main PROVE SyncInv'
  BY <1>1, LoopEndsKeepsSync, OrderErrorKeepsSync, NoRowNowKeepsSync,
     SpawnRowKeepsSync, MoveToNextRowKeepsSync, LockTablesKeepsSync,
     ScanFrameKeepsSync, ScanDoneKeepsSync, ReleaseHeadKeepsSync,
     ThreadReleasedKeepsSync, RelockTablesKeepsSync, TickKeepsSync,
     JoinThreadsKeepsSync, FindLastEndTimeKeepsSync, PrintRemainsKeepsSync,
     CleanupKeepsSync DEF Main
<1>2. ASSUME NEW r \in Rows, Thread(r) PROVE SyncInv'
  BY <1>2, EnterKeepsSync, UseResidentPageKeepsSync, UseEmptyFrameKeepsSync,
     WaitForFrameKeepsSync, UnlockKeepsSync, SignalMainKeepsSync,
     TakeTurnKeepsSync, ReenterKeepsSync, UsePageBroughtInKeepsSync,
     EvictAndPlaceKeepsSync, SignalMainAgainKeepsSync, UnlockAgainKeepsSync DEF Thread
<1>3. ASSUME UNCHANGED vars PROVE SyncInv'
  <2> USE <1>3 DEF vars, mainVars, threadVars, syncVars, SyncInv
  <2>1. SyncTypeOK'
    BY DEF SyncTypeOK
  <2>2. RowInv'
    BY DEF RowInv
  <2>3. HandOver'
    BY DEF HandOver, Visiting, InFirstVisit, InSecondVisit
  <2>4. MutexProtectsTables'
    BY DEF MutexProtectsTables
  <2>5. QueueInv'
    BY DEF QueueInv, SleeperInv, CellInv, Queued
  <2>6. QED BY <2>1, <2>2, <2>3, <2>4, <2>5
<1>4. QED BY <1>1, <1>2, <1>3 DEF Next, Exited

THEOREM SyncInvariant == Spec => []SyncInv
BY InitSync, NextSync, PTL DEF Spec

(* Main touches what it shares, without the mutex, only while no page      *)
(* thread is about to touch it.                                            *)
THEOREM NoDataRaceHolds == Spec => []NoDataRace
<1>1. SyncInv => NoDataRace
  BY DEF SyncInv, HandOver, NoDataRace, InSecondVisit
<1>2. QED BY <1>1, SyncInvariant, PTL

(* Critical sections exclude each other.                                   *)
THEOREM MutexProtectsTablesHolds == Spec => []MutexProtectsTables
<1>1. SyncInv => MutexProtectsTables
  BY DEF SyncInv
<1>2. QED BY <1>1, SyncInvariant, PTL

(* ReleaseSemaphore is never called on a semaphore at its maximum.         *)
THEOREM ReleaseNeverFailsHolds == Spec => []ReleaseNeverFails
<1>1. SyncInv => ReleaseNeverFails
  <2> SUFFICES ASSUME SyncInv PROVE ReleaseNeverFails
    OBVIOUS
  <2>1. \A r \in Rows : thread_pc[r] \in {"signal", "resignal"} => main_semaphore = 0
    BY DEF SyncInv, HandOver, InFirstVisit, InSecondVisit
  <2>2. ASSUME thread_queue # <<>> PROVE thread_semaphore[Head(thread_queue)] = 0
    <3>1. 1 \in 1 .. Len(thread_queue) /\ Head(thread_queue) = thread_queue[1]
      BY <2>2 DEF SyncInv, SyncTypeOK
    <3>2. QED BY <3>1 DEF SyncInv, QueueInv, CellInv
  <2>3. QED BY <2>1, <2>2 DEF ReleaseNeverFails
<1>2. QED BY <1>1, SyncInvariant, PTL

(* No wake-up is lost: a sleeping thread is queued or signalled.           *)
THEOREM WaitersAreQueuedHolds == Spec => []WaitersAreQueued
<1>1. SyncInv => WaitersAreQueued
  <2> SUFFICES ASSUME SyncInv PROVE WaitersAreQueued
    OBVIOUS
  <2>1. DOMAIN thread_queue = 1 .. Len(thread_queue)
    BY DEF SyncInv, SyncTypeOK
  <2>2. ASSUME NEW r \in Rows, thread_pc[r] = "waitTurn"
        PROVE  (r \in ToSet(thread_queue)) # (thread_semaphore[r] > 0)
    <3>1. r \in ToSet(thread_queue) <=> Queued(r)
      BY <2>1 DEF ToSet, Queued
    <3>2. thread_semaphore[r] = 0 => Queued(r)
      BY <2>2 DEF SyncInv, QueueInv, SleeperInv
    <3>3. Queued(r) => thread_semaphore[r] = 0
      BY DEF SyncInv, QueueInv, CellInv, Queued
    <3>4. thread_semaphore[r] \in {0, 1}
      BY DEF SyncInv, QueueInv, SleeperInv
    <3>5. QED BY <3>1, <3>2, <3>3, <3>4
  <2>3. ASSUME NEW i \in DOMAIN thread_queue PROVE CellInv(i)
    BY <2>1 DEF SyncInv, QueueInv
  <2>4. QED BY <2>1, <2>2, <2>3 DEF WaitersAreQueued, CellInv
<1>2. QED BY <1>1, SyncInvariant, PTL

(* Main never starts a thread past the end of its arrays.                  *)
THEOREM NoRowPastEndHolds == Spec => []NoRowPastEnd
<1>1. SyncInv => NoRowPastEnd
  BY DEF SyncInv, RowInv, SyncTypeOK, NoRowPastEnd, TurnBack, loop_time
<1>2. QED BY <1>1, SyncInvariant, PTL

-----------------------------------------------------------------------------
(* How the program ends. *)

(* The program has a result when main is past run_pages.                   *)
ResultInv == result = "running" <=> main_pc \notin {"cleanup", "exited"}

(* A thread that failed keeps the mutex and gave no signal: main waits for *)
(* it for ever.  Threads are terminated by nobody but free_resource.       *)
FailedInv ==
  \A r \in Rows :
    /\ thread_pc[r] = "error" => /\ main_pc = "waitPlaced" /\ main_semaphore = 0
                                 /\ \A s \in Rows : ~Visiting(s)
    /\ thread_pc[r] = "terminated" => main_pc = "exited"

JoinedInv ==
  main_pc \in {"findLast", "print"} \/ result = "SUCCESS_CODE" =>
    \A r \in Rows : thread_pc[r] = "success"

(* Why the program may report an error.                                    *)
ErrorReason ==
  \/ faults > 0 \/ NumRows > MaxWaitObjects
  \/ current_row_ind < NumRows /\ next_row.start_time < g_current_time - 1
  \/ current_row_ind < NumRows - 1 /\ lines_left = 0

ReasonInv == result = "ERROR_CODE" => ErrorReason

EndingInv == ResultInv /\ FailedInv /\ JoinedInv /\ ReasonInv

(* What a step of a thread leaves alone, and what it needs.                *)
LEMMA ThreadStep ==
  ASSUME SyncInv, NEW r \in Rows, Thread(r)
  PROVE  /\ Visiting(r)
         /\ UNCHANGED <<mainVars, g_current_time>>
         /\ faults' >= faults
         /\ \A s \in Rows : s # r => thread_pc'[s] = thread_pc[s]
         /\ thread_pc[r] # "success" /\ thread_pc'[r] \notin {"none", "terminated"}
         /\ thread_pc'[r] = "error" => thread_pc[r] = "place" /\ UNCHANGED syncVars
<1>1. Visiting(r)
  BY DEF Thread, Visiting, InFirstVisit, InSecondVisit, Enter, UseResidentPage, UseEmptyFrame,
         WaitForFrame, Unlock, SignalMain, TakeTurn, Reenter, UsePageBroughtIn, EvictAndPlace,
         SignalMainAgain, UnlockAgain, ThreadGoto
<1>2. UNCHANGED <<mainVars, g_current_time>>
  BY DEF Thread, Enter, UseResidentPage, UseEmptyFrame, WaitForFrame, Unlock, SignalMain,
         TakeTurn, Reenter, UsePageBroughtIn, EvictAndPlace, SignalMainAgain, UnlockAgain
<1>3. faults' >= faults
  <2>1. faults \in Int
    BY SimAssumption DEF SimAssumption, SyncInv, SyncTypeOK
  <2>2. CASE EvictAndPlace(r)
    BY <2>1, <2>2 DEF EvictAndPlace
  <2>3. CASE UseEmptyFrame(r) \/ WaitForFrame(r)
    <3>1. CallWorks \/ CallFails
      BY <2>3 DEF UseEmptyFrame, WaitForFrame
    <3>2. QED BY <2>1, <3>1 DEF CallWorks, CallFails
  <2>4. QED
    BY <2>1, <2>2, <2>3 DEF Thread, Enter, UseResidentPage, Unlock, SignalMain,
         TakeTurn, Reenter, UsePageBroughtIn, SignalMainAgain, UnlockAgain
<1>4. \E pc \in {"place", "unlock", "signal", "waitTurn", "reenter", "evict", "resignal",
                 "reunlock", "success", "error"} :
        /\ thread_pc' = [thread_pc EXCEPT ![r] = pc]
        /\ pc = "error" => thread_pc[r] = "place" /\ UNCHANGED syncVars
  BY DEF Thread, Enter, UseResidentPage, UseEmptyFrame,
         WaitForFrame, Unlock, SignalMain, TakeTurn, Reenter, UsePageBroughtIn, EvictAndPlace,
         SignalMainAgain, UnlockAgain, ThreadGoto
<1>5. thread_pc[r] # "success"
  BY <1>1 DEF Visiting, InFirstVisit, InSecondVisit
<1>6. thread_pc \in [Rows -> ThreadPC]
  BY DEF SyncInv, SyncTypeOK
<1>7. QED BY <1>1, <1>2, <1>3, <1>4, <1>5, <1>6

LEMMA ThreadKeepsEnding ==
  ASSUME SyncInv, EndingInv, NEW r \in Rows, Thread(r), SyncInv'
  PROVE  EndingInv'
<1> USE ThreadStep
<1>1. ResultInv'
  BY DEF EndingInv, ResultInv, mainVars
<1>2. FailedInv'
  <2> SUFFICES ASSUME NEW s \in Rows
               PROVE  /\ thread_pc'[s] = "error" =>
                           /\ main_pc' = "waitPlaced" /\ main_semaphore' = 0
                           /\ \A t \in Rows : ~Visiting(t)'
                      /\ thread_pc'[s] = "terminated" => main_pc' = "exited"
    BY DEF FailedInv
  <2>1. thread_pc[s] # "error"
    BY DEF EndingInv, FailedInv
  <2>2. CASE s # r
    BY <2>1, <2>2 DEF EndingInv, FailedInv, mainVars
  <2>3. CASE s = r /\ thread_pc'[r] = "error"
    <3>1. thread_pc[r] = "place" /\ UNCHANGED <<main_pc, main_semaphore, thread_semaphore>>
      BY <2>3 DEF syncVars, mainVars
    <3>2. main_pc = "waitPlaced" /\ main_semaphore = 0
      BY <3>1 DEF SyncInv, HandOver, InFirstVisit
    <3>3. ASSUME NEW t \in Rows PROVE ~Visiting(t)'
      <4>1. CASE t = r
        BY <2>3, <4>1 DEF Visiting, InFirstVisit, InSecondVisit
      <4>2. CASE t # r
        <5>1. ~Visiting(t)
          BY <4>2 DEF SyncInv, HandOver
        <5>2. thread_pc'[t] = thread_pc[t]
          BY <4>2
        <5>3. QED BY <5>1, <5>2, <3>1 DEF Visiting, InFirstVisit, InSecondVisit
      <4>3. QED BY <4>1, <4>2
    <3>4. QED BY <2>3, <3>1, <3>2, <3>3
  <2>4. QED BY <2>2, <2>3
<1>3. JoinedInv'
  BY DEF EndingInv, JoinedInv, mainVars
<1>4. ReasonInv'
  <2>1. faults \in Int /\ faults' \in Int
    BY SimAssumption DEF SimAssumption, SyncInv, SyncTypeOK
  <2>2. QED BY <2>1 DEF EndingInv, ReasonInv, ErrorReason, mainVars
<1>5. QED BY <1>1, <1>2, <1>3, <1>4 DEF EndingInv

(* Main goes on only when no thread has failed; it leaves the threads      *)
(* alone until it cleans up.                                               *)
LEMMA MainKeepsFailed ==
  ASSUME SyncInv, EndingInv, Main
  PROVE  FailedInv'
<1>1. ASSUME NEW r \in Rows PROVE thread_pc[r] # "error"
  <2> SUFFICES ASSUME thread_pc[r] = "error" PROVE FALSE
    OBVIOUS
  <2>1. main_pc = "waitPlaced" /\ main_semaphore = 0
    BY DEF EndingInv, FailedInv
  <2>2. QED
    BY <2>1 DEF Main, MainGoto, LoopEnds, OrderError, NoRowNow, SpawnRow, MoveToNextRow,
       LockTables, ScanFrame, ScanDone, ReleaseHead, ThreadReleased, RelockTables, Tick,
       JoinThreads, FindLastEndTime, PrintRemains, Cleanup
<1>2. main_pc' # "exited" => main_pc # "exited" /\ \A r \in Rows : thread_pc'[r] \in {thread_pc[r], "enter"}
  <2>1. thread_pc \in [Rows -> ThreadPC]
    BY DEF SyncInv, SyncTypeOK
  <2>2. CASE SpawnRow
    BY <2>1, <2>2 DEF SpawnRow
  <2>3. CASE Cleanup
    BY <2>3 DEF Cleanup, MainGoto
  <2>4. QED
    BY <2>2, <2>3 DEF Main, MainGoto, LoopEnds, OrderError, NoRowNow, MoveToNextRow,
       LockTables, ScanFrame, ScanDone, ReleaseHead, ThreadReleased, RelockTables, Tick,
       JoinThreads, FindLastEndTime, PrintRemains, threadVars
<1>3. CASE main_pc' = "exited"
  <2>1. Cleanup
    BY <1>3 DEF Main, MainGoto, MainError, LoopEnds, OrderError, NoRowNow, SpawnRow, MoveToNextRow,
       LockTables, ScanFrame, ScanDone, ReleaseHead, ThreadReleased, RelockTables, Tick,
       JoinThreads, FindLastEndTime, PrintRemains, Cleanup
  <2>2. \A r \in Rows : thread_pc'[r] \in {thread_pc[r], "terminated"}
    BY <2>1 DEF Cleanup
  <2>3. QED BY <1>1, <1>3, <2>2 DEF FailedInv
<1>4. CASE main_pc' # "exited"
  BY <1>1, <1>2, <1>4 DEF EndingInv, FailedInv
<1>5. QED BY <1>3, <1>4

LEMMA MainKeepsResult ==
  ASSUME SyncInv, EndingInv, Main
  PROVE  ResultInv'
<1>1. result = "running" <=> main_pc \notin {"cleanup", "exited"}
  BY DEF EndingInv, ResultInv
<1>2. CASE LoopEnds \/ OrderError \/ NoRowNow \/ SpawnRow \/ MoveToNextRow
  BY <1>1, <1>2 DEF ResultInv, LoopEnds, OrderError, NoRowNow, SpawnRow, MoveToNextRow,
     MainGoto, MainError
<1>3. CASE LockTables \/ ScanFrame \/ ScanDone \/ ReleaseHead \/ ThreadReleased
  BY <1>1, <1>3 DEF ResultInv, LockTables, ScanFrame, ScanDone, ReleaseHead, ThreadReleased,
     MainGoto, MainError
<1>4. CASE RelockTables \/ Tick \/ JoinThreads \/ FindLastEndTime \/ PrintRemains \/ Cleanup
  BY <1>1, <1>4 DEF ResultInv, RelockTables, Tick, JoinThreads, FindLastEndTime, PrintRemains,
     Cleanup, MainGoto, MainError
<1>5. QED BY <1>2, <1>3, <1>4 DEF Main

LEMMA MainKeepsJoined ==
  ASSUME SyncInv, EndingInv, Main
  PROVE  JoinedInv'
<1>0. result = "running" <=> main_pc \notin {"cleanup", "exited"}
  BY DEF EndingInv, ResultInv
<1>1. CASE JoinThreads
  <2>1. ASSUME NEW r \in Rows, Ended(r) PROVE thread_pc[r] = "success"
    BY <1>1, <2>1 DEF Ended, JoinThreads, EndingInv, FailedInv
  <2>2. QED BY <1>0, <1>1, <2>1 DEF JoinThreads, JoinedInv, MainError, threadVars
<1>2. CASE FindLastEndTime \/ PrintRemains
  BY <1>0, <1>2 DEF FindLastEndTime, PrintRemains, EndingInv, JoinedInv, threadVars
<1>3. CASE Cleanup
  BY <1>0, <1>3 DEF Cleanup, MainGoto, EndingInv, JoinedInv, Ended
<1>4. CASE LoopEnds \/ OrderError \/ NoRowNow \/ SpawnRow \/ MoveToNextRow
  BY <1>0, <1>4 DEF JoinedInv, LoopEnds, OrderError, NoRowNow, SpawnRow, MoveToNextRow,
     MainGoto, MainError
<1>5. CASE LockTables \/ ScanFrame \/ ScanDone \/ ReleaseHead \/ ThreadReleased \/ RelockTables \/ Tick
  BY <1>0, <1>5 DEF JoinedInv, LockTables, ScanFrame, ScanDone, ReleaseHead, ThreadReleased,
     RelockTables, Tick, MainGoto, MainError
<1>6. QED BY <1>1, <1>2, <1>3, <1>4, <1>5 DEF Main

LEMMA MainKeepsReason ==
  ASSUME SyncInv, EndingInv, Main
  PROVE  ReasonInv'
<1>0. result = "running" <=> main_pc \notin {"cleanup", "exited"}
  BY DEF EndingInv, ResultInv
<1>1. faults \in Int /\ faults >= 0 /\ current_row_ind \in 0 .. NumRows /\ NumRows \in Int
  BY SimAssumption DEF SimAssumption, SyncInv, SyncTypeOK
<1> USE <1>0, <1>1 DEF ReasonInv, ErrorReason, MainError, MainGoto
<1>2. CASE OrderError
  BY <1>2 DEF OrderError, OutOfOrder
<1>3. CASE SpawnRow
  BY <1>3 DEF SpawnRow, CallFails
<1>4. CASE MoveToNextRow
  <2>1. current_row_ind < NumRows
    BY <1>4 DEF MoveToNextRow, SyncInv, RowInv
  <2>2. QED BY <1>4, <2>1 DEF MoveToNextRow
<1>5. CASE ScanFrame \/ PrintRemains
  <2>1. CallFails => faults' > 0
    BY DEF CallFails
  <2>2. CallWorks \/ CallFails
    BY <1>5 DEF ScanFrame, PrintRemains
  <2>3. CallFails \/ result' # "ERROR_CODE"
    BY <1>0, <1>5 DEF ScanFrame, PrintRemains
  <2>4. QED BY <2>1, <2>3
<1>10. CASE JoinThreads
  BY <1>10 DEF JoinThreads, CallFails, CallWorks
<1>6. CASE Cleanup
  BY <1>6 DEF Cleanup, EndingInv
<1>7. CASE LoopEnds \/ NoRowNow \/ LockTables \/ ScanDone \/ ReleaseHead
  BY <1>7 DEF LoopEnds, NoRowNow, LockTables, ScanDone, ReleaseHead
<1>8. CASE ThreadReleased \/ RelockTables \/ Tick \/ FindLastEndTime
  BY <1>8 DEF ThreadReleased, RelockTables, Tick, FindLastEndTime
<1>9. QED BY <1>2, <1>3, <1>4, <1>5, <1>6, <1>7, <1>8, <1>10 DEF Main

LEMMA NextEnding == SyncInv /\ EndingInv /\ [Next]_vars => EndingInv'
<1> SUFFICES ASSUME SyncInv, EndingInv, [Next]_vars PROVE EndingInv'
  OBVIOUS
<1>1. ASSUME Main PROVE EndingInv'
  BY <1>1, MainKeepsFailed, MainKeepsResult, MainKeepsJoined, MainKeepsReason DEF EndingInv
<1>2. ASSUME NEW r \in Rows, Thread(r) PROVE EndingInv'
  BY <1>2, ThreadKeepsEnding, NextSync DEF Next
<1>3. ASSUME UNCHANGED vars PROVE EndingInv'
  BY <1>3 DEF vars, mainVars, threadVars, syncVars, EndingInv, ResultInv, FailedInv, JoinedInv,
     ReasonInv, ErrorReason, Visiting, InFirstVisit, InSecondVisit
<1>4. QED BY <1>1, <1>2, <1>3 DEF Next, Exited

THEOREM EndingInvariant == Spec => []EndingInv
<1>1. Init => EndingInv
  BY DEF Init, EndingInv, ResultInv, FailedInv, JoinedInv, ReasonInv
<1>2. QED BY <1>1, NextEnding, SyncInvariant, PTL DEF Spec

(* When main cleans up, the threads that have not ended are asleep.        *)
THEOREM TerminatesOnlySleepersHolds == Spec => []TerminatesOnlySleepers
<1>1. SyncInv /\ EndingInv => TerminatesOnlySleepers
  <2> SUFFICES ASSUME SyncInv, EndingInv, main_pc = "cleanup", NEW r \in Rows
               PROVE  thread_pc[r] \in {"none", "waitTurn", "success"}
    BY DEF TerminatesOnlySleepers
  <2>1. thread_pc[r] \in ThreadPC /\ thread_pc[r] \notin {"error", "terminated"}
    BY DEF SyncInv, SyncTypeOK, EndingInv, FailedInv
  <2>2. ~InFirstVisit(r) /\ ~InSecondVisit(r)
    BY DEF SyncInv, HandOver, InSecondVisit
  <2>3. QED BY <2>1, <2>2 DEF ThreadPC, InFirstVisit, InSecondVisit
<1>2. QED BY <1>1, SyncInvariant, EndingInvariant, PTL


-----------------------------------------------------------------------------
(* The removal of a cell from a linked list: RemoveFirst.                  *)

(* A set of naturals that is not empty has a minimum.                      *)
LEMMA MinInSet ==
  ASSUME NEW T, T \subseteq Nat, T # {}
  PROVE  Min(T) \in T /\ \A y \in T : Min(T) =< y
<1> DEFINE R == {ss \in Nat \X Nat : ss[1] < ss[2]}
<1>1. IsWellFoundedOn(R, Nat)
  BY NatLessThanWellFounded DEF OpToRel
<1>2. \A x, y \in Nat : <<y, x>> \in R <=> y < x
  OBVIOUS
<1> HIDE DEF R
<1>3. PICK x \in T : \A y \in T : ~(<<y, x>> \in R)
  BY <1>1, WFMin
<1>4. ASSUME NEW y \in T PROVE x =< y
  <2>1. ~(<<y, x>> \in R) /\ x \in Nat /\ y \in Nat
    BY <1>3
  <2>2. ~(y < x)
    BY <1>2, <2>1
  <2>3. QED BY <2>1, <2>2
<1>5. QED BY <1>3, <1>4 DEF Min

(* SelectInSeq finds a position of an element that is there.               *)
LEMMA SelectInSeqProperties ==
  ASSUME NEW S, NEW s \in Seq(S), NEW e, Contains(s, e)
  PROVE  /\ SelectInSeq(s, LAMBDA v : v = e) \in 1 .. Len(s)
         /\ s[SelectInSeq(s, LAMBDA v : v = e)] = e
<1> DEFINE I == {i \in 1 .. Len(s) : s[i] = e}
<1>1. I \subseteq Nat /\ I # {}
  BY DEF Contains
<1>2. Min(I) \in I
  <2> HIDE DEF I
  <2> QED BY <1>1, MinInSet
<1>3. SelectInSeq(s, LAMBDA v : v = e) = Min(I)
  BY <1>1 DEF SelectInSeq
<1>4. QED BY <1>2, <1>3

(* RemoveAt closes the gap.                                                *)
LEMMA RemoveAtProperties ==
  ASSUME NEW S, NEW s \in Seq(S), NEW k \in 1 .. Len(s)
  PROVE  /\ RemoveAt(s, k) \in Seq(S)
         /\ Len(RemoveAt(s, k)) = Len(s) - 1
         /\ \A i \in 1 .. Len(s) - 1 :
              RemoveAt(s, k)[i] = IF i < k THEN s[i] ELSE s[i + 1]
<1> DEFINE u == SubSeq(s, 1, k - 1)  v == SubSeq(s, k + 1, Len(s))
<1>1. /\ u \in Seq(S)
      /\ Len(u) = k - 1
      /\ \A i \in 1 .. k - 1 : u[i] = s[i]
  OBVIOUS
<1>2. /\ v \in Seq(S)
      /\ Len(v) = Len(s) - k
      /\ \A i \in 1 .. Len(s) - k : v[i] = s[k + i]
  <2>1. \A i \in k+1 .. Len(s) : s[i] \in S
    OBVIOUS
  <2>2. QED BY <2>1, SubSeqProperties
<1>4. RemoveAt(s, k) = u \o v
  BY DEF RemoveAt
<1> HIDE DEF u, v
<1>5. Len(s) \in Nat /\ Len(u) + Len(v) = Len(s) - 1
  <2>1. Len(s) \in Nat
    OBVIOUS
  <2>2. QED BY <1>1, <1>2, <2>1
<1>6. /\ u \o v \in Seq(S)
      /\ Len(u \o v) = Len(u) + Len(v)
      /\ \A i \in 1 .. Len(u) + Len(v) : (u \o v)[i] = IF i =< Len(u) THEN u[i] ELSE v[i - Len(u)]
  BY <1>1, <1>2, ConcatProperties
<1>7. ASSUME NEW i \in 1 .. Len(s) - 1
      PROVE  (u \o v)[i] = IF i < k THEN s[i] ELSE s[i + 1]
  <2>1. CASE i < k
    BY <1>1, <1>5, <1>6, <2>1
  <2>2. CASE i >= k
    <3>1. i - (k - 1) \in 1 .. Len(s) - k /\ k + (i - (k - 1)) = i + 1
      BY <1>5, <2>2
    <3>2. i \in 1 .. Len(u) + Len(v) /\ ~(i =< Len(u)) /\ Len(u) = k - 1
      BY <1>1, <1>5, <2>2
    <3>3. (u \o v)[i] = v[i - (k - 1)]
      BY <1>6, <3>2
    <3>4. v[i - (k - 1)] = s[i + 1]
      BY <1>2, <3>1
    <3>5. ~(i < k)
      BY <2>2
    <3>6. QED BY <3>3, <3>4, <3>5
  <2>3. QED BY <1>5, <2>1, <2>2
<1>8. QED BY <1>4, <1>5, <1>6, <1>7

(* RemoveFirst removes one occurrence, if there is one.                    *)
LEMMA RemoveFirstProperties ==
  ASSUME NEW S, NEW s \in Seq(S), NEW e
  PROVE  /\ RemoveFirst(s, e) \in Seq(S)
         /\ ~Contains(s, e) => RemoveFirst(s, e) = s
         /\ Contains(s, e) => Len(RemoveFirst(s, e)) = Len(s) - 1
         /\ Contains(s, e) =>
              \E k \in 1 .. Len(s) :
                /\ s[k] = e
                /\ \A i \in 1 .. Len(s) - 1 :
                     RemoveFirst(s, e)[i] = IF i < k THEN s[i] ELSE s[i + 1]
<1>1. CASE ~Contains(s, e)
  BY <1>1 DEF RemoveFirst, Contains
<1>2. CASE Contains(s, e)
  <2> DEFINE k == SelectInSeq(s, LAMBDA v : v = e)
  <2>1. k \in 1 .. Len(s) /\ s[k] = e
    BY <1>2, SelectInSeqProperties
  <2>2. RemoveFirst(s, e) = RemoveAt(s, k)
    BY <1>2 DEF RemoveFirst, Contains
  <2> HIDE DEF k
  <2>3. QED BY <1>2, <2>1, <2>2, RemoveAtProperties
<1>3. QED BY <1>1, <1>2

(* It adds nothing, loses no other element, and leaves nothing of one that *)
(* occurs once.                                                            *)
LEMMA RemoveFirstElements ==
  ASSUME NEW S, NEW s \in Seq(S), NEW e
  PROVE  /\ \A i \in 1 .. Len(RemoveFirst(s, e)) :
              \E j \in 1 .. Len(s) : s[j] = RemoveFirst(s, e)[i]
         /\ \A j \in 1 .. Len(s) : s[j] # e =>
              \E i \in 1 .. Len(RemoveFirst(s, e)) : RemoveFirst(s, e)[i] = s[j]
         /\ (\A i, j \in 1 .. Len(s) : s[i] = s[j] => i = j) =>
              /\ ~Contains(RemoveFirst(s, e), e)
              /\ \A i, j \in 1 .. Len(RemoveFirst(s, e)) :
                   RemoveFirst(s, e)[i] = RemoveFirst(s, e)[j] => i = j
<1> DEFINE t == RemoveFirst(s, e)
<1>1. CASE ~Contains(s, e)
  <2>1. t = s
    BY <1>1, RemoveFirstProperties
  <2>2. QED BY <1>1, <2>1
<1>2. CASE Contains(s, e)
  <2>1. Len(t) = Len(s) - 1
    BY <1>2, RemoveFirstProperties
  <2>2. PICK k \in 1 .. Len(s) : /\ s[k] = e
                                 /\ \A i \in 1 .. Len(s) - 1 : t[i] = IF i < k THEN s[i] ELSE s[i + 1]
    BY <1>2, RemoveFirstProperties
  <2> HIDE DEF t
  <2>3. ASSUME NEW i \in 1 .. Len(t) PROVE \E j \in 1 .. Len(s) : j # k /\ s[j] = t[i] /\ j = IF i < k THEN i ELSE i + 1
    BY <2>1, <2>2
  <2>4. ASSUME NEW j \in 1 .. Len(s), s[j] # e PROVE \E i \in 1 .. Len(t) : t[i] = s[j]
    <3>1. CASE j < k
      BY <2>1, <2>2, <3>1
    <3>2. CASE j > k
      <4>1. j - 1 \in 1 .. Len(t) /\ t[j - 1] = s[j]
        BY <2>1, <2>2, <3>2
      <4>2. QED BY <4>1
    <3>3. QED BY <2>2, <2>4, <3>1, <3>2
  <2>5. ASSUME \A i, j \in 1 .. Len(s) : s[i] = s[j] => i = j
        PROVE  /\ ~Contains(t, e)
               /\ \A i, j \in 1 .. Len(t) : t[i] = t[j] => i = j
    BY <2>1, <2>2, <2>3, <2>5 DEF Contains
  <2>6. QED BY <2>3, <2>4, <2>5 DEF t
<1>3. QED BY <1>1, <1>2

-----------------------------------------------------------------------------
(* The tables.                                                             *)

(* g_avilable_frame is the length of the queue it is kept beside.          *)
AvailableCountsQueue == available_frame = Len(frame_queue)

LocalsTypeOK == last_end_time \in Int /\ thread_input \in [Rows -> Input]

(* Time is never negative, although a row may turn it back: a row that     *)
(* starts before 0 is out of order.                                        *)
TimeInv ==
  /\ g_current_time >= 0
  /\ main_pc = "loop" /\ g_current_time = 0 => next_row.start_time >= 0

(* The request of a thread that was created.                               *)
RequestInv ==
  \A r \in Rows : thread_pc[r] # "none" => Page(r) \in Pages /\ CallTime(r) >= 0

(* A thread that was woken finds a frame counted for it.                   *)
VictimInv ==
  \A r \in Rows : \/ thread_pc[r] \in {"reenter", "evict"}
                  \/ thread_pc[r] = "waitTurn" /\ thread_semaphore[r] > 0
                  => available_frame > 0

EndTimesInv == \A f \in Frames : frame_table[f].end_time >= Unused

PageToFrame ==
  \A p \in Pages : page_table[p].valid =>
    /\ page_table[p].frame_number \in Frames
    /\ page_table[p].end_of_use >= 0
    /\ frame_table[page_table[p].frame_number].page_number = p
    /\ frame_table[page_table[p].frame_number].end_time = page_table[p].end_of_use

FrameToPage ==
  \A f \in Frames : frame_table[f].end_time # Unused =>
    /\ frame_table[f].page_number \in Pages
    /\ page_table[frame_table[f].page_number].valid
    /\ page_table[frame_table[f].page_number].frame_number = f

QueuedUsed ==
  \A i \in 1 .. Len(frame_queue) : frame_table[frame_queue[i]].end_time # Unused

(* What is said of the tables alone.                                       *)
TableParts ==
  /\ TablesTypeOK /\ AvailableCountsQueue
  /\ EndTimesInv /\ PageToFrame /\ FrameToPage /\ QueuedUsed

TablesInv == TableParts /\ LocalsTypeOK /\ TimeInv /\ RequestInv /\ VictimInv

-----------------------------------------------------------------------------
(* The three ways a page gets its frame keep the tables in order.          *)
LEMMA UpdateFrame ==
  ASSUME TableParts, NEW p \in Pages, page_table[p].valid,
         NEW placement \in Int, NEW work \in Nat, NEW now \in Int,
         placement >= 0,
         update_frame_in_table(p, placement, work, now)
  PROVE  TableParts'
<1> DEFINE f == page_table[p].frame_number
           end == new_end_of_use(p, placement, work, now)
<1> USE DEF TableParts
<1>1. f \in Frames /\ frame_table[f].end_time = page_table[p].end_of_use
      /\ frame_table[f].page_number = p /\ page_table[p].end_of_use >= 0
  BY DEF PageToFrame
<1>2. page_table[p].end_of_use \in Int
  BY DEF TablesTypeOK, PageEntry
<1>3. end \in Int /\ end >= 0
  BY <1>1, <1>2 DEF new_end_of_use, max
<1>4. /\ page_table' = [page_table EXCEPT ![p].end_of_use = end]
      /\ frame_table' = [frame_table EXCEPT ![f].end_time = end]
      /\ remove_frame_from_queue(f)
      /\ output' = output
  BY DEF update_frame_in_table
<1> HIDE DEF f, end
<1>5. \A q \in Pages : /\ page_table'[q].valid = page_table[q].valid
                       /\ page_table'[q].frame_number = page_table[q].frame_number
                       /\ page_table'[q].end_of_use = IF q = p THEN end ELSE page_table[q].end_of_use
  BY <1>4 DEF TablesTypeOK, PageEntry
<1>6. \A g \in Frames : /\ frame_table'[g].page_number = frame_table[g].page_number
                        /\ frame_table'[g].end_time = IF g = f THEN end ELSE frame_table[g].end_time
  BY <1>4 DEF TablesTypeOK, FrameEntry
<1>7. page_table' \in [Pages -> PageEntry]
  BY <1>3, <1>4 DEF TablesTypeOK, PageEntry
<1>8. frame_table' \in [Frames -> FrameEntry]
  BY <1>3, <1>4 DEF TablesTypeOK, FrameEntry
<1>9. frame_queue \in Seq(Frames) /\ available_frame = Len(frame_queue)
  BY DEF TablesTypeOK, AvailableCountsQueue
<1>10. /\ frame_queue' \in Seq(Frames)
       /\ available_frame' = Len(frame_queue')
       /\ \A i \in 1 .. Len(frame_queue') : \E j \in 1 .. Len(frame_queue) : frame_queue[j] = frame_queue'[i]
  BY <1>4, <1>9, RemoveFirstProperties, RemoveFirstElements DEF remove_frame_from_queue
<1>11. TablesTypeOK' /\ AvailableCountsQueue'
  BY <1>4, <1>7, <1>8, <1>10 DEF TablesTypeOK, AvailableCountsQueue
<1>12. EndTimesInv'
  BY <1>3, <1>6 DEF EndTimesInv, Unused
<1>13. PageToFrame'
  BY <1>1, <1>3, <1>5, <1>6 DEF PageToFrame, f
<1>14. FrameToPage'
  BY <1>1, <1>3, <1>5, <1>6 DEF FrameToPage, Unused
<1>15. QueuedUsed'
  <2>1. ASSUME NEW g \in Frames, frame_table[g].end_time # Unused PROVE frame_table'[g].end_time # Unused
    BY <1>3, <1>6, <2>1 DEF Unused
  <2>2. \A i \in 1 .. Len(frame_queue) : frame_queue[i] \in Frames
    BY <1>9
  <2>3. QED BY <1>10, <2>1, <2>2 DEF QueuedUsed
<1>16. QED BY <1>11, <1>12, <1>13, <1>14, <1>15

LEMMA UpdateEmpty ==
  ASSUME TableParts, NEW p \in Pages, ~page_table[p].valid,
         NEW placement \in Int, NEW work \in Nat, NEW written \in BOOLEAN,
         placement >= 0,
         update_empty_frame(p, placement, work, written)
  PROVE  TableParts'
<1> DEFINE end == placement + work
<1> USE DEF TableParts
<1>1. PICK f \in Frames :
        /\ FirstEmptyFrame(f)
        /\ frame_table' = [frame_table EXCEPT ![f] = [page_number |-> p, end_time |-> end]]
        /\ page_table' = [page_table EXCEPT ![p] =
                            [frame_number |-> f, valid |-> TRUE, end_of_use |-> end]]
        /\ print_to_output_file(Line(placement, p, f, "P"), written)
        /\ UNCHANGED <<frame_queue, available_frame>>
  BY DEF update_empty_frame
<1>2. frame_table[f].end_time = Unused
  BY <1>1 DEF FirstEmptyFrame, EmptyFrames
<1>3. end \in Int /\ end >= 0
  OBVIOUS
<1> HIDE DEF end
<1>4. Line(placement, p, f, "P") \in LogLine
  BY DEF Line, LogLine
<1>5. output' \in Seq(LogLine)
  <2>1. output \in Seq(LogLine)
    BY DEF TablesTypeOK
  <2>2. output' = output \/ output' = Append(output, Line(placement, p, f, "P"))
    BY <1>1 DEF print_to_output_file
  <2> HIDE DEF Line, LogLine
  <2>3. QED BY <1>4, <2>1, <2>2
<1>6. page_table' \in [Pages -> PageEntry]
  BY <1>1, <1>3 DEF TablesTypeOK, PageEntry
<1>7. frame_table' \in [Frames -> FrameEntry]
  BY <1>1, <1>3 DEF TablesTypeOK, FrameEntry
<1>8. \A q \in Pages : page_table'[q] = IF q = p THEN [frame_number |-> f, valid |-> TRUE, end_of_use |-> end] ELSE page_table[q]
  BY <1>1 DEF TablesTypeOK
<1>9. \A g \in Frames : frame_table'[g] = IF g = f THEN [page_number |-> p, end_time |-> end] ELSE frame_table[g]
  BY <1>1 DEF TablesTypeOK
<1>10. TablesTypeOK' /\ AvailableCountsQueue'
  BY <1>1, <1>5, <1>6, <1>7 DEF TablesTypeOK, AvailableCountsQueue
<1>11. EndTimesInv'
  BY <1>3, <1>9 DEF EndTimesInv, Unused
<1>12. PageToFrame'
  BY <1>2, <1>3, <1>8, <1>9 DEF PageToFrame, Unused
<1>13. FrameToPage'
  BY <1>3, <1>8, <1>9 DEF FrameToPage
<1>14. QueuedUsed'
  <2>1. \A i \in 1 .. Len(frame_queue) : frame_queue[i] \in Frames
    BY DEF TablesTypeOK
  <2>2. QED BY <1>1, <1>3, <1>9, <2>1 DEF QueuedUsed, Unused
<1>15. QED BY <1>10, <1>11, <1>12, <1>13, <1>14

LEMMA Evict ==
  ASSUME TableParts, NEW p \in Pages, ~page_table[p].valid,
         NEW placement \in Int, NEW work \in Nat,
         NEW ew \in BOOLEAN, NEW pw \in BOOLEAN,
         placement >= 0, available_frame > 0,
         evicte_and_place(placement, work, p, ew, pw)
  PROVE  TableParts'
<1> USE DEF TableParts
<1> DEFINE f    == Head(frame_queue)
           time == max(frame_table[f].end_time, placement)
           old  == frame_table[f].page_number
           end  == time + work
           kept(line, written) == IF written THEN <<line>> ELSE <<>>
<1>1. frame_queue \in Seq(Frames) /\ frame_queue # <<>> /\ available_frame = Len(frame_queue)
  BY DEF TablesTypeOK, AvailableCountsQueue
<1>2. f \in Frames /\ f = frame_queue[1] /\ 1 \in 1 .. Len(frame_queue)
  BY <1>1
<1>3. /\ frame_table' = [frame_table EXCEPT ![f] = [page_number |-> p, end_time |-> end]]
      /\ page_table' = [page_table EXCEPT
                          ![old].valid = FALSE,
                          ![p] = [frame_number |-> f, valid |-> TRUE, end_of_use |-> end]]
      /\ output' = output \o kept(Line(time, old, f, "E"), ew) \o kept(Line(time, p, f, "P"), pw)
      /\ frame_queue' = Tail(frame_queue)
      /\ available_frame' = available_frame - 1
  BY DEF evicte_and_place
<1>4. frame_table[f].end_time \in Int /\ frame_table[f].end_time # Unused
  BY <1>2 DEF TablesTypeOK, FrameEntry, QueuedUsed
<1>5. /\ old \in Pages /\ page_table[old].valid /\ page_table[old].frame_number = f
      /\ old # p
  BY <1>2, <1>4 DEF FrameToPage
<1>6. time \in Int /\ end \in Int /\ end >= 0
  BY <1>4 DEF max
<1> HIDE DEF f, time, old, end
<1>7. \A q \in Pages : page_table'[q] =
        IF q = p THEN [frame_number |-> f, valid |-> TRUE, end_of_use |-> end]
        ELSE IF q = old THEN [page_table[q] EXCEPT !.valid = FALSE] ELSE page_table[q]
  BY <1>3, <1>5 DEF TablesTypeOK
<1>8. \A g \in Frames : frame_table'[g] =
        IF g = f THEN [page_number |-> p, end_time |-> end] ELSE frame_table[g]
  BY <1>3 DEF TablesTypeOK
<1>9. page_table' \in [Pages -> PageEntry]
  BY <1>2, <1>3, <1>6 DEF TablesTypeOK, PageEntry
<1>10. frame_table' \in [Frames -> FrameEntry]
  BY <1>3, <1>6 DEF TablesTypeOK, FrameEntry
<1>11. output' \in Seq(LogLine)
  <2>1. Line(time, old, f, "E") \in LogLine /\ Line(time, p, f, "P") \in LogLine
    BY <1>2, <1>5, <1>6 DEF Line, LogLine
  <2>2. kept(Line(time, old, f, "E"), ew) \in Seq(LogLine) /\ kept(Line(time, p, f, "P"), pw) \in Seq(LogLine)
    BY <2>1
  <2>3. output \in Seq(LogLine)
    BY DEF TablesTypeOK
  <2> HIDE DEF kept
  <2>4. QED BY <1>3, <2>2, <2>3
<1>12. /\ frame_queue' \in Seq(Frames) /\ Len(frame_queue') = Len(frame_queue) - 1
       /\ \A i \in 1 .. Len(frame_queue') : /\ i + 1 \in 1 .. Len(frame_queue)
                                            /\ frame_queue'[i] = frame_queue[i + 1]
  BY <1>1, <1>3
<1>13. TablesTypeOK' /\ AvailableCountsQueue'
  <2>1. available_frame' = available_frame - 1 /\ available_frame \in Int
    BY <1>3 DEF TablesTypeOK
  <2>2. available_frame' = Len(frame_queue') /\ available_frame' \in Int
    BY <1>1, <1>12, <2>1
  <2>3. QED BY <1>9, <1>10, <1>11, <1>12, <2>2 DEF TablesTypeOK, AvailableCountsQueue
<1>14. EndTimesInv'
  BY <1>6, <1>8 DEF EndTimesInv, Unused
<1>15. PageToFrame'
  <2> SUFFICES ASSUME NEW q \in Pages, page_table'[q].valid
      PROVE  /\ page_table'[q].frame_number \in Frames
             /\ page_table'[q].end_of_use >= 0
             /\ frame_table'[page_table'[q].frame_number].page_number = q
             /\ frame_table'[page_table'[q].frame_number].end_time = page_table'[q].end_of_use
    BY DEF PageToFrame
  <2>1. CASE q = p
    <3>1. page_table'[q] = [frame_number |-> f, valid |-> TRUE, end_of_use |-> end]
      BY <1>7, <2>1
    <3>2. frame_table'[f] = [page_number |-> q, end_time |-> end]
      BY <1>2, <1>8, <2>1
    <3>3. QED BY <1>2, <1>6, <3>1, <3>2
  <2>2. CASE q = old /\ q # p
    BY <1>7, <2>2 DEF TablesTypeOK, PageEntry
  <2>3. CASE q # p /\ q # old
    <3>1. page_table'[q] = page_table[q] /\ page_table[q].valid
      BY <1>7, <2>3
    <3>2. page_table[q].frame_number # f
      BY <2>3, <3>1 DEF PageToFrame, old
    <3>3. QED BY <1>8, <3>1, <3>2 DEF PageToFrame
  <2>4. QED BY <2>1, <2>2, <2>3
<1>16. FrameToPage'
  <2> SUFFICES ASSUME NEW g \in Frames, frame_table'[g].end_time # Unused
      PROVE  /\ frame_table'[g].page_number \in Pages
             /\ page_table'[frame_table'[g].page_number].valid
             /\ page_table'[frame_table'[g].page_number].frame_number = g
    BY DEF FrameToPage
  <2>1. CASE g = f
    <3>1. frame_table'[g] = [page_number |-> p, end_time |-> end]
      BY <1>8, <2>1
    <3>2. page_table'[p] = [frame_number |-> g, valid |-> TRUE, end_of_use |-> end]
      BY <1>7, <2>1
    <3>3. QED BY <3>1, <3>2
  <2>2. CASE g # f
    <3>1. frame_table'[g] = frame_table[g]
      BY <1>8, <2>2
    <3>2. /\ frame_table[g].page_number \in Pages
          /\ page_table[frame_table[g].page_number].valid
          /\ page_table[frame_table[g].page_number].frame_number = g
      BY <3>1 DEF FrameToPage
    <3>3. frame_table[g].page_number # p /\ frame_table[g].page_number # old
      BY <1>5, <2>2, <3>2
    <3>4. page_table'[frame_table[g].page_number] = page_table[frame_table[g].page_number]
      BY <1>7, <3>2, <3>3
    <3>5. QED BY <3>1, <3>2, <3>4
  <2>3. QED BY <2>1, <2>2
<1>17. QueuedUsed'
  <2> SUFFICES ASSUME NEW i \in 1 .. Len(frame_queue') PROVE frame_table'[frame_queue'[i]].end_time # Unused
    BY DEF QueuedUsed
  <2>1. i + 1 \in 1 .. Len(frame_queue) /\ frame_queue'[i] = frame_queue[i + 1]
    BY <1>12
  <2>2. frame_queue[i + 1] \in Frames /\ frame_table[frame_queue[i + 1]].end_time # Unused
    BY <1>1, <2>1 DEF QueuedUsed
  <2>3. QED BY <1>6, <1>8, <2>1, <2>2 DEF Unused
<1>18. QED BY <1>13, <1>14, <1>15, <1>16, <1>17

LEMMA SpawnRowLocals ==
  ASSUME SyncInv, TablesInv, SpawnRow
  PROVE  LocalsTypeOK'
<1>1. loop_time \in Int
  BY DEF SyncInv, SyncTypeOK, loop_time
<1>2. next_row.page \in Pages /\ next_row.work_time \in Nat
  BY DEF SyncInv, SyncTypeOK, Row
<1>3. [call_time |-> loop_time, virtual_page_num |-> next_row.page,
       work_time |-> next_row.work_time] \in Input
  BY <1>1, <1>2 DEF Input
<1>4. thread_input' \in [Rows -> Input]
  BY <1>3 DEF SpawnRow, TablesInv, LocalsTypeOK
<1>5. QED
  BY <1>4 DEF SpawnRow, TablesInv, LocalsTypeOK

LEMMA FindLastEndTimeLocals ==
  ASSUME SyncInv, TablesInv, FindLastEndTime
  PROVE  LocalsTypeOK'
<1>1. \A f \in Frames : frame_table[f].end_time \in Int
  BY DEF TablesInv, TableParts, TablesTypeOK, FrameEntry
<1>2. frame_ind < NumFrames => frame_ind \in Frames
  BY TablesAssumption DEF SyncInv, SyncTypeOK, Frames, TablesAssumption
<1>3. last_end_time' \in Int
  BY <1>1, <1>2 DEF FindLastEndTime, TablesInv, LocalsTypeOK, max
<1>4. QED
  BY <1>3 DEF FindLastEndTime, TablesInv, LocalsTypeOK, threadVars

LEMMA PrintRemainsTables ==
  ASSUME SyncInv, TablesInv, PrintRemains
  PROVE  TableParts'
<1> DEFINE line == Line(last_end_time, frame_table[frame_ind].page_number, frame_ind, "E")
<1>1. output' = output \/ (frame_ind < NumFrames /\ output' = Append(output, line))
  BY DEF PrintRemains, print_to_output_file
<1>2. ASSUME frame_ind < NumFrames PROVE line \in LogLine
  <2>1. frame_ind \in Frames
    BY <1>2, TablesAssumption DEF SyncInv, SyncTypeOK, Frames, TablesAssumption
  <2>2. frame_table[frame_ind].page_number \in Pages \cup {NoPage}
    BY <2>1 DEF TablesInv, TableParts, TablesTypeOK, FrameEntry
  <2>3. QED BY <2>1, <2>2 DEF Line, LogLine, TablesInv, LocalsTypeOK
<1> HIDE DEF line
<1>3. output' \in Seq(LogLine)
  <2>1. output \in Seq(LogLine)
    BY DEF TablesInv, TableParts, TablesTypeOK
  <2>2. CASE frame_ind < NumFrames /\ output' = Append(output, line)
    BY <1>2, <2>1, <2>2
  <2>3. QED BY <1>1, <2>1, <2>2
<1>4. QED
  BY <1>3 DEF PrintRemains, TablesInv, TableParts, TablesTypeOK, AvailableCountsQueue,
              EndTimesInv, PageToFrame, FrameToPage, QueuedUsed

(* A frame whose use ends now was used: the time is not negative.          *)
LEMMA ScanFrameTables ==
  ASSUME SyncInv, TablesInv, ScanFrame
  PROVE  TableParts'
<1> USE DEF TablesInv, TableParts
<1>1. frame_ind \in Frames
  BY TablesAssumption DEF ScanFrame, SyncInv, SyncTypeOK, Frames, TablesAssumption
<1>2. UNCHANGED <<page_table, frame_table, output>>
  BY DEF ScanFrame
<1>3. CASE UNCHANGED <<frame_queue, available_frame>>
  BY <1>2, <1>3 DEF TablesTypeOK, AvailableCountsQueue, EndTimesInv, PageToFrame,
                    FrameToPage, QueuedUsed
<1>4. CASE add_to_frame_queue(frame_ind) /\ frame_table[frame_ind].end_time = g_current_time
  <2>1. frame_queue' = Append(frame_queue, frame_ind) /\ available_frame' = available_frame + 1
    BY <1>4 DEF add_to_frame_queue
  <2>2. frame_queue \in Seq(Frames) /\ available_frame = Len(frame_queue)
    BY DEF TablesTypeOK, AvailableCountsQueue
  <2>3. /\ frame_queue' \in Seq(Frames) /\ Len(frame_queue') = Len(frame_queue) + 1
        /\ \A i \in 1 .. Len(frame_queue) : frame_queue'[i] = frame_queue[i]
        /\ frame_queue'[Len(frame_queue) + 1] = frame_ind
    BY <1>1, <2>1, <2>2
  <2>4. TablesTypeOK' /\ AvailableCountsQueue'
    BY <1>2, <2>1, <2>2, <2>3 DEF TablesTypeOK, AvailableCountsQueue
  <2>5. frame_table[frame_ind].end_time # Unused
    BY <1>4 DEF TimeInv, Unused
  <2>6. QueuedUsed'
    <3> SUFFICES ASSUME NEW i \in 1 .. Len(frame_queue')
                 PROVE  frame_table[frame_queue'[i]].end_time # Unused
      BY <1>2 DEF QueuedUsed
    <3>1. i \in 1 .. Len(frame_queue) \/ i = Len(frame_queue) + 1
      BY <2>2, <2>3
    <3>2. QED BY <2>3, <2>5, <3>1 DEF QueuedUsed
  <2>7. QED BY <1>2, <2>4, <2>6 DEF EndTimesInv, PageToFrame, FrameToPage
<1>5. QED BY <1>3, <1>4 DEF ScanFrame

LEMMA ScanFrameVictim ==
  ASSUME SyncInv, TablesInv, ScanFrame
  PROVE  VictimInv'
<1>1. \A r \in Rows : ~InSecondVisit(r)
  BY DEF SyncInv, HandOver, ScanFrame, InSecondVisit
<1>2. UNCHANGED <<thread_pc, thread_semaphore>>
  BY DEF ScanFrame, threadVars, syncVars
<1>3. QED BY <1>1, <1>2 DEF VictimInv, InSecondVisit

(* A visit leaves no other thread that waits for the frame it may take.    *)
LEMMA VisitorVictim ==
  ASSUME SyncInv, TablesInv, NEW r \in Rows, Visiting(r),
         NEW pc \in {"unlock", "resignal", "error"},
         thread_pc' = [thread_pc EXCEPT ![r] = pc],
         UNCHANGED thread_semaphore
  PROVE  VictimInv'
<1>1. \A s \in Rows : s # r => ~InSecondVisit(s) /\ thread_pc'[s] = thread_pc[s]
  BY DEF SyncInv, SyncTypeOK, HandOver, Visiting
<1>2. thread_pc'[r] = pc
  BY DEF SyncInv, SyncTypeOK
<1>3. QED BY <1>1, <1>2 DEF VictimInv, InSecondVisit

LEMMA RequestTypes ==
  ASSUME TablesInv, NEW r \in Rows, thread_pc[r] # "none"
  PROVE  /\ Page(r) \in Pages /\ CallTime(r) \in Int /\ CallTime(r) >= 0
         /\ WorkTime(r) \in Nat
BY DEF TablesInv, RequestInv, LocalsTypeOK, Input, CallTime, WorkTime

LEMMA UseResidentPageTables ==
  ASSUME SyncInv, TablesInv, NEW r \in Rows, UseResidentPage(r)
  PROVE  TableParts'
<1>1. thread_pc[r] # "none" /\ page_table[Page(r)].valid
      /\ update_frame_in_table(Page(r), CallTime(r), WorkTime(r), g_current_time)
  BY DEF UseResidentPage, ThreadGoto
<1>2. QED BY <1>1, RequestTypes, UpdateFrame DEF TablesInv, SyncInv, SyncTypeOK

LEMMA UsePageBroughtInTables ==
  ASSUME SyncInv, TablesInv, NEW r \in Rows, UsePageBroughtIn(r)
  PROVE  TableParts'
<1>1. thread_pc[r] # "none" /\ page_table[Page(r)].valid
      /\ update_frame_in_table(Page(r), CallTime(r), WorkTime(r), g_current_time)
  BY DEF UsePageBroughtIn, ThreadGoto
<1>2. QED BY <1>1, RequestTypes, UpdateFrame DEF TablesInv, SyncInv, SyncTypeOK

LEMMA UseEmptyFrameTables ==
  ASSUME SyncInv, TablesInv, NEW r \in Rows, UseEmptyFrame(r)
  PROVE  TableParts'
<1>1. thread_pc[r] # "none" /\ ~page_table[Page(r)].valid
  BY DEF UseEmptyFrame
<1>2. PICK written \in BOOLEAN :
        update_empty_frame(Page(r), CallTime(r), WorkTime(r), written)
  BY DEF UseEmptyFrame
<1>3. QED BY <1>1, <1>2, RequestTypes, UpdateEmpty DEF TablesInv

LEMMA EvictAndPlaceTables ==
  ASSUME SyncInv, TablesInv, NEW r \in Rows, EvictAndPlace(r)
  PROVE  TableParts'
<1>1. thread_pc[r] = "evict" /\ ~page_table[Page(r)].valid
  BY DEF EvictAndPlace, ThreadGoto
<1>2. PICK ew, pw \in BOOLEAN :
        evicte_and_place(CallTime(r), WorkTime(r), Page(r), ew, pw)
  BY DEF EvictAndPlace
<1>3. available_frame > 0
  BY <1>1 DEF TablesInv, VictimInv
<1>4. QED BY <1>1, <1>2, <1>3, RequestTypes, Evict DEF TablesInv

-----------------------------------------------------------------------------
(* Each step keeps the invariant. *)

LEMMA LoopEndsKeepsTables ==
  ASSUME SyncInv, TablesInv, LoopEnds
  PROVE  TablesInv'
<1>1. TableParts'
  BY DEF TablesInv, TableParts, TablesTypeOK, AvailableCountsQueue, EndTimesInv, PageToFrame,
         FrameToPage, QueuedUsed, LoopEnds, tables
<1>2. LocalsTypeOK'
  BY DEF TablesInv, LocalsTypeOK, LoopEnds, threadVars
<1>3. TimeInv'
  BY DEF TablesInv, TimeInv, LoopEnds, MainGoto
<1>4. RequestInv'
  BY DEF TablesInv, RequestInv, Page, CallTime, LoopEnds, threadVars
<1>5. VictimInv'
  BY DEF TablesInv, VictimInv, LoopEnds, tables, syncVars, threadVars
<1>6. QED BY <1>1, <1>2, <1>3, <1>4, <1>5 DEF TablesInv

LEMMA OrderErrorKeepsTables ==
  ASSUME SyncInv, TablesInv, OrderError
  PROVE  TablesInv'
<1>1. TableParts'
  BY DEF TablesInv, TableParts, TablesTypeOK, AvailableCountsQueue, EndTimesInv, PageToFrame,
         FrameToPage, QueuedUsed, OrderError, tables
<1>2. LocalsTypeOK'
  BY DEF TablesInv, LocalsTypeOK, OrderError, threadVars
<1>3. TimeInv'
  BY DEF TablesInv, TimeInv, OrderError
<1>4. RequestInv'
  BY DEF TablesInv, RequestInv, Page, CallTime, OrderError, threadVars
<1>5. VictimInv'
  BY DEF TablesInv, VictimInv, OrderError, tables, syncVars, threadVars
<1>6. QED BY <1>1, <1>2, <1>3, <1>4, <1>5 DEF TablesInv

LEMMA NoRowNowKeepsTables ==
  ASSUME SyncInv, TablesInv, NoRowNow
  PROVE  TablesInv'
<1>1. TableParts'
  BY DEF TablesInv, TableParts, TablesTypeOK, AvailableCountsQueue, EndTimesInv, PageToFrame,
         FrameToPage, QueuedUsed, NoRowNow, tables
<1>2. LocalsTypeOK'
  BY DEF TablesInv, LocalsTypeOK, NoRowNow, threadVars
<1>3. TimeInv'
  BY DEF TablesInv, TimeInv, NoRowNow, MainGoto
<1>4. RequestInv'
  BY DEF TablesInv, RequestInv, Page, CallTime, NoRowNow, threadVars
<1>5. VictimInv'
  BY DEF TablesInv, VictimInv, NoRowNow, tables, syncVars, threadVars
<1>6. QED BY <1>1, <1>2, <1>3, <1>4, <1>5 DEF TablesInv

LEMMA SpawnRowKeepsTables ==
  ASSUME SyncInv, TablesInv, SpawnRow
  PROVE  TablesInv'
<1>1. TableParts'
  BY DEF TablesInv, TableParts, TablesTypeOK, AvailableCountsQueue, EndTimesInv, PageToFrame,
         FrameToPage, QueuedUsed, SpawnRow, tables
<1>2. LocalsTypeOK'
  BY SpawnRowLocals
<1>3. TimeInv'
  BY DEF TablesInv, TimeInv, SyncInv, SyncTypeOK, SpawnRow, loop_time
<1>4. RequestInv'
  BY DEF TablesInv, RequestInv, Page, CallTime, SyncInv, SyncTypeOK, TimeInv, LocalsTypeOK,
         SpawnRow, loop_time, Row
<1>5. VictimInv'
  BY DEF TablesInv, VictimInv, SyncInv, SyncTypeOK, SpawnRow, tables, syncVars
<1>6. QED BY <1>1, <1>2, <1>3, <1>4, <1>5 DEF TablesInv

LEMMA MoveToNextRowKeepsTables ==
  ASSUME SyncInv, TablesInv, MoveToNextRow
  PROVE  TablesInv'
<1>1. TableParts'
  BY DEF TablesInv, TableParts, TablesTypeOK, AvailableCountsQueue, EndTimesInv, PageToFrame,
         FrameToPage, QueuedUsed, MoveToNextRow, tables
<1>2. LocalsTypeOK'
  BY DEF TablesInv, LocalsTypeOK, MoveToNextRow, threadVars
<1>3. TimeInv'
  BY DEF TablesInv, TimeInv, MoveToNextRow, MainError
<1>4. RequestInv'
  BY DEF TablesInv, RequestInv, Page, CallTime, MoveToNextRow, threadVars
<1>5. VictimInv'
  BY DEF TablesInv, VictimInv, MoveToNextRow, tables, threadVars
<1>6. QED BY <1>1, <1>2, <1>3, <1>4, <1>5 DEF TablesInv

LEMMA LockTablesKeepsTables ==
  ASSUME SyncInv, TablesInv, LockTables
  PROVE  TablesInv'
<1>1. TableParts'
  BY DEF TablesInv, TableParts, TablesTypeOK, AvailableCountsQueue, EndTimesInv, PageToFrame,
         FrameToPage, QueuedUsed, LockTables, tables
<1>2. LocalsTypeOK'
  BY DEF TablesInv, LocalsTypeOK, LockTables, threadVars
<1>3. TimeInv'
  BY DEF TablesInv, TimeInv, LockTables, MainGoto
<1>4. RequestInv'
  BY DEF TablesInv, RequestInv, Page, CallTime, LockTables, threadVars
<1>5. VictimInv'
  BY DEF TablesInv, VictimInv, LockTables, tables, threadVars
<1>6. QED BY <1>1, <1>2, <1>3, <1>4, <1>5 DEF TablesInv

LEMMA ScanFrameKeepsTables ==
  ASSUME SyncInv, TablesInv, ScanFrame
  PROVE  TablesInv'
<1>1. TableParts'
  BY ScanFrameTables
<1>2. LocalsTypeOK'
  BY DEF TablesInv, LocalsTypeOK, ScanFrame, threadVars
<1>3. TimeInv'
  BY DEF TablesInv, TimeInv, ScanFrame, MainError
<1>4. RequestInv'
  BY DEF TablesInv, RequestInv, Page, CallTime, ScanFrame, threadVars
<1>5. VictimInv'
  BY ScanFrameVictim
<1>6. QED BY <1>1, <1>2, <1>3, <1>4, <1>5 DEF TablesInv

LEMMA ScanDoneKeepsTables ==
  ASSUME SyncInv, TablesInv, ScanDone
  PROVE  TablesInv'
<1>1. TableParts'
  BY DEF TablesInv, TableParts, TablesTypeOK, AvailableCountsQueue, EndTimesInv, PageToFrame,
         FrameToPage, QueuedUsed, ScanDone, tables
<1>2. LocalsTypeOK'
  BY DEF TablesInv, LocalsTypeOK, ScanDone, threadVars
<1>3. TimeInv'
  BY DEF TablesInv, TimeInv, ScanDone, MainGoto
<1>4. RequestInv'
  BY DEF TablesInv, RequestInv, Page, CallTime, ScanDone, threadVars
<1>5. VictimInv'
  BY DEF TablesInv, VictimInv, ScanDone, tables, syncVars, threadVars
<1>6. QED BY <1>1, <1>2, <1>3, <1>4, <1>5 DEF TablesInv

LEMMA ReleaseHeadKeepsTables ==
  ASSUME SyncInv, TablesInv, ReleaseHead
  PROVE  TablesInv'
<1>1. TableParts'
  BY DEF TablesInv, TableParts, TablesTypeOK, AvailableCountsQueue, EndTimesInv, PageToFrame,
         FrameToPage, QueuedUsed, ReleaseHead, tables
<1>2. LocalsTypeOK'
  BY DEF TablesInv, LocalsTypeOK, ReleaseHead, threadVars
<1>3. TimeInv'
  BY DEF TablesInv, TimeInv, ReleaseHead, MainGoto
<1>4. RequestInv'
  BY DEF TablesInv, RequestInv, Page, CallTime, ReleaseHead, threadVars
<1>5. VictimInv'
  BY DEF VictimInv, ReleaseHead, tables
<1>6. QED BY <1>1, <1>2, <1>3, <1>4, <1>5 DEF TablesInv

LEMMA ThreadReleasedKeepsTables ==
  ASSUME SyncInv, TablesInv, ThreadReleased
  PROVE  TablesInv'
<1>1. TableParts'
  BY DEF TablesInv, TableParts, TablesTypeOK, AvailableCountsQueue, EndTimesInv, PageToFrame,
         FrameToPage, QueuedUsed, ThreadReleased, tables
<1>2. LocalsTypeOK'
  BY DEF TablesInv, LocalsTypeOK, ThreadReleased, threadVars
<1>3. TimeInv'
  BY DEF TablesInv, TimeInv, ThreadReleased, MainGoto
<1>4. RequestInv'
  BY DEF TablesInv, RequestInv, Page, CallTime, ThreadReleased, threadVars
<1>5. VictimInv'
  BY DEF TablesInv, VictimInv, ThreadReleased, tables, threadVars
<1>6. QED BY <1>1, <1>2, <1>3, <1>4, <1>5 DEF TablesInv

LEMMA RelockTablesKeepsTables ==
  ASSUME SyncInv, TablesInv, RelockTables
  PROVE  TablesInv'
<1>1. TableParts'
  BY DEF TablesInv, TableParts, TablesTypeOK, AvailableCountsQueue, EndTimesInv, PageToFrame,
         FrameToPage, QueuedUsed, RelockTables, tables
<1>2. LocalsTypeOK'
  BY DEF TablesInv, LocalsTypeOK, RelockTables, threadVars
<1>3. TimeInv'
  BY DEF TablesInv, TimeInv, RelockTables, MainGoto
<1>4. RequestInv'
  BY DEF TablesInv, RequestInv, Page, CallTime, RelockTables, threadVars
<1>5. VictimInv'
  BY DEF TablesInv, VictimInv, RelockTables, tables, threadVars
<1>6. QED BY <1>1, <1>2, <1>3, <1>4, <1>5 DEF TablesInv

LEMMA TickKeepsTables ==
  ASSUME SyncInv, TablesInv, Tick
  PROVE  TablesInv'
<1>1. TableParts'
  BY DEF TablesInv, TableParts, TablesTypeOK, AvailableCountsQueue, EndTimesInv, PageToFrame,
         FrameToPage, QueuedUsed, Tick, tables
<1>2. LocalsTypeOK'
  BY DEF TablesInv, LocalsTypeOK, Tick, threadVars
<1>3. TimeInv'
  BY DEF TablesInv, TimeInv, SyncInv, SyncTypeOK, Tick
<1>4. RequestInv'
  BY DEF TablesInv, RequestInv, Page, CallTime, Tick, threadVars
<1>5. VictimInv'
  BY DEF TablesInv, VictimInv, Tick, tables, threadVars
<1>6. QED BY <1>1, <1>2, <1>3, <1>4, <1>5 DEF TablesInv

LEMMA JoinThreadsKeepsTables ==
  ASSUME SyncInv, TablesInv, JoinThreads
  PROVE  TablesInv'
<1>1. TableParts'
  BY DEF TablesInv, TableParts, TablesTypeOK, AvailableCountsQueue, EndTimesInv, PageToFrame,
         FrameToPage, QueuedUsed, JoinThreads, tables
<1>2. LocalsTypeOK'
  BY DEF TablesInv, LocalsTypeOK, JoinThreads, threadVars
<1>3. TimeInv'
  BY DEF TablesInv, TimeInv, JoinThreads, MainError
<1>4. RequestInv'
  BY DEF TablesInv, RequestInv, Page, CallTime, JoinThreads, threadVars
<1>5. VictimInv'
  BY DEF TablesInv, VictimInv, JoinThreads, tables, syncVars, threadVars
<1>6. QED BY <1>1, <1>2, <1>3, <1>4, <1>5 DEF TablesInv

LEMMA FindLastEndTimeKeepsTables ==
  ASSUME SyncInv, TablesInv, FindLastEndTime
  PROVE  TablesInv'
<1>1. TableParts'
  BY DEF TablesInv, TableParts, TablesTypeOK, AvailableCountsQueue, EndTimesInv, PageToFrame,
         FrameToPage, QueuedUsed, FindLastEndTime, tables
<1>2. LocalsTypeOK'
  BY FindLastEndTimeLocals
<1>3. TimeInv'
  BY DEF TablesInv, TimeInv, FindLastEndTime
<1>4. RequestInv'
  BY DEF TablesInv, RequestInv, Page, CallTime, FindLastEndTime, threadVars
<1>5. VictimInv'
  BY DEF TablesInv, VictimInv, FindLastEndTime, tables, syncVars, threadVars
<1>6. QED BY <1>1, <1>2, <1>3, <1>4, <1>5 DEF TablesInv

LEMMA PrintRemainsKeepsTables ==
  ASSUME SyncInv, TablesInv, PrintRemains
  PROVE  TablesInv'
<1>1. TableParts'
  BY PrintRemainsTables
<1>2. LocalsTypeOK'
  BY DEF TablesInv, LocalsTypeOK, PrintRemains, threadVars
<1>3. TimeInv'
  BY DEF TablesInv, TimeInv, PrintRemains, MainError
<1>4. RequestInv'
  BY DEF TablesInv, RequestInv, Page, CallTime, PrintRemains, threadVars
<1>5. VictimInv'
  BY DEF TablesInv, VictimInv, PrintRemains, syncVars, threadVars
<1>6. QED BY <1>1, <1>2, <1>3, <1>4, <1>5 DEF TablesInv

LEMMA CleanupKeepsTables ==
  ASSUME SyncInv, TablesInv, Cleanup
  PROVE  TablesInv'
<1>1. TableParts'
  BY DEF TablesInv, TableParts, TablesTypeOK, AvailableCountsQueue, EndTimesInv, PageToFrame,
         FrameToPage, QueuedUsed, Cleanup, tables
<1>2. LocalsTypeOK'
  BY DEF TablesInv, LocalsTypeOK, Cleanup
<1>3. TimeInv'
  BY DEF TablesInv, TimeInv, Cleanup, MainGoto
<1>4. RequestInv'
  BY DEF TablesInv, RequestInv, Page, CallTime, Cleanup
<1>5. VictimInv'
  BY DEF VictimInv, Cleanup, Ended
<1>6. QED BY <1>1, <1>2, <1>3, <1>4, <1>5 DEF TablesInv

LEMMA EnterKeepsTables ==
  ASSUME SyncInv, TablesInv, NEW r \in Rows, Enter(r)
  PROVE  TablesInv'
<1>1. TableParts'
  BY DEF TablesInv, TableParts, TablesTypeOK, AvailableCountsQueue, EndTimesInv, PageToFrame,
         FrameToPage, QueuedUsed, Enter, tables
<1>2. LocalsTypeOK'
  BY DEF TablesInv, LocalsTypeOK, Enter, mainVars
<1>3. TimeInv'
  BY DEF TablesInv, TimeInv, Enter, mainVars
<1>4. RequestInv'
  BY DEF TablesInv, RequestInv, Page, CallTime, Enter, ThreadGoto
<1>5. VictimInv'
  BY DEF TablesInv, VictimInv, Enter, ThreadGoto, tables
<1>6. QED BY <1>1, <1>2, <1>3, <1>4, <1>5 DEF TablesInv

LEMMA UseResidentPageKeepsTables ==
  ASSUME SyncInv, TablesInv, NEW r \in Rows, UseResidentPage(r)
  PROVE  TablesInv'
<1>1. TableParts'
  BY UseResidentPageTables
<1>2. LocalsTypeOK'
  BY DEF TablesInv, LocalsTypeOK, UseResidentPage, mainVars
<1>3. TimeInv'
  BY DEF TablesInv, TimeInv, UseResidentPage, mainVars
<1>4. RequestInv'
  BY DEF TablesInv, RequestInv, Page, CallTime, UseResidentPage, ThreadGoto
<1>5. VictimInv'
  BY VisitorVictim DEF UseResidentPage, ThreadGoto, syncVars, Visiting, InFirstVisit
<1>6. QED BY <1>1, <1>2, <1>3, <1>4, <1>5 DEF TablesInv

LEMMA UseEmptyFrameKeepsTables ==
  ASSUME SyncInv, TablesInv, NEW r \in Rows, UseEmptyFrame(r)
  PROVE  TablesInv'
<1>1. TableParts'
  BY UseEmptyFrameTables
<1>2. LocalsTypeOK'
  BY DEF TablesInv, LocalsTypeOK, UseEmptyFrame, mainVars
<1>3. TimeInv'
  BY DEF TablesInv, TimeInv, UseEmptyFrame, mainVars
<1>4. RequestInv'
  BY DEF TablesInv, RequestInv, Page, CallTime, SyncInv, SyncTypeOK, UseEmptyFrame
<1>5. VictimInv'
  BY VisitorVictim DEF UseEmptyFrame, syncVars, Visiting, InFirstVisit
<1>6. QED BY <1>1, <1>2, <1>3, <1>4, <1>5 DEF TablesInv

LEMMA WaitForFrameKeepsTables ==
  ASSUME SyncInv, TablesInv, NEW r \in Rows, WaitForFrame(r)
  PROVE  TablesInv'
<1>1. TableParts'
  BY DEF TablesInv, TableParts, TablesTypeOK, AvailableCountsQueue, EndTimesInv, PageToFrame,
         FrameToPage, QueuedUsed, WaitForFrame, tables
<1>2. LocalsTypeOK'
  BY DEF TablesInv, LocalsTypeOK, WaitForFrame, mainVars
<1>3. TimeInv'
  BY DEF TablesInv, TimeInv, WaitForFrame, mainVars
<1>4. RequestInv'
  BY DEF TablesInv, RequestInv, Page, CallTime, SyncInv, SyncTypeOK, WaitForFrame
<1>5. VictimInv'
  BY DEF TablesInv, VictimInv, SyncInv, SyncTypeOK, WaitForFrame, tables, syncVars
<1>6. QED BY <1>1, <1>2, <1>3, <1>4, <1>5 DEF TablesInv

LEMMA UnlockKeepsTables ==
  ASSUME SyncInv, TablesInv, NEW r \in Rows, Unlock(r)
  PROVE  TablesInv'
<1>1. TableParts'
  BY DEF TablesInv, TableParts, TablesTypeOK, AvailableCountsQueue, EndTimesInv, PageToFrame,
         FrameToPage, QueuedUsed, Unlock, tables
<1>2. LocalsTypeOK'
  BY DEF TablesInv, LocalsTypeOK, Unlock, mainVars
<1>3. TimeInv'
  BY DEF TablesInv, TimeInv, Unlock, mainVars
<1>4. RequestInv'
  BY DEF TablesInv, RequestInv, Page, CallTime, Unlock, ThreadGoto
<1>5. VictimInv'
  BY DEF TablesInv, VictimInv, Unlock, ThreadGoto, tables
<1>6. QED BY <1>1, <1>2, <1>3, <1>4, <1>5 DEF TablesInv

LEMMA SignalMainKeepsTables ==
  ASSUME SyncInv, TablesInv, NEW r \in Rows, SignalMain(r)
  PROVE  TablesInv'
<1>1. TableParts'
  BY DEF TablesInv, TableParts, TablesTypeOK, AvailableCountsQueue, EndTimesInv, PageToFrame,
         FrameToPage, QueuedUsed, SignalMain, tables
<1>2. LocalsTypeOK'
  BY DEF TablesInv, LocalsTypeOK, SignalMain, mainVars
<1>3. TimeInv'
  BY DEF TablesInv, TimeInv, SignalMain, mainVars
<1>4. RequestInv'
  BY DEF TablesInv, RequestInv, Page, CallTime, SignalMain, ThreadGoto
<1>5. VictimInv'
  BY DEF TablesInv, VictimInv, SyncInv, QueueInv, SleeperInv, SignalMain, ThreadGoto, tables
<1>6. QED BY <1>1, <1>2, <1>3, <1>4, <1>5 DEF TablesInv

LEMMA TakeTurnKeepsTables ==
  ASSUME SyncInv, TablesInv, NEW r \in Rows, TakeTurn(r)
  PROVE  TablesInv'
<1>1. TableParts'
  BY DEF TablesInv, TableParts, TablesTypeOK, AvailableCountsQueue, EndTimesInv, PageToFrame,
         FrameToPage, QueuedUsed, TakeTurn, tables
<1>2. LocalsTypeOK'
  BY DEF TablesInv, LocalsTypeOK, TakeTurn, mainVars
<1>3. TimeInv'
  BY DEF TablesInv, TimeInv, TakeTurn, mainVars
<1>4. RequestInv'
  BY DEF TablesInv, RequestInv, Page, CallTime, TakeTurn, ThreadGoto
<1>5. VictimInv'
  BY DEF TablesInv, VictimInv, TakeTurn, ThreadGoto, tables
<1>6. QED BY <1>1, <1>2, <1>3, <1>4, <1>5 DEF TablesInv

LEMMA ReenterKeepsTables ==
  ASSUME SyncInv, TablesInv, NEW r \in Rows, Reenter(r)
  PROVE  TablesInv'
<1>1. TableParts'
  BY DEF TablesInv, TableParts, TablesTypeOK, AvailableCountsQueue, EndTimesInv, PageToFrame,
         FrameToPage, QueuedUsed, Reenter, tables
<1>2. LocalsTypeOK'
  BY DEF TablesInv, LocalsTypeOK, Reenter, mainVars
<1>3. TimeInv'
  BY DEF TablesInv, TimeInv, Reenter, mainVars
<1>4. RequestInv'
  BY DEF TablesInv, RequestInv, Page, CallTime, Reenter, ThreadGoto
<1>5. VictimInv'
  BY DEF TablesInv, VictimInv, Reenter, ThreadGoto, tables
<1>6. QED BY <1>1, <1>2, <1>3, <1>4, <1>5 DEF TablesInv

LEMMA UsePageBroughtInKeepsTables ==
  ASSUME SyncInv, TablesInv, NEW r \in Rows, UsePageBroughtIn(r)
  PROVE  TablesInv'
<1>1. TableParts'
  BY UsePageBroughtInTables
<1>2. LocalsTypeOK'
  BY DEF TablesInv, LocalsTypeOK, UsePageBroughtIn, mainVars
<1>3. TimeInv'
  BY DEF TablesInv, TimeInv, UsePageBroughtIn, mainVars
<1>4. RequestInv'
  BY DEF TablesInv, RequestInv, Page, CallTime, UsePageBroughtIn, ThreadGoto
<1>5. VictimInv'
  BY VisitorVictim DEF UsePageBroughtIn, ThreadGoto, syncVars, Visiting, InSecondVisit
<1>6. QED BY <1>1, <1>2, <1>3, <1>4, <1>5 DEF TablesInv

LEMMA EvictAndPlaceKeepsTables ==
  ASSUME SyncInv, TablesInv, NEW r \in Rows, EvictAndPlace(r)
  PROVE  TablesInv'
<1>1. TableParts'
  BY EvictAndPlaceTables
<1>2. LocalsTypeOK'
  BY DEF TablesInv, LocalsTypeOK, EvictAndPlace, mainVars
<1>3. TimeInv'
  BY DEF TablesInv, TimeInv, EvictAndPlace, mainVars
<1>4. RequestInv'
  BY DEF TablesInv, RequestInv, Page, CallTime, EvictAndPlace, ThreadGoto
<1>5. VictimInv'
  BY VisitorVictim DEF EvictAndPlace, ThreadGoto, syncVars, Visiting, InSecondVisit
<1>6. QED BY <1>1, <1>2, <1>3, <1>4, <1>5 DEF TablesInv

LEMMA SignalMainAgainKeepsTables ==
  ASSUME SyncInv, TablesInv, NEW r \in Rows, SignalMainAgain(r)
  PROVE  TablesInv'
<1>1. TableParts'
  BY DEF TablesInv, TableParts, TablesTypeOK, AvailableCountsQueue, EndTimesInv, PageToFrame,
         FrameToPage, QueuedUsed, SignalMainAgain, tables
<1>2. LocalsTypeOK'
  BY DEF TablesInv, LocalsTypeOK, SignalMainAgain, mainVars
<1>3. TimeInv'
  BY DEF TablesInv, TimeInv, SignalMainAgain, mainVars
<1>4. RequestInv'
  BY DEF TablesInv, RequestInv, Page, CallTime, SignalMainAgain, ThreadGoto
<1>5. VictimInv'
  BY DEF TablesInv, VictimInv, SignalMainAgain, ThreadGoto, tables
<1>6. QED BY <1>1, <1>2, <1>3, <1>4, <1>5 DEF TablesInv

LEMMA UnlockAgainKeepsTables ==
  ASSUME SyncInv, TablesInv, NEW r \in Rows, UnlockAgain(r)
  PROVE  TablesInv'
<1>1. TableParts'
  BY DEF TablesInv, TableParts, TablesTypeOK, AvailableCountsQueue, EndTimesInv, PageToFrame,
         FrameToPage, QueuedUsed, UnlockAgain, tables
<1>2. LocalsTypeOK'
  BY DEF TablesInv, LocalsTypeOK, UnlockAgain, mainVars
<1>3. TimeInv'
  BY DEF TablesInv, TimeInv, UnlockAgain, mainVars
<1>4. RequestInv'
  BY DEF TablesInv, RequestInv, Page, CallTime, UnlockAgain, ThreadGoto
<1>5. VictimInv'
  BY DEF TablesInv, VictimInv, UnlockAgain, ThreadGoto, tables
<1>6. QED BY <1>1, <1>2, <1>3, <1>4, <1>5 DEF TablesInv

-----------------------------------------------------------------------------
LEMMA InitTables == Init => TablesInv
<1> SUFFICES ASSUME Init PROVE TablesInv
  OBVIOUS
<1>1. TimeInv
  <2>1. \A t \in FirstStarts : t \in Nat
    BY SimAssumption DEF SimAssumption
  <2>2. next_row \in [start_time : FirstStarts, page : Pages, work_time : WorkTimes]
    BY DEF Init
  <2>3. next_row.start_time \in FirstStarts
    BY ONLY <2>2
  <2>4. next_row.start_time \in Nat
    BY ONLY <2>1, <2>3
  <2>5. g_current_time = 0
    BY DEF Init
  <2>6. QED BY ONLY <2>4, <2>5 DEF TimeInv
<1> USE DEF Init, initial_tables
<1>2. TableParts
  <2>1. TablesTypeOK
    BY DEF TablesTypeOK, PageEntry, FrameEntry, Unused
  <2>2. QED
    BY <2>1 DEF TableParts, AvailableCountsQueue, EndTimesInv, PageToFrame, FrameToPage,
                QueuedUsed, Unused
<1>3. LocalsTypeOK
  BY DEF LocalsTypeOK, Input, NoInput
<1>4. RequestInv /\ VictimInv
  BY DEF RequestInv, VictimInv
<1>5. QED BY <1>1, <1>2, <1>3, <1>4 DEF TablesInv

LEMMA NextTables == SyncInv /\ TablesInv /\ [Next]_vars => TablesInv'
<1> SUFFICES ASSUME SyncInv, TablesInv, [Next]_vars PROVE TablesInv'
  OBVIOUS
<1>1. ASSUME Main PROVE TablesInv'
  BY <1>1, LoopEndsKeepsTables, OrderErrorKeepsTables, NoRowNowKeepsTables,
     SpawnRowKeepsTables, MoveToNextRowKeepsTables, LockTablesKeepsTables,
     ScanFrameKeepsTables, ScanDoneKeepsTables, ReleaseHeadKeepsTables,
     ThreadReleasedKeepsTables, RelockTablesKeepsTables, TickKeepsTables,
     JoinThreadsKeepsTables, FindLastEndTimeKeepsTables, PrintRemainsKeepsTables,
     CleanupKeepsTables DEF Main
<1>2. ASSUME NEW r \in Rows, Thread(r) PROVE TablesInv'
  BY <1>2, EnterKeepsTables, UseResidentPageKeepsTables, UseEmptyFrameKeepsTables,
     WaitForFrameKeepsTables, UnlockKeepsTables, SignalMainKeepsTables,
     TakeTurnKeepsTables, ReenterKeepsTables, UsePageBroughtInKeepsTables,
     EvictAndPlaceKeepsTables, SignalMainAgainKeepsTables, UnlockAgainKeepsTables DEF Thread
<1>3. ASSUME UNCHANGED vars PROVE TablesInv'
  BY <1>3 DEF vars, tables, mainVars, threadVars, syncVars, TablesInv, TableParts,
     TablesTypeOK, AvailableCountsQueue, EndTimesInv, PageToFrame, FrameToPage, QueuedUsed,
     LocalsTypeOK, TimeInv, RequestInv, VictimInv, Page, CallTime
<1>4. QED BY <1>1, <1>2, <1>3 DEF Next, Exited

THEOREM TablesInvariant == Spec => []TablesInv
BY InitTables, NextTables, SyncInvariant, PTL DEF Spec
-----------------------------------------------------------------------------
(* All variables keep their types.                                         *)
THEOREM TypeCorrect == Spec => []TypeOK
<1>1. SyncInv /\ TablesInv => TypeOK
  BY DEF SyncInv, SyncTypeOK, TablesInv, TableParts, LocalsTypeOK, TypeOK
<1>2. QED BY <1>1, SyncInvariant, TablesInvariant, PTL

(* The counter beside the frame queue is its length.                       *)
THEOREM AvailableCountsQueueHolds == Spec => []AvailableCountsQueue
<1>1. TablesInv => AvailableCountsQueue
  BY DEF TablesInv, TableParts
<1>2. QED BY <1>1, TablesInvariant, PTL

(* evicte_and_place never meets an empty queue.                            *)
THEOREM EvictHasVictimHolds == Spec => []EvictHasVictim
<1>1. TablesInv => EvictHasVictim
  <2>1. SUFFICES ASSUME TablesInv, NEW r \in Rows, thread_pc[r] = "evict"
                 PROVE  /\ frame_queue # <<>>
                        /\ frame_table[Head(frame_queue)].page_number \in Pages
                        /\ available_frame = Len(frame_queue)
    BY DEF EvictHasVictim
  <2>2. available_frame > 0 /\ available_frame = Len(frame_queue)
    BY <2>1 DEF TablesInv, TableParts, VictimInv, AvailableCountsQueue
  <2>3. frame_queue # <<>> /\ 1 \in 1 .. Len(frame_queue)
    BY <2>1, <2>2 DEF TablesInv, TableParts, TablesTypeOK
  <2>4. frame_queue[1] \in Frames /\ Head(frame_queue) = frame_queue[1]
    BY <2>1, <2>3 DEF TablesInv, TableParts, TablesTypeOK
  <2>5. frame_table[frame_queue[1]].end_time # Unused
    BY <2>1, <2>3 DEF TablesInv, TableParts, QueuedUsed
  <2>6. frame_table[frame_queue[1]].page_number \in Pages
    BY <2>1, <2>4, <2>5 DEF TablesInv, TableParts, FrameToPage
  <2>7. QED BY <2>2, <2>3, <2>4, <2>6
<1>2. QED BY <1>1, TablesInvariant, PTL

(* The page table and the frame table never disagree.                      *)
THEOREM TablesAgreeHolds == Spec => []TablesAgree
<1>1. TablesInv => TablesAgree
  <2> SUFFICES ASSUME TablesInv PROVE TablesAgree
    OBVIOUS
  <2>1. ASSUME NEW p \in Pages, page_table[p].valid
        PROVE  LET f == page_table[p].frame_number
               IN  f \in Frames /\ frame_table[f] = [page_number |-> p,
                                                     end_time |-> page_table[p].end_of_use]
    BY <2>1 DEF TablesInv, TableParts, TablesTypeOK, PageToFrame, FrameEntry
  <2>2. ASSUME NEW f \in Frames, frame_table[f].end_time # Unused
        PROVE  LET p == frame_table[f].page_number
               IN  p \in Pages /\ page_table[p].valid /\ page_table[p].frame_number = f
    BY <2>2 DEF TablesInv, TableParts, FrameToPage
  <2>3. QED BY <2>1, <2>2 DEF TablesAgree
<1>2. QED BY <1>1, TablesInvariant, PTL
=============================================================================
