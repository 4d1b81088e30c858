----------------------------- MODULE PagingProps -----------------------------
(***************************************************************************)
(* What makes the paging simulator correct: the invariants, the action     *)
(* properties and the liveness properties that the runs check and the      *)
(* proofs establish.                                                       *)
(***************************************************************************)
EXTENDS PagingSim

(* The types of all variables; the semaphores are the counting semaphores  *)
(* of Windows, whose maximum of 1 is the business of ReleaseNeverFails.    *)
TypeOK ==
  /\ TablesTypeOK
  /\ g_current_time \in Int
  /\ mutex \in Rows \cup {MainThread, NoOwner}
  /\ main_semaphore \in Int
  /\ thread_semaphore \in [Rows -> Int]
  /\ thread_queue \in Seq(Rows)
  /\ main_pc \in MainPC
  /\ current_row_ind \in 0 .. NumRows
  /\ next_row \in Row
  /\ lines_left \in Int
  /\ frame_ind \in 0 .. NumFrames
  /\ last_end_time \in Int
  /\ result \in {"running", "SUCCESS_CODE", "ERROR_CODE"}
  /\ thread_pc \in [Rows -> ThreadPC]
  /\ thread_input \in [Rows -> Input]
  /\ update_table \in [Rows -> BOOLEAN]
  /\ faults \in 0 .. MaxFaults

-----------------------------------------------------------------------------
(* The hand-over between the threads.                                      *)

(* Threads that have the right to run: spawned or woken, and not yet back. *)
InFirstVisit(r)  == thread_pc[r] \in {"enter", "place", "unlock", "signal"}
InSecondVisit(r) == \/ thread_pc[r] \in {"reenter", "evict", "resignal", "reunlock"}
                    \/ thread_pc[r] = "waitTurn" /\ thread_semaphore[r] > 0

(* Main reads pg_thread_queue_head and moves g_current_time at the top of  *)
(* run_pages without the mutex.  That is safe only because no page thread  *)
(* is then about to touch the tables: it was spawned or woken by main, and *)
(* main waited for its signal and, after a wake-up, for its mutex too.     *)
NoDataRace ==
  main_pc \in {"loop", "lock", "scan", "join", "findLast", "print"} =>
    \A r \in Rows : ~InFirstVisit(r) /\ ~InSecondVisit(r)

(* Whoever is between a wait for the mutex and its release owns it, so two *)
(* threads are never inside the critical sections together.                *)
MutexProtectsTables ==
  /\ main_pc \in {"scan", "release"} => mutex = MainThread
  /\ \A r \in Rows :
       thread_pc[r] \in {"place", "unlock", "evict", "resignal", "reunlock"} => mutex = r

(* All semaphores are created with a maximum of 1: a release that would go *)
(* beyond it fails, and the thread would give up half way.  No release     *)
(* finds its semaphore already signalled.                                  *)
ReleaseNeverFails ==
  /\ \A r \in Rows : thread_pc[r] \in {"signal", "resignal"} => main_semaphore = 0
  /\ main_pc = "release" /\ thread_queue # <<>> => thread_semaphore[Head(thread_queue)] = 0

(* No lost wake-up: a thread that sleeps for a frame is in the queue main  *)
(* wakes from, exactly once, or has been signalled already; and every row  *)
(* in that queue is a thread that goes to sleep.                           *)
WaitersAreQueued ==
  /\ \A r \in Rows : thread_pc[r] = "waitTurn" =>
       (r \in ToSet(thread_queue)) # (thread_semaphore[r] > 0)
  /\ \A i \in DOMAIN thread_queue :
       /\ thread_pc[thread_queue[i]] \in {"unlock", "signal", "waitTurn", "terminated"}
       /\ \A j \in DOMAIN thread_queue : thread_queue[i] = thread_queue[j] => i = j

(* At the last row main keeps next_row_input and compares its start time   *)
(* with the clock again, without looking at current_row_ind (line 225): if *)
(* they were equal it would start a thread beyond the end of both arrays.  *)
NoRowPastEnd ==
  main_pc = "loop" /\ current_row_ind = NumRows => next_row.start_time # loop_time

(* When main cleans up after an error it terminates only threads that are  *)
(* asleep on their semaphore, never one that is changing the tables.       *)
TerminatesOnlySleepers ==
  main_pc = "cleanup" =>
    \A r \in Rows : thread_pc[r] \in {"none", "waitTurn", "success"}

-----------------------------------------------------------------------------
(* The tables.                                                             *)

(* A woken thread whose page is not resident evicts the head of the queue: *)
(* evicte_and_place takes it without a check for NULL, some time after     *)
(* main has seen the counter beside the queue above zero, uses the page of *)
(* its frame as an index, which malloc left undefined until a page was     *)
(* placed there, and counts it off.                                        *)
EvictHasVictim ==
  \A r \in Rows : thread_pc[r] = "evict" /\ ~page_table[Page(r)].valid =>
    /\ frame_queue # <<>>
    /\ frame_table[Head(frame_queue)].page_number \in Pages
    /\ available_frame = Len(frame_queue)

(* The page table and the frame table are the two directions of one map: a *)
(* valid page has a frame that holds it until the same time, a frame that  *)
(* was used holds a valid page that points back to it.  In particular no   *)
(* field that malloc left undefined is ever read.                          *)
TablesAgree ==
  /\ \A p \in Pages : page_table[p].valid =>
       LET f == page_table[p].frame_number
       IN  f \in Frames /\ frame_table[f] = [page_number |-> p,
                                             end_time |-> page_table[p].end_of_use]
  /\ \A f \in Frames : frame_table[f].end_time # Unused =>
       LET p == frame_table[f].page_number
       IN  p \in Pages /\ page_table[p].valid /\ page_table[p].frame_number = f

(* Main looks for frames with end_time == g_current_time only: one whose   *)
(* time has passed and that is not in the queue will never be found again. *)
(* A work time of 0 loses frames this way; positive ones do not.           *)
NoLostFrame ==
  \A f \in Frames :
    /\ frame_table[f].end_time # Unused
    /\ frame_table[f].end_time < g_current_time
    => f \in ToSet(frame_queue)

(* The comment at line 425: a woken thread has an empty frame or one that  *)
(* can be evicted, that is one whose use has ended.  It is so only until   *)
(* two rows start at the same time.                                        *)
EvictsEndedFrameOnly ==
  \A r \in Rows : thread_pc[r] = "evict" /\ ~page_table[Page(r)].valid =>
    frame_table[Head(frame_queue)].end_time =< g_current_time

(* Every row started later than the row before it, so that the clock never *)
(* turned back.                                                            *)
ClockNeverTurned ==
  \A r, s \in Rows : r < s /\ thread_pc[s] # "none" => CallTime(r) < CallTime(s)

(* No frame is queued twice and none that is still in use is queued, until *)
(* two rows start at the same time.                                        *)
QueueIsExact ==
  ClockNeverTurned =>
    \A i \in DOMAIN frame_queue :
      /\ frame_table[frame_queue[i]].end_time =< g_current_time
      /\ \A j \in DOMAIN frame_queue : frame_queue[i] = frame_queue[j] => i = j

-----------------------------------------------------------------------------
(* The output file.                                                        *)

(* Lines i and j are about one frame, and no line between them is.         *)
NextOfFrame(i, j) ==
  /\ i < j /\ output[i].frame = output[j].frame
  /\ \A k \in i + 1 .. j - 1 : output[k].frame # output[j].frame

LastOfFrame(i) == \A k \in i + 1 .. Len(output) : output[k].frame # output[i].frame

(* Line j says that the page that line i placed has left its frame.        *)
WritesOff(j, i) ==
  /\ NextOfFrame(i, j)
  /\ output[i].kind = "P" /\ output[j].kind = "E" /\ output[i].page = output[j].page

(* While every line can be written, the lines of each frame alternate: P   *)
(* of a page, then E of that page; what the last P placed is in the frame. *)
LogMatchesTables ==
  faults = 0 =>
    /\ \A j \in DOMAIN output :
         output[j].kind = "E" => \E i \in DOMAIN output : WritesOff(j, i)
    /\ \A i, j \in DOMAIN output : NextOfFrame(i, j) => output[i].kind # output[j].kind
    /\ main_pc \notin {"print", "cleanup", "exited"} =>
         \A f \in Frames :
           IF frame_table[f].end_time = Unused
           THEN \A i \in DOMAIN output : output[i].frame # f
           ELSE \E i \in DOMAIN output :
                  /\ output[i].frame = f /\ LastOfFrame(i)
                  /\ output[i].kind = "P" /\ output[i].page = frame_table[f].page_number

(* When the program reports success every row was served and, if no call   *)
(* failed, every page that was placed has been written off: the lines that *)
(* evicte_and_place could not write are missing from a success too.  An    *)
(* error is reported only when a call failed, when there are more rows     *)
(* than one join can wait for, and when a row that has not started is more *)
(* than a tick late or not there.                                          *)
SuccessIsComplete ==
  /\ result = "SUCCESS_CODE" =>
       /\ \A r \in Rows : thread_pc[r] = "success"
       /\ faults = 0 => \A i \in DOMAIN output :
            output[i].kind = "P" => \E j \in DOMAIN output : WritesOff(j, i)
  /\ result = "ERROR_CODE" =>
       \/ faults > 0 \/ NumRows > MaxWaitObjects
       \/ current_row_ind < NumRows /\ next_row.start_time < g_current_time - 1
       \/ current_row_ind < NumRows - 1 /\ lines_left = 0

-----------------------------------------------------------------------------
(* What the threads do together.                                           *)

(* A thread has its page once it has changed the tables; one that has been *)
(* woken and has not changed them yet is still first in the line.          *)
HasPage(r) == update_table[r] \/ thread_pc[r] \in {"resignal", "reunlock", "success"}
IsWoken(r) == \/ thread_pc[r] \in {"reenter", "evict"}
              \/ thread_pc[r] = "waitTurn" /\ thread_semaphore[r] > 0

InLine == SetToSeq({r \in Rows : IsWoken(r)}) \o thread_queue

Service == INSTANCE PagingService WITH
  Frames  <- Frames,
  now     <- g_current_time,
  turned  <- ~ClockNeverTurned,
  waiting <- [i \in DOMAIN InLine |->
               [row |-> InLine[i], page |-> Page(InLine[i]), work |-> WorkTime(InLine[i]),
                at |-> CallTime(InLine[i])]],
  served  <- {r \in Rows : HasPage(r)},
  memory  <- [f \in Frames |-> IF frame_table[f].end_time = Unused
                               THEN NoPage ELSE frame_table[f].page_number],
  until   <- [f \in Frames |-> frame_table[f].end_time]

(* While no call fails, and when no work time is 0, the threads together   *)
(* do what PagingService says: the rows that wait are served first come    *)
(* first served, nobody waits while there is something to use, no promised *)
(* time gets shorter, and time stands still while a row and a frame that   *)
(* is due are there, with no thread of the simulator able to tell          *)
(* otherwise.                                                              *)
ImplementsService == Service!Spec

-----------------------------------------------------------------------------
(* Liveness.                                                               *)

(* A row with a work time of 0 has started, which the program does not     *)
(* check.  Its use may end in the tick whose scan has passed (line 265):   *)
(* the frame is never noticed again, and a row that waits sleeps for ever. *)
EmptyUseStarted == \E r \in Rows : thread_pc[r] # "none" /\ WorkTime(r) = 0

(* The simulator ends, in whatever order the file is, unless a row has no  *)
(* work time, or a thread fails with the mutex in its hands: then main     *)
(* may wait for ever.                                                      *)
Termination ==
  <>(main_pc = "exited" \/ EmptyUseStarted \/ \E r \in Rows : thread_pc[r] = "error")

(* A thread that starts is served, unless a row has no work time, a call   *)
(* fails or the file turns out to be in no order.                          *)
EveryRequestServed ==
  \A r \in Rows :
    thread_pc[r] = "enter" ~>
      thread_pc[r] = "success" \/ EmptyUseStarted \/ faults > 0 \/ result = "ERROR_CODE"
=============================================================================
