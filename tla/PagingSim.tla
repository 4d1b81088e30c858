------------------------------ MODULE PagingSim ------------------------------
(***************************************************************************)
(* The paging simulator (Ex3, main.c).  The main thread reads the request  *)
(* file row by row, keeps the simulated time, starts one thread per row    *)
(* and, once per tick, collects the frames whose use ended and wakes the   *)
(* threads that wait for one.  The threads and the main thread share the   *)
(* tables of PageTables under g_page_table_mutex_handle, hand control back *)
(* and forth with g_main_semapore, and a thread that found no frame sleeps *)
(* on its own entry of pg_thread_semaphore_arr.                            *)
(***************************************************************************)
EXTENDS PageTables

CONSTANTS
  NumRows,         \* g_num_rows: lines counted in the input file
  FirstStarts,     \* possible start times of the first row
  StartGaps,       \* possible differences between one start time and the next
  WorkTimes,       \* possible work times of a row
  MaxBlankLines,   \* counted lines that may be blank, hence not be rows
  MaxFaults,       \* bound: allocations, writes, thread creations that fail
  MaxWaitObjects   \* handles one WaitForMultipleObjects accepts (64)

ASSUME SimAssumption ==
  /\ NumRows \in Nat \ {0}
  /\ FirstStarts \subseteq Nat
  /\ StartGaps \subseteq Int
  /\ WorkTimes \subseteq Nat
  /\ MaxBlankLines \in 0 .. NumRows - 1
  /\ MaxFaults \in Nat
  /\ MaxWaitObjects \in Nat

Rows       == 0 .. NumRows - 1
MainThread == -1                  \* as an owner of the mutex
NoOwner    == -2

VARIABLES
  g_current_time,
  mutex,             \* owner of g_page_table_mutex_handle
  main_semaphore,    \* count of g_main_semapore, created with maximum 1
  thread_semaphore,  \* counts of pg_thread_semaphore_arr, maximum 1 each
  thread_queue,      \* pg_thread_queue_head: rows that wait for a frame
  main_pc,           \* where the main thread is (run_pages, then main)
  current_row_ind,
  next_row,          \* next_row_input, with its start, page and work time
  lines_left,        \* rows of the text that get_next_line has not returned
  frame_ind,         \* loop index of the scan and of print_remains_frames
  last_end_time,     \* local of print_remains_frames
  result,            \* the exit code of the program
  thread_pc,         \* where the page_thread of a row is
  thread_input,      \* p_thread_input_arr
  update_table,      \* local of each page_thread
  faults             \* calls that have failed so far

mainVars   == <<main_pc, current_row_ind, next_row, lines_left, frame_ind,
                last_end_time, result>>
threadVars == <<thread_pc, thread_input, update_table>>
syncVars   == <<mutex, main_semaphore, thread_semaphore>>
vars == <<tables, g_current_time, syncVars, thread_queue, mainVars, threadVars, faults>>

Row == [start_time : Int, page : Pages, work_time : Nat]
Input == [call_time : Int, virtual_page_num : Pages \cup {NoPage}, work_time : Nat]
NoInput == [call_time |-> 0, virtual_page_num |-> NoPage, work_time |-> 0]

MainPC == {"loop", "waitPlaced", "lock", "scan", "release", "waitReleased",
           "relock", "join", "findLast", "print", "cleanup", "exited"}
ThreadPC == {"none", "enter", "place", "unlock", "signal", "waitTurn", "reenter",
             "evict", "resignal", "reunlock", "success", "error", "terminated"}

Init ==
  /\ initial_tables
  /\ g_current_time = 0
  /\ mutex = NoOwner
  /\ main_semaphore = 0
  /\ thread_semaphore = [r \in Rows |-> 0]
  /\ thread_queue = <<>>
  /\ main_pc = "loop"
  /\ current_row_ind = 0
  /\ next_row \in [start_time : FirstStarts, page : Pages, work_time : WorkTimes]
  /\ lines_left \in NumRows - 1 - MaxBlankLines .. NumRows - 1
  /\ frame_ind = 0
  /\ last_end_time = 0
  /\ result = "running"
  /\ thread_pc = [r \in Rows |-> "none"]
  /\ thread_input = [r \in Rows |-> NoInput]
  /\ update_table = [r \in Rows |-> FALSE]
  /\ faults = 0

-----------------------------------------------------------------------------
(* A call that may fail: malloc, CreateThread, writing a line, the join.   *)
CallFails == faults < MaxFaults /\ faults' = faults + 1
CallWorks == faults' = faults

(* Main gives up: run_pages returns ERROR_CODE, free_resource comes next.  *)
MainError == main_pc' = "cleanup" /\ result' = "ERROR_CODE"

MainGoto(from, to) == main_pc = from /\ main_pc' = to

(* Variant: waiting threads are forgotten.                                 *)
WorkRemains_RowsOnly == current_row_ind # NumRows

(* The while condition of run_pages, read without the mutex.               *)
WorkRemains == current_row_ind # NumRows \/ thread_queue # <<>>

(* Variant: without the test of current_row_ind.                           *)
TurnBack_AnyRow == next_row.start_time = g_current_time - 1

(* A row one tick behind the clock turns the clock back.                   *)
TurnBack == /\ next_row.start_time = g_current_time - 1
            /\ current_row_ind # NumRows
loop_time == IF TurnBack THEN g_current_time - 1 ELSE g_current_time

OutOfOrder == /\ next_row.start_time < g_current_time - 1
              /\ current_row_ind # NumRows

LoopEnds ==
  /\ MainGoto("loop", "join")
  /\ ~WorkRemains
  /\ UNCHANGED <<tables, g_current_time, syncVars, thread_queue, threadVars, faults,
                 current_row_ind, next_row, lines_left, frame_ind, last_end_time, result>>

OrderError ==
  /\ main_pc = "loop"
  /\ WorkRemains /\ OutOfOrder
  /\ MainError
  /\ UNCHANGED <<tables, g_current_time, syncVars, thread_queue, threadVars, faults,
                 current_row_ind, next_row, lines_left, frame_ind, last_end_time>>

NoRowNow ==
  /\ MainGoto("loop", "lock")
  /\ WorkRemains /\ ~OutOfOrder
  /\ next_row.start_time # loop_time
  /\ UNCHANGED <<tables, g_current_time, syncVars, thread_queue, threadVars, faults,
                 current_row_ind, next_row, lines_left, frame_ind, last_end_time, result>>

(* init_new_thread: fill the input of the row and create its thread.       *)
SpawnRow ==
  /\ main_pc = "loop"
  /\ WorkRemains /\ ~OutOfOrder
  /\ next_row.start_time = loop_time
  /\ g_current_time' = loop_time
  /\ thread_input' = [thread_input EXCEPT ![current_row_ind] =
                        [call_time |-> loop_time, virtual_page_num |-> next_row.page,
                         work_time |-> next_row.work_time]]
  /\ \/ /\ CallWorks
        /\ thread_pc' = [thread_pc EXCEPT ![current_row_ind] = "enter"]
        /\ main_pc' = "waitPlaced"
        /\ UNCHANGED result
     \/ /\ CallFails
        /\ MainError
        /\ UNCHANGED thread_pc
  /\ UNCHANGED <<tables, syncVars, thread_queue, update_table,
                 current_row_ind, next_row, lines_left, frame_ind, last_end_time>>

(* get_next_line: the next row of the text.                                *)
get_next_line ==
  \E gap \in StartGaps, p \in Pages, w \in WorkTimes :
    next_row' = [start_time |-> next_row.start_time + gap, page |-> p, work_time |-> w]

(* Main waited for the thread it created; now it moves to the next row.    *)
MoveToNextRow ==
  /\ main_pc = "waitPlaced"
  /\ main_semaphore > 0
  /\ main_semaphore' = main_semaphore - 1
  /\ \/ /\ lines_left > 0
        /\ get_next_line
        /\ lines_left' = lines_left - 1
        /\ current_row_ind' = current_row_ind + 1
        /\ main_pc' = "lock"
        /\ UNCHANGED result
     \/ /\ lines_left = 0 /\ current_row_ind = NumRows - 1
        /\ current_row_ind' = current_row_ind + 1
        /\ main_pc' = "lock"
        /\ UNCHANGED <<next_row, lines_left, result>>
     \/ /\ lines_left = 0 /\ current_row_ind # NumRows - 1
        /\ MainError                                  \* "unable to read line"
        /\ UNCHANGED <<next_row, lines_left, current_row_ind>>
  /\ UNCHANGED <<tables, g_current_time, mutex, thread_semaphore, thread_queue,
                 threadVars, faults, frame_ind, last_end_time>>

LockTables ==
  /\ MainGoto("lock", "scan")
  /\ mutex = NoOwner
  /\ mutex' = MainThread
  /\ frame_ind' = 0
  /\ UNCHANGED <<tables, g_current_time, main_semaphore, thread_semaphore, thread_queue,
                 threadVars, faults, current_row_ind, next_row, lines_left,
                 last_end_time, result>>

(* One round of the scan: the frame's use ends now, or it does not.        *)
ScanFrame ==
  /\ main_pc = "scan"
  /\ frame_ind < NumFrames
  /\ \/ /\ frame_table[frame_ind].end_time = g_current_time
        /\ \/ /\ CallWorks
              /\ add_to_frame_queue(frame_ind)
              /\ frame_ind' = frame_ind + 1
              /\ UNCHANGED <<main_pc, result>>
           \/ /\ CallFails
              /\ MainError
              /\ UNCHANGED <<frame_queue, available_frame, frame_ind>>
     \/ /\ frame_table[frame_ind].end_time # g_current_time
        /\ CallWorks
        /\ frame_ind' = frame_ind + 1
        /\ UNCHANGED <<frame_queue, available_frame, main_pc, result>>
  /\ UNCHANGED <<page_table, frame_table, output, g_current_time, syncVars, thread_queue,
                 threadVars, current_row_ind, next_row, lines_left, last_end_time>>

ScanDone ==
  /\ MainGoto("scan", "release")
  /\ frame_ind = NumFrames
  /\ UNCHANGED <<tables, g_current_time, syncVars, thread_queue, threadVars, faults,
                 current_row_ind, next_row, lines_left, frame_ind, last_end_time, result>>

(* Variants: the head is woken and stays in the list; the head is woken    *)
(* although no frame may be left; the head is unlinked and not woken.      *)
ReleaseHead_NotUnlinked ==
  /\ MainGoto("release", "waitReleased")
  /\ thread_queue # <<>> /\ available_frame > 0
  /\ thread_semaphore' = [thread_semaphore EXCEPT ![Head(thread_queue)] = @ + 1]
  /\ mutex' = NoOwner
  /\ UNCHANGED <<tables, g_current_time, main_semaphore, thread_queue, threadVars, faults,
                 current_row_ind, next_row, lines_left, frame_ind, last_end_time, result>>

ReleaseHead_NoFrameNeeded ==
  /\ MainGoto("release", "waitReleased")
  /\ thread_queue # <<>> /\ available_frame >= 0
  /\ thread_semaphore' = [thread_semaphore EXCEPT ![Head(thread_queue)] = @ + 1]
  /\ thread_queue' = Tail(thread_queue)
  /\ mutex' = NoOwner
  /\ UNCHANGED <<tables, g_current_time, main_semaphore, threadVars, faults,
                 current_row_ind, next_row, lines_left, frame_ind, last_end_time, result>>

ReleaseHead_NotWoken ==
  /\ MainGoto("release", "waitReleased")
  /\ thread_queue # <<>> /\ available_frame > 0
  /\ thread_queue' = Tail(thread_queue)
  /\ mutex' = NoOwner
  /\ UNCHANGED <<tables, g_current_time, main_semaphore, thread_semaphore, threadVars, faults,
                 current_row_ind, next_row, lines_left, frame_ind, last_end_time, result>>

(* A round of release_waiting_threads: wake the head of the queue, unlink  *)
(* it, and release the mutex to let it in.  Main holds the mutex until the *)
(* end of the step, so nobody can act between its parts.                   *)
ReleaseHead ==
  /\ MainGoto("release", "waitReleased")
  /\ thread_queue # <<>> /\ available_frame > 0
  /\ thread_semaphore' = [thread_semaphore EXCEPT ![Head(thread_queue)] = @ + 1]
  /\ thread_queue' = Tail(thread_queue)
  /\ mutex' = NoOwner
  /\ UNCHANGED <<tables, g_current_time, main_semaphore, threadVars, faults,
                 current_row_ind, next_row, lines_left, frame_ind, last_end_time, result>>

(* Variant: main does not wait for the thread it woke.                     *)
ThreadReleased_NoWait ==
  /\ MainGoto("waitReleased", "relock")
  /\ UNCHANGED <<tables, g_current_time, syncVars, thread_queue, threadVars, faults,
                 current_row_ind, next_row, lines_left, frame_ind, last_end_time, result>>

ThreadReleased ==
  /\ MainGoto("waitReleased", "relock")
  /\ main_semaphore > 0
  /\ main_semaphore' = main_semaphore - 1
  /\ UNCHANGED <<tables, g_current_time, mutex, thread_semaphore, thread_queue,
                 threadVars, faults, current_row_ind, next_row, lines_left,
                 frame_ind, last_end_time, result>>

(* Variant: main goes on without waiting for the mutex.                    *)
RelockTables_NoWait ==
  /\ MainGoto("relock", "release")
  /\ mutex' = MainThread
  /\ UNCHANGED <<tables, g_current_time, main_semaphore, thread_semaphore, thread_queue,
                 threadVars, faults, current_row_ind, next_row, lines_left,
                 frame_ind, last_end_time, result>>

RelockTables ==
  /\ MainGoto("relock", "release")
  /\ mutex = NoOwner
  /\ mutex' = MainThread
  /\ UNCHANGED <<tables, g_current_time, main_semaphore, thread_semaphore, thread_queue,
                 threadVars, faults, current_row_ind, next_row, lines_left,
                 frame_ind, last_end_time, result>>

(* Nobody is left to wake, or no frame: release the mutex, advance time.   *)
Tick ==
  /\ MainGoto("release", "loop")
  /\ thread_queue = <<>> \/ available_frame =< 0
  /\ mutex' = NoOwner
  /\ g_current_time' = g_current_time + 1
  /\ UNCHANGED <<tables, main_semaphore, thread_semaphore, thread_queue, threadVars,
                 faults, current_row_ind, next_row, lines_left, frame_ind,
                 last_end_time, result>>

Ended(r) == thread_pc[r] \in {"success", "error", "terminated"}

(* WaitForMultipleObjects for all threads; it always fails when there are  *)
(* too many of them.                                                       *)
JoinThreads ==
  /\ main_pc = "join"
  /\ \/ /\ NumRows =< MaxWaitObjects
        /\ \A r \in Rows : Ended(r)
        /\ CallWorks
        /\ main_pc' = "findLast"
        /\ UNCHANGED result
     \/ /\ IF NumRows > MaxWaitObjects THEN CallWorks ELSE CallFails
        /\ MainError
  /\ frame_ind' = 0
  /\ UNCHANGED <<tables, g_current_time, syncVars, thread_queue, threadVars,
                 current_row_ind, next_row, lines_left, last_end_time>>

(* Variant: the second loop goes on from where the first one stopped.      *)
FindLastEndTime_NoReset ==
  /\ main_pc = "findLast"
  /\ \/ /\ frame_ind < NumFrames
        /\ last_end_time' = max(frame_table[frame_ind].end_time, last_end_time)
        /\ frame_ind' = frame_ind + 1
        /\ UNCHANGED main_pc
     \/ /\ frame_ind = NumFrames
        /\ main_pc' = "print"
        /\ UNCHANGED <<frame_ind, last_end_time>>
  /\ UNCHANGED <<tables, g_current_time, syncVars, thread_queue, threadVars, faults,
                 current_row_ind, next_row, lines_left, result>>

FindLastEndTime ==
  /\ main_pc = "findLast"
  /\ \/ /\ frame_ind < NumFrames
        /\ last_end_time' = max(frame_table[frame_ind].end_time, last_end_time)
        /\ frame_ind' = frame_ind + 1
        /\ UNCHANGED main_pc
     \/ /\ frame_ind = NumFrames
        /\ frame_ind' = 0
        /\ main_pc' = "print"
        /\ UNCHANGED last_end_time
  /\ UNCHANGED <<tables, g_current_time, syncVars, thread_queue, threadVars, faults,
                 current_row_ind, next_row, lines_left, result>>

(* The rest of print_remains_frames: every frame in use gives up its page. *)
PrintRemains ==
  /\ main_pc = "print"
  /\ \/ /\ frame_ind < NumFrames
        /\ LET f    == frame_ind
               line == Line(last_end_time, frame_table[f].page_number, f, "E")
           IN  \/ /\ frame_table[f].end_time # Unused
                  /\ \/ /\ CallWorks
                        /\ print_to_output_file(line, TRUE)
                        /\ frame_ind' = f + 1
                        /\ UNCHANGED <<main_pc, result>>
                     \/ /\ CallFails
                        /\ print_to_output_file(line, FALSE)
                        /\ MainError
                        /\ UNCHANGED frame_ind
               \/ /\ frame_table[f].end_time = Unused
                  /\ CallWorks
                  /\ frame_ind' = f + 1
                  /\ UNCHANGED <<output, main_pc, result>>
     \/ /\ frame_ind = NumFrames
        /\ CallWorks
        /\ main_pc' = "cleanup"
        /\ result' = "SUCCESS_CODE"
        /\ UNCHANGED <<output, frame_ind>>
  /\ UNCHANGED <<page_table, frame_table, frame_queue, available_frame, g_current_time,
                 syncVars, thread_queue, threadVars, current_row_ind, next_row,
                 lines_left, last_end_time>>

(* free_resource and close_handels: a thread that has not ended is         *)
(* terminated where it is; then the program exits.                         *)
Cleanup ==
  /\ MainGoto("cleanup", "exited")
  /\ thread_pc' = [r \in Rows |-> IF Ended(r) \/ thread_pc[r] = "none"
                                  THEN thread_pc[r] ELSE "terminated"]
  /\ UNCHANGED <<tables, g_current_time, syncVars, thread_queue, thread_input,
                 update_table, faults, current_row_ind, next_row, lines_left,
                 frame_ind, last_end_time, result>>

Main ==
  \/ LoopEnds \/ OrderError \/ NoRowNow \/ SpawnRow \/ MoveToNextRow
  \/ LockTables \/ ScanFrame \/ ScanDone
  \/ ReleaseHead \/ ThreadReleased \/ RelockTables \/ Tick
  \/ JoinThreads \/ FindLastEndTime \/ PrintRemains \/ Cleanup

-----------------------------------------------------------------------------
ThreadGoto(r, from, to) ==
  /\ thread_pc[r] = from
  /\ thread_pc' = [thread_pc EXCEPT ![r] = to]

Enter(r) ==
  /\ ThreadGoto(r, "enter", "place")
  /\ mutex = NoOwner
  /\ mutex' = r
  /\ UNCHANGED <<tables, g_current_time, main_semaphore, thread_semaphore, thread_queue,
                 mainVars, thread_input, update_table, faults>>

Page(r) == thread_input[r].virtual_page_num
CallTime(r) == thread_input[r].call_time
WorkTime(r) == thread_input[r].work_time

(* The page is resident already.                                           *)
UseResidentPage(r) ==
  /\ ThreadGoto(r, "place", "unlock")
  /\ page_table[Page(r)].valid
  /\ update_frame_in_table(Page(r), CallTime(r), WorkTime(r), g_current_time)
  /\ update_table' = [update_table EXCEPT ![r] = TRUE]
  /\ UNCHANGED <<g_current_time, syncVars, thread_queue, mainVars, thread_input, faults>>

(* An empty frame takes the page.  When its line cannot be written the     *)
(* thread returns at once: it keeps the mutex and signals nobody.          *)
UseEmptyFrame(r) ==
  /\ thread_pc[r] = "place"
  /\ ~page_table[Page(r)].valid
  /\ EmptyFrames # {}
  /\ \/ /\ CallWorks
        /\ update_empty_frame(Page(r), CallTime(r), WorkTime(r), TRUE)
        /\ update_table' = [update_table EXCEPT ![r] = TRUE]
        /\ thread_pc' = [thread_pc EXCEPT ![r] = "unlock"]
     \/ /\ CallFails
        /\ update_empty_frame(Page(r), CallTime(r), WorkTime(r), FALSE)
        /\ thread_pc' = [thread_pc EXCEPT ![r] = "error"]
        /\ UNCHANGED update_table
  /\ UNCHANGED <<g_current_time, syncVars, thread_queue, mainVars, thread_input>>

(* Variant: a new cell becomes the head of the list.                       *)
add_to_thread_queue_Lifo(r) == thread_queue' = <<r>> \o thread_queue

add_to_thread_queue(r) == thread_queue' = Append(thread_queue, r)

(* No frame is empty: wait.  Without memory for the cell the thread        *)
(* returns, again with the mutex and without a signal.                     *)
WaitForFrame(r) ==
  /\ thread_pc[r] = "place"
  /\ ~page_table[Page(r)].valid
  /\ EmptyFrames = {}
  /\ \/ /\ CallWorks
        /\ add_to_thread_queue(r)
        /\ thread_pc' = [thread_pc EXCEPT ![r] = "unlock"]
     \/ /\ CallFails
        /\ thread_pc' = [thread_pc EXCEPT ![r] = "error"]
        /\ UNCHANGED thread_queue
  /\ UNCHANGED <<tables, g_current_time, syncVars, mainVars, thread_input, update_table>>

Unlock(r) ==
  /\ ThreadGoto(r, "unlock", "signal")
  /\ mutex' = NoOwner
  /\ UNCHANGED <<tables, g_current_time, main_semaphore, thread_semaphore, thread_queue,
                 mainVars, thread_input, update_table, faults>>

SignalMain(r) ==
  /\ ThreadGoto(r, "signal", IF update_table[r] THEN "success" ELSE "waitTurn")
  /\ main_semaphore' = main_semaphore + 1
  /\ UNCHANGED <<tables, g_current_time, mutex, thread_semaphore, thread_queue,
                 mainVars, thread_input, update_table, faults>>

TakeTurn(r) ==
  /\ ThreadGoto(r, "waitTurn", "reenter")
  /\ thread_semaphore[r] > 0
  /\ thread_semaphore' = [thread_semaphore EXCEPT ![r] = @ - 1]
  /\ UNCHANGED <<tables, g_current_time, mutex, main_semaphore, thread_queue,
                 mainVars, thread_input, update_table, faults>>

Reenter(r) ==
  /\ ThreadGoto(r, "reenter", "evict")
  /\ mutex = NoOwner
  /\ mutex' = r
  /\ UNCHANGED <<tables, g_current_time, main_semaphore, thread_semaphore, thread_queue,
                 mainVars, thread_input, update_table, faults>>

(* Another thread has brought the page in meanwhile.                       *)
UsePageBroughtIn(r) ==
  /\ ThreadGoto(r, "evict", "resignal")
  /\ page_table[Page(r)].valid
  /\ update_frame_in_table(Page(r), CallTime(r), WorkTime(r), g_current_time)
  /\ UNCHANGED <<g_current_time, syncVars, thread_queue, mainVars, thread_input,
                 update_table, faults>>

EvictAndPlace(r) ==
  /\ ThreadGoto(r, "evict", "resignal")
  /\ ~page_table[Page(r)].valid
  /\ \E eWritten, pWritten \in BOOLEAN :
       /\ faults' = faults + (IF eWritten THEN 0 ELSE 1) + (IF pWritten THEN 0 ELSE 1)
       /\ faults' =< MaxFaults
       /\ evicte_and_place(CallTime(r), WorkTime(r), Page(r), eWritten, pWritten)
  /\ UNCHANGED <<g_current_time, syncVars, thread_queue, mainVars, thread_input, update_table>>

SignalMainAgain(r) ==
  /\ ThreadGoto(r, "resignal", "reunlock")
  /\ main_semaphore' = main_semaphore + 1
  /\ UNCHANGED <<tables, g_current_time, mutex, thread_semaphore, thread_queue,
                 mainVars, thread_input, update_table, faults>>

(* Variant: the signal is given once more.                                 *)
UnlockAgain_SignalsToo(r) ==
  /\ ThreadGoto(r, "reunlock", "success")
  /\ mutex' = NoOwner
  /\ main_semaphore' = main_semaphore + 1
  /\ UNCHANGED <<tables, g_current_time, thread_semaphore, thread_queue,
                 mainVars, thread_input, update_table, faults>>

UnlockAgain(r) ==
  /\ ThreadGoto(r, "reunlock", "success")
  /\ mutex' = NoOwner
  /\ UNCHANGED <<tables, g_current_time, main_semaphore, thread_semaphore, thread_queue,
                 mainVars, thread_input, update_table, faults>>

Thread(r) ==
  \/ Enter(r) \/ UseResidentPage(r) \/ UseEmptyFrame(r) \/ WaitForFrame(r)
  \/ Unlock(r) \/ SignalMain(r) \/ TakeTurn(r) \/ Reenter(r)
  \/ UsePageBroughtIn(r) \/ EvictAndPlace(r) \/ SignalMainAgain(r) \/ UnlockAgain(r)

(* After exit the process is gone; the step only keeps TLC from reporting  *)
(* the end of the program as a deadlock.                                   *)
Exited == main_pc = "exited" /\ UNCHANGED vars

Next == Main \/ (\E r \in Rows : Thread(r)) \/ Exited

(* The scheduler runs every thread that can run: Windows starves none of   *)
(* them for ever, and its waits return once the object is signalled.       *)
Fairness == WF_vars(Main) /\ \A r \in Rows : WF_vars(Thread(r))

Spec     == Init /\ [][Next]_vars
FairSpec == Spec /\ Fairness
=============================================================================
