----------------------------- MODULE SchoolPool -----------------------------
(***************************************************************************)
(* Ex2: main starts a thread for every school.  At most MAX_NUM_OF_THREADS *)
(* handles are kept; once they are all in use, main waits until one of the *)
(* threads ends and gives its place to the next school.  In the end it     *)
(* waits for all that remain and reports whether they failed.              *)
(***************************************************************************)
EXTENDS Integers, Sequences, FiniteSets

CONSTANTS
  g_num_schools,
  MAX_NUM_OF_THREADS,
  MaxFailures            \* bound: threads that cannot be created

ASSUME SchoolPoolAssumption ==
  g_num_schools \in Nat /\ MAX_NUM_OF_THREADS \in Nat \ {0} /\ MaxFailures \in Nat

School == 0 .. g_num_schools - 1

VARIABLES
  handle_arr,     \* the schools whose threads' handles main keeps
  school,         \* the next school
  closed,         \* how many of them were closed at the end
  thread,         \* what became of each school's thread
  failures,
  main_pc,
  return_val      \* of main

vars == <<handle_arr, closed, school, thread, failures, main_pc, return_val>>

Init ==
  /\ handle_arr = <<>>
  /\ closed = 0
  /\ school = 0
  /\ thread = [s \in School |-> "none"]
  /\ failures = 0
  /\ main_pc = "create"
  /\ return_val = "none"

Ended(s) == thread[s] \in {"SUCCESS_CODE", "ERROR_CODE", "terminated"}
-----------------------------------------------------------------------------
(* create_new_school_thread                                                *)

StartIn(handles) ==
  /\ handle_arr' = handles
  /\ thread' = [thread EXCEPT ![school] = "running"]
  /\ school' = school + 1
  /\ UNCHANGED <<closed, failures, main_pc, return_val>>

place_left == Len(handle_arr) < MAX_NUM_OF_THREADS

CreateThread ==
  /\ main_pc = "create" /\ school < g_num_schools
  /\ place_left
  /\ StartIn(Append(handle_arr, school))

(* Which handle WaitForMultipleObjects returns: the first one that is      *)
(* signaled.                                                               *)
(* Variant: the first one.                                                 *)
signaled_First(k) == k = 1
signaled(k) == Ended(handle_arr[k]) /\ \A j \in 1 .. k - 1 : ~Ended(handle_arr[j])

(* An error of the thread that ended is printed and forgotten.             *)
ReuseHandle ==
  /\ main_pc = "create" /\ school < g_num_schools
  /\ ~place_left
  /\ \E k \in DOMAIN handle_arr :
       signaled(k) /\ StartIn([handle_arr EXCEPT ![k] = school])

(* CreateThreadSimple ends the program when there is no thread to be had.  *)
CreateFails ==
  /\ main_pc = "create" /\ school < g_num_schools
  /\ place_left \/ \E k \in DOMAIN handle_arr : signaled(k)
  /\ failures < MaxFailures
  /\ failures' = failures + 1
  /\ main_pc' = "exit"
  /\ return_val' = "ERROR_CODE"
  /\ thread' = [s \in School |-> IF thread[s] = "running" THEN "terminated" ELSE thread[s]]
  /\ UNCHANGED <<handle_arr, closed, school>>
-----------------------------------------------------------------------------
(* wait_for_remain_schools                                                 *)

(* Variant: one thread that ended is enough.                               *)
all_signaled_Any == \E k \in DOMAIN handle_arr : Ended(handle_arr[k])
all_signaled == \A k \in DOMAIN handle_arr : Ended(handle_arr[k])

(* The wait for no handle at all fails.                                    *)
WaitForRemainSchools ==
  /\ main_pc = "create" /\ school = g_num_schools
  /\ handle_arr = <<>> \/ all_signaled
  /\ return_val' = IF handle_arr = <<>> THEN "ERROR_CODE" ELSE "SUCCESS_CODE"
  /\ main_pc' = "close"
  /\ UNCHANGED <<handle_arr, closed, school, thread, failures>>

new_return_val(code) == IF code = "SUCCESS_CODE" THEN return_val ELSE "ERROR_CODE"

(* The exit code of each handle, one after the other; a thread that still  *)
(* runs is terminated.                                                     *)
CloseHandle ==
  /\ main_pc = "close" /\ closed < Len(handle_arr)
  /\ closed' = closed + 1
  /\ LET s == handle_arr[closed'] IN
     /\ thread' = [thread EXCEPT ![s] = IF Ended(s) THEN @ ELSE "terminated"]
     /\ return_val' = new_return_val(thread[s])
  /\ UNCHANGED <<handle_arr, school, failures, main_pc>>

Exit ==
  /\ main_pc = "close" /\ closed = Len(handle_arr)
  /\ main_pc' = "exit"
  /\ UNCHANGED <<handle_arr, closed, school, thread, failures, return_val>>
-----------------------------------------------------------------------------
(* school_thread returns, with the result of school_function.              *)
ThreadEnds(s) ==
  /\ thread[s] = "running"
  /\ \E code \in {"SUCCESS_CODE", "ERROR_CODE"} : thread' = [thread EXCEPT ![s] = code]
  /\ UNCHANGED <<handle_arr, closed, school, failures, main_pc, return_val>>

Stopped == main_pc = "exit" /\ UNCHANGED vars

Next ==
  \/ CreateThread \/ ReuseHandle \/ CreateFails \/ WaitForRemainSchools \/ CloseHandle \/ Exit
  \/ \E s \in School : ThreadEnds(s)
  \/ Stopped

Spec == Init /\ [][Next]_vars
-----------------------------------------------------------------------------
(* Main has a handle of every thread that runs, each at one place: it can  *)
(* wait for all of them, and no more than MAX_NUM_OF_THREADS run at once.  *)
RunningHasHandle ==
  /\ Len(handle_arr) <= MAX_NUM_OF_THREADS
  /\ \A s \in School : thread[s] = "running" =>
       \E k \in DOMAIN handle_arr :
         handle_arr[k] = s /\ \A j \in DOMAIN handle_arr \ {k} : handle_arr[j] # s

(* No school is cut off half way, unless the program gives up for want of  *)
(* a thread: whatever main reports, every school's thread came to its end, *)
(* and success means that none of the threads main waited for at the end   *)
(* had failed.                                                             *)
EverySchoolEnds ==
  main_pc = "exit" /\ failures = 0 =>
    /\ \A s \in School : thread[s] \in {"SUCCESS_CODE", "ERROR_CODE"}
    /\ return_val = "SUCCESS_CODE" =>
         \A k \in DOMAIN handle_arr : thread[handle_arr[k]] = "SUCCESS_CODE"
=============================================================================
