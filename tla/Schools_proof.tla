--------------------------- MODULE Schools_proof ---------------------------
(***************************************************************************)
(* Proofs about Ex2: the threads of the schools, for any number of schools *)
(* and of handles, and the grades that one of them computes, for any       *)
(* number of files, weights and rows.                                      *)
(***************************************************************************)
EXTENDS SchoolPool, GradeReader, SequenceTheorems, WellFoundedInduction, TLAPS

(***************************************************************************)
(* The threads of the schools                                              *)
(***************************************************************************)
TypeOK ==
  /\ handle_arr \in Seq(School)
  /\ school \in 0 .. g_num_schools
  /\ closed \in 0 .. Len(handle_arr)
  /\ thread \in [School -> {"none", "running", "SUCCESS_CODE", "ERROR_CODE", "terminated"}]
  /\ failures \in Nat
  /\ main_pc \in {"create", "close", "exit"}
  /\ return_val \in {"none", "SUCCESS_CODE", "ERROR_CODE"}

(* The handles are those of different schools that were started, and no    *)
(* thread runs without one.                                                *)
Handles ==
  /\ Len(handle_arr) <= MAX_NUM_OF_THREADS
  /\ \A j, k \in DOMAIN handle_arr : handle_arr[j] = handle_arr[k] => j = k
  /\ \A k \in DOMAIN handle_arr : handle_arr[k] < school
  /\ \A s \in School : thread[s] = "none" <=> school <= s
  /\ \A s \in School : thread[s] = "running" => \E k \in DOMAIN handle_arr : handle_arr[k] = s

(* A failed creation ends the program; without one, no thread is           *)
(* terminated, and main closes handles of threads that ended.              *)
Orderly ==
  /\ main_pc = "create" => closed = 0
  /\ failures > 0 => main_pc = "exit"
  /\ failures = 0 => \A s \in School : thread[s] # "terminated"
  /\ main_pc # "create" /\ failures = 0 =>
       /\ school = g_num_schools
       /\ \A k \in DOMAIN handle_arr : Ended(handle_arr[k])
       /\ return_val = "SUCCESS_CODE" =>
            \A k \in 1 .. closed : thread[handle_arr[k]] = "SUCCESS_CODE"
  /\ main_pc = "exit" /\ failures = 0 => closed = Len(handle_arr)

PoolInv == TypeOK /\ Handles /\ Orderly
-----------------------------------------------------------------------------
LEMMA InitPool == Init => PoolInv
<1> SUFFICES ASSUME Init PROVE PoolInv
  OBVIOUS
<1>1. TypeOK
  BY SchoolPoolAssumption DEF SchoolPoolAssumption, Init, TypeOK
<1>2. Handles
  BY SchoolPoolAssumption DEF SchoolPoolAssumption, Init, Handles, School
<1>3. Orderly
  BY DEF Init, Orderly
<1>4. QED BY <1>1, <1>2, <1>3 DEF PoolInv

(* The next school's thread is in none of the handles yet.                 *)
LEMMA NextSchoolIsNew ==
  ASSUME PoolInv, school < g_num_schools
  PROVE  /\ school \in School /\ thread[school] = "none"
         /\ \A k \in DOMAIN handle_arr : handle_arr[k] # school
  BY SchoolPoolAssumption
     DEF SchoolPoolAssumption, PoolInv, TypeOK, Handles, School

(* A thread that starts, whatever place its handle takes.                  *)
LEMMA StartKeeps ==
  ASSUME PoolInv, main_pc = "create", school < g_num_schools,
         NEW handles \in Seq(School), NEW k \in DOMAIN handles, StartIn(handles),
         Len(handle_arr) <= Len(handles), Len(handles) <= MAX_NUM_OF_THREADS,
         handles[k] = school,
         \A p \in DOMAIN handles \ {k} : p \in DOMAIN handle_arr /\ handles[p] = handle_arr[p],
         \A p \in DOMAIN handle_arr : p \in DOMAIN handles,
         k \in DOMAIN handle_arr => Ended(handle_arr[k])
  PROVE  PoolInv'
<1>1. school \in School /\ thread[school] = "none"
      /\ \A p \in DOMAIN handle_arr : handle_arr[p] # school
  BY NextSchoolIsNew
<1>2. TypeOK'
  BY <1>1, SchoolPoolAssumption
     DEF SchoolPoolAssumption, PoolInv, TypeOK, StartIn, School
<1>3. school' = school + 1 /\ school \in Nat
  BY DEF StartIn, PoolInv, TypeOK
<1>4. thread'[school] = "running" /\ \A s \in School \ {school} : thread'[s] = thread[s]
  BY <1>1 DEF StartIn, PoolInv, TypeOK
<1>5. Handles'
  <2>1. Len(handle_arr') <= MAX_NUM_OF_THREADS
    BY DEF StartIn
  <2>2. (\A p, j \in DOMAIN handle_arr : handle_arr[p] = handle_arr[j] => p = j)'
    BY <1>1 DEF StartIn, PoolInv, Handles
  <2>3. (\A p \in DOMAIN handle_arr : handle_arr[p] < school)'
    <3>1. ASSUME NEW p \in DOMAIN handles PROVE handles[p] < school + 1
      <4>1. CASE p = k
        BY <1>3, <4>1
      <4>2. CASE p # k
        <5>1. p \in DOMAIN handle_arr /\ handles[p] = handle_arr[p] /\ handle_arr[p] < school
          BY <4>2 DEF PoolInv, Handles
        <5>2. handle_arr[p] \in Int
          <6>1. handle_arr \in Seq(School)
            BY DEF PoolInv, TypeOK
          <6>2. handle_arr[p] \in School
            BY <5>1, <6>1
          <6>3. QED BY <6>2 DEF School
        <5>3. QED BY <1>3, <5>1, <5>2
      <4>3. QED BY <4>1, <4>2
    <3>2. QED BY <3>1 DEF StartIn
  <2>4. (\A s \in School : thread[s] = "none" <=> school <= s)'
    BY <1>1, <1>3, <1>4 DEF PoolInv, Handles, School
  <2>5. (\A s \in School : thread[s] = "running" =>
           \E p \in DOMAIN handle_arr : handle_arr[p] = s)'
    <3>1. ASSUME NEW s \in School, thread'[s] = "running", s # school
          PROVE  \E p \in DOMAIN handles : handles[p] = s
      <4>1. thread[s] = "running"
        BY <1>4, <3>1
      <4>2. PICK p \in DOMAIN handle_arr : handle_arr[p] = s
        BY <4>1 DEF PoolInv, Handles
      <4>3. p # k
        BY <4>1, <4>2 DEF Ended
      <4>4. QED BY <4>2, <4>3
    <3>2. QED BY <3>1 DEF StartIn
  <2>6. QED BY <2>1, <2>2, <2>3, <2>4, <2>5 DEF Handles
<1>6. Orderly'
  BY <1>1, <1>4 DEF StartIn, PoolInv, Orderly
<1>7. QED BY <1>2, <1>5, <1>6 DEF PoolInv

LEMMA CreateThreadKeeps == ASSUME PoolInv, CreateThread PROVE PoolInv'
<1> DEFINE handles == Append(handle_arr, school)
<1>1. school \in School /\ handle_arr \in Seq(School)
  BY NextSchoolIsNew DEF CreateThread, PoolInv, TypeOK
<1>2. /\ handles \in Seq(School) /\ Len(handle_arr) \in Nat
      /\ Len(handles) = Len(handle_arr) + 1
      /\ DOMAIN handles = 1 .. Len(handle_arr) + 1
      /\ DOMAIN handle_arr = 1 .. Len(handle_arr)
      /\ handles[Len(handle_arr) + 1] = school
      /\ \A p \in 1 .. Len(handle_arr) : handles[p] = handle_arr[p]
  BY <1>1
<1>3. Len(handles) <= MAX_NUM_OF_THREADS
  BY <1>2, SchoolPoolAssumption DEF SchoolPoolAssumption, CreateThread, place_left
<1>4. main_pc = "create" /\ school < g_num_schools /\ StartIn(handles)
  BY DEF CreateThread
<1> HIDE DEF handles
<1>5. QED BY <1>2, <1>3, <1>4, StartKeeps

LEMMA ReuseHandleKeeps == ASSUME PoolInv, ReuseHandle PROVE PoolInv'
<1>1. school \in School /\ handle_arr \in Seq(School)
  BY NextSchoolIsNew DEF ReuseHandle, PoolInv, TypeOK
<1>2. PICK k \in DOMAIN handle_arr : signaled(k) /\ StartIn([handle_arr EXCEPT ![k] = school])
  BY DEF ReuseHandle
<1> DEFINE handles == [handle_arr EXCEPT ![k] = school]
<1>3. /\ handles \in Seq(School) /\ Len(handle_arr) \in Nat
      /\ Len(handles) = Len(handle_arr)
      /\ DOMAIN handles = DOMAIN handle_arr
      /\ handles[k] = school
      /\ \A p \in DOMAIN handle_arr \ {k} : handles[p] = handle_arr[p]
  BY <1>1
<1>4. /\ main_pc = "create" /\ school < g_num_schools /\ StartIn(handles)
      /\ Len(handles) <= MAX_NUM_OF_THREADS /\ Ended(handle_arr[k])
  BY <1>2, <1>3 DEF ReuseHandle, signaled, PoolInv, Handles
<1> HIDE DEF handles
<1>5. QED BY <1>2, <1>3, <1>4, StartKeeps

LEMMA CreateFailsKeeps == ASSUME PoolInv, CreateFails PROVE PoolInv'
<1>1. TypeOK'
  BY SchoolPoolAssumption DEF SchoolPoolAssumption, PoolInv, TypeOK, CreateFails
<1>2. \A s \in School :
        thread'[s] # "running" /\ (thread'[s] = "none" <=> thread[s] = "none")
  BY DEF PoolInv, TypeOK, CreateFails
<1>3. Handles'
  BY <1>2 DEF PoolInv, Handles, CreateFails
<1>4. Orderly'
  BY DEF PoolInv, TypeOK, Orderly, CreateFails
<1>5. QED BY <1>1, <1>3, <1>4 DEF PoolInv

LEMMA WaitForRemainSchoolsKeeps == ASSUME PoolInv, WaitForRemainSchools PROVE PoolInv'
<1>1. TypeOK'
  BY DEF PoolInv, TypeOK, WaitForRemainSchools
<1>2. Handles'
  BY DEF PoolInv, Handles, WaitForRemainSchools
<1>3. Orderly'
  <2>1. \A k \in DOMAIN handle_arr : Ended(handle_arr[k])
    BY DEF WaitForRemainSchools, all_signaled
  <2>2. return_val' = "SUCCESS_CODE" => handle_arr # <<>>
    BY DEF WaitForRemainSchools
  <2>3. closed = 0
    BY DEF PoolInv, Orderly, WaitForRemainSchools
  <2>4. QED BY <2>1, <2>3 DEF PoolInv, TypeOK, Orderly, WaitForRemainSchools, Ended
<1>4. QED BY <1>1, <1>2, <1>3 DEF PoolInv

LEMMA CloseHandleKeeps == ASSUME PoolInv, CloseHandle PROVE PoolInv'
<1>1. /\ closed' = closed + 1 /\ closed' \in DOMAIN handle_arr
      /\ UNCHANGED <<handle_arr, school, failures, main_pc>> /\ main_pc = "close"
  BY DEF PoolInv, TypeOK, CloseHandle
<1>2. failures = 0 /\ Ended(handle_arr[closed'])
  BY <1>1 DEF PoolInv, Orderly, TypeOK
<1>3. handle_arr[closed'] \in School
  BY <1>1 DEF PoolInv, TypeOK
<1>4. UNCHANGED thread /\ return_val' = new_return_val(thread[handle_arr[closed']])
  BY <1>2, <1>3 DEF CloseHandle, PoolInv, TypeOK
<1>5. TypeOK'
  BY <1>1, <1>4 DEF PoolInv, TypeOK, new_return_val
<1>6. Handles'
  BY <1>1, <1>4 DEF PoolInv, Handles
<1>7. Orderly'
  <2>1. return_val' = "SUCCESS_CODE" =>
          return_val = "SUCCESS_CODE" /\ thread[handle_arr[closed']] = "SUCCESS_CODE"
    BY <1>4 DEF new_return_val
  <2>2. \A k \in 1 .. closed' : k \in 1 .. closed \/ k = closed'
    BY <1>1 DEF PoolInv, TypeOK
  <2>3. QED BY <1>1, <1>2, <1>4, <2>1, <2>2 DEF PoolInv, Orderly, Ended
<1>8. QED BY <1>5, <1>6, <1>7 DEF PoolInv

LEMMA ThreadEndsKeeps ==
  ASSUME PoolInv, NEW s \in School, ThreadEnds(s)
  PROVE  PoolInv'
<1>1. PICK code \in {"SUCCESS_CODE", "ERROR_CODE"} : thread' = [thread EXCEPT ![s] = code]
  BY DEF ThreadEnds
<1>2. /\ thread[s] = "running" /\ thread'[s] = code
      /\ \A r \in School \ {s} : thread'[r] = thread[r]
      /\ UNCHANGED <<handle_arr, closed, school, failures, main_pc, return_val>>
  BY <1>1 DEF PoolInv, TypeOK, ThreadEnds
<1>3. TypeOK'
  BY <1>1, <1>2 DEF PoolInv, TypeOK
<1>4. Handles'
  BY <1>2 DEF PoolInv, Handles
<1>5. Orderly'
  <2>1. main_pc = "create" \/ failures > 0
    BY <1>2 DEF PoolInv, TypeOK, Handles, Orderly, Ended
  <2>2. failures > 0 => failures # 0
    BY DEF PoolInv, TypeOK
  <2>3. QED BY <1>2, <2>1, <2>2 DEF PoolInv, Orderly
<1>6. QED BY <1>3, <1>4, <1>5 DEF PoolInv
-----------------------------------------------------------------------------
LEMMA NextPool == PoolInv /\ [Next]_vars => PoolInv'
<1> SUFFICES ASSUME PoolInv, [Next]_vars PROVE PoolInv'
  OBVIOUS
<1>1. CASE CreateThread
  BY <1>1, CreateThreadKeeps
<1>2. CASE ReuseHandle
  BY <1>2, ReuseHandleKeeps
<1>3. CASE CreateFails
  BY <1>3, CreateFailsKeeps
<1>4. CASE WaitForRemainSchools
  BY <1>4, WaitForRemainSchoolsKeeps
<1>5. CASE CloseHandle
  BY <1>5, CloseHandleKeeps
<1>6. CASE Exit
  BY <1>6 DEF Exit, PoolInv, TypeOK, Handles, Orderly, Ended
<1>7. CASE \E s \in School : ThreadEnds(s)
  BY <1>7, ThreadEndsKeeps
<1>8. CASE UNCHANGED vars
  BY <1>8 DEF vars, PoolInv, TypeOK, Handles, Orderly, Ended
<1>9. QED BY <1>1, <1>2, <1>3, <1>4, <1>5, <1>6, <1>7, <1>8 DEF Next, Stopped

(* The handles and the threads agree at every step.                        *)
THEOREM PoolInvariant == Spec => []PoolInv
  BY InitPool, NextPool, PTL DEF Spec

(* Every thread that runs has its handle, at one place, and there are      *)
(* never more than MAX_NUM_OF_THREADS.                                     *)
THEOREM RunningHasHandleHolds == Spec => []RunningHasHandle
<1>1. PoolInv => RunningHasHandle
  BY DEF PoolInv, TypeOK, Handles, RunningHasHandle
<1>2. QED BY <1>1, PoolInvariant, PTL

(* Unless a thread could not be created, main exits only when the thread   *)
(* of every school has ended by itself, and main's success is theirs.      *)
THEOREM EverySchoolEndsHolds == Spec => []EverySchoolEnds
<1>1. ASSUME PoolInv PROVE EverySchoolEnds
  <2> SUFFICES ASSUME main_pc = "exit", failures = 0
               PROVE  /\ \A s \in School : thread[s] \in {"SUCCESS_CODE", "ERROR_CODE"}
                      /\ return_val = "SUCCESS_CODE" =>
                           \A k \in DOMAIN handle_arr : thread[handle_arr[k]] = "SUCCESS_CODE"
    BY DEF EverySchoolEnds
  <2>1. \A k \in DOMAIN handle_arr : Ended(handle_arr[k])
    BY <1>1 DEF PoolInv, Orderly
  <2>2. ASSUME NEW s \in School PROVE thread[s] \in {"SUCCESS_CODE", "ERROR_CODE"}
    <3>1. thread[s] # "none"
      BY <1>1, SchoolPoolAssumption
         DEF SchoolPoolAssumption, PoolInv, TypeOK, Handles, Orderly, School
    <3>2. thread[s] # "running"
      BY <1>1, <2>1 DEF PoolInv, Handles, Ended
    <3>3. thread[s] # "terminated"
      BY <1>1 DEF PoolInv, Orderly
    <3>4. QED BY <1>1, <3>1, <3>2, <3>3 DEF PoolInv, TypeOK
  <2>3. DOMAIN handle_arr = 1 .. closed
    BY <1>1 DEF PoolInv, TypeOK, Orderly
  <2>4. QED BY <1>1, <2>2, <2>3 DEF PoolInv, Orderly
<1>2. QED BY <1>1, PoolInvariant, PTL
-----------------------------------------------------------------------------
(***************************************************************************)
(* The grades of one school.  tlapm knows no induction, so that a fact     *)
(* about every number is proved from a least number that refutes it.       *)
(***************************************************************************)
(* Induction: a set of naturals without a least element is empty.          *)
LEMMA LeastNatural ==
  ASSUME NEW T, T \subseteq Nat, T # {}
  PROVE  \E n \in T : \A m \in Nat : m < n => m \notin T
<1> DEFINE R == {ss \in Nat \X Nat : ss[1] < ss[2]}
<1>1. IsWellFoundedOn(R, Nat)
  BY NatLessThanWellFounded DEF OpToRel
<1>2. \A x, y \in Nat : <<y, x>> \in R <=> y < x
  OBVIOUS
<1> HIDE DEF R
<1>3. PICK n \in T : \A y \in T : ~(<<y, n>> \in R)
  BY <1>1, WFMin
<1>4. QED BY <1>2, <1>3
-----------------------------------------------------------------------------
(* What the recursive definitions compute                                  *)

(* The sum up to file m satisfies its equation.                            *)
sums_to(sum, m, files, n) ==
  sum = [f \in 0 .. m |-> IF f = 0 THEN 0 ELSE sum[f - 1] + files[f][n] * Weight[f]]

LEMMA SumExists ==
  ASSUME NEW files, NEW n
  PROVE  \A m \in Nat : \E sum : sums_to(sum, m, files, n)
<1> DEFINE T == {m \in Nat : ~\E sum : sums_to(sum, m, files, n)}
<1> SUFFICES ASSUME T # {} PROVE FALSE
  OBVIOUS
<1>1. PICK m \in T : \A k \in Nat : k < m => k \notin T
  BY LeastNatural
<1>2. CASE m = 0
  <2> DEFINE g == [f \in 0 .. 0 |-> 0]
  <2>1. g = [f \in 0 .. 0 |-> IF f = 0 THEN 0 ELSE g[f - 1] + files[f][n] * Weight[f]]
    OBVIOUS
  <2>2. sums_to(g, 0, files, n)
    BY <2>1 DEF sums_to
  <2>3. QED BY <1>2, <2>2
<1>3. CASE m # 0
  <2>1. m \in Nat /\ m - 1 \in Nat /\ m - 1 < m
    BY <1>3
  <2>2. PICK g : sums_to(g, m - 1, files, n)
    BY <1>1, <2>1
  <2> DEFINE h == [f \in 0 .. m |-> IF f = 0 THEN 0 ELSE g[f - 1] + files[f][n] * Weight[f]]
  <2>3. \A f \in 0 .. m - 1 : g[f] = h[f]
    <3>1. \A f \in 0 .. m - 1 : g[f] = IF f = 0 THEN 0 ELSE g[f - 1] + files[f][n] * Weight[f]
      BY <2>2, <2>1 DEF sums_to
    <3>2. \A f \in 0 .. m - 1 : f \in 0 .. m
      BY <2>1
    <3>3. QED BY <3>1, <3>2
  <2>4. \A f \in 0 .. m : f # 0 => g[f - 1] = h[f - 1]
    <3> HIDE DEF h
    <3> QED BY <2>1, <2>3
  <2>5. h = [f \in 0 .. m |-> IF f = 0 THEN 0 ELSE h[f - 1] + files[f][n] * Weight[f]]
    BY <2>4
  <2>6. sums_to(h, m, files, n)
    BY <2>5 DEF sums_to
  <2>7. QED BY <2>6, <1>1
<1>4. QED BY <1>2, <1>3

LEMMA TotalEquation ==
  ASSUME NEW files, NEW n, NEW f \in 0 .. NUM_OF_GRADE_COMPONENTS
  PROVE  total(files, n)[f] = IF f = 0 THEN 0 ELSE total(files, n)[f - 1] + files[f][n] * Weight[f]
<1>1. \E sum : sums_to(sum, NUM_OF_GRADE_COMPONENTS, files, n)
  BY SumExists, GradeReaderAssumption DEF GradeReaderAssumption
<1>2. total(files, n) = CHOOSE sum : sums_to(sum, NUM_OF_GRADE_COMPONENTS, files, n)
  BY DEF total, sums_to
<1>3. sums_to(total(files, n), NUM_OF_GRADE_COMPONENTS, files, n)
  BY <1>1, <1>2
<1>4. QED BY <1>3 DEF sums_to

(* The text of a row and of those behind it, from a text of those behind.  *)
text_step(g, q) ==
  IF q = <<>> THEN <<>>
  ELSE LET line == digits(Head(q)) IN
       IF Tail(q) = <<>> /\ ~LastRowEnds THEN line
       ELSE line \o <<CR, LF>> \o g[Tail(q)]

up_to(n) == {q \in Seq(Grades) : Len(q) <= n}

is_text(g, n) ==
  /\ g \in [up_to(n) -> Seq(Nat)]
  /\ \A q \in up_to(n) : g[q] = text_step(g, q)

LEMMA DigitsType ==
  ASSUME NEW g \in Grades
  PROVE  /\ digits(g) \in Seq(Digit) /\ digits(g) \in Seq(Nat)
         /\ Len(digits(g)) \in 1 .. 3
<1>1. g \in 0 .. 100
  BY GradeReaderAssumption DEF GradeReaderAssumption
<1>2. g < 10 => 48 + g \in Digit
  BY <1>1 DEF Digit
<1>3. /\ g >= 10 => 48 + g \div 10 \in Nat /\ 48 + g \div 10 >= 48
      /\ g < 100 => 48 + g \div 10 <= 57
      /\ 48 + (g % 10) \in Digit
  BY <1>1 DEF Digit
<1>4. g >= 100 => /\ 48 + g \div 100 \in Digit
                  /\ 48 + ((g \div 10) % 10) \in Digit
  BY <1>1 DEF Digit
<1>5. \A a \in Digit : a \in Nat
  BY DEF Digit
<1>6. CASE g < 10
  BY <1>1, <1>2, <1>5, <1>6 DEF digits
<1>7. CASE g >= 10 /\ g < 100
  <2>1. 48 + g \div 10 \in Digit
    BY <1>3, <1>7 DEF Digit
  <2>2. digits(g) = <<48 + g \div 10, 48 + (g % 10)>>
    BY <1>1, <1>7 DEF digits
  <2>3. QED BY <2>1, <2>2, <1>3, <1>5
<1>8. CASE g >= 100
  <2>1. digits(g) = <<48 + g \div 100, 48 + ((g \div 10) % 10), 48 + (g % 10)>>
    BY <1>1, <1>8 DEF digits
  <2>2. QED BY <2>1, <1>3, <1>4, <1>5, <1>8
<1>9. QED BY <1>1, <1>6, <1>7, <1>8

LEMMA TailUpTo ==
  ASSUME NEW n \in Nat, NEW q \in up_to(n), q # <<>>
  PROVE  /\ n # 0 /\ Tail(q) \in up_to(n - 1) /\ Tail(q) \in up_to(n)
         /\ Head(q) \in Grades
<1>1. q \in Seq(Grades) /\ Len(q) <= n /\ Len(q) # 0 /\ Len(q) \in Nat
  BY EmptySeq, SeqEqual DEF up_to
<1>2. Tail(q) \in Seq(Grades) /\ Len(Tail(q)) = Len(q) - 1 /\ Head(q) \in Grades
  BY <1>1
<1>3. QED BY <1>1, <1>2 DEF up_to

LEMMA StepType ==
  ASSUME NEW n \in Nat, NEW g, NEW q \in up_to(n),
         q # <<>> => g[Tail(q)] \in Seq(Nat)
  PROVE  text_step(g, q) \in Seq(Nat)
<1>1. CASE q = <<>>
  BY <1>1 DEF text_step
<1>2. CASE q # <<>>
  <2>1. digits(Head(q)) \in Seq(Nat)
    BY <1>2, TailUpTo, DigitsType
  <2>2. <<CR, LF>> \in Seq(Nat)
    BY DEF CR, LF
  <2>3. digits(Head(q)) \o <<CR, LF>> \in Seq(Nat)
    BY <2>1, <2>2
  <2>4. digits(Head(q)) \o <<CR, LF>> \o g[Tail(q)] \in Seq(Nat)
    BY <2>3, <1>2
  <2>5. QED BY <1>2, <2>1, <2>4 DEF text_step
<1>3. QED BY <1>1, <1>2

LEMMA TextExists == \A n \in Nat : \E g : is_text(g, n)
<1> DEFINE T == {n \in Nat : ~\E g : is_text(g, n)}
<1> SUFFICES ASSUME T # {} PROVE FALSE
  OBVIOUS
<1>1. PICK n \in T : \A k \in Nat : k < n => k \notin T
  BY LeastNatural
<1>2. PICK g : \A q \in up_to(n) : q # <<>> =>
        /\ g[Tail(q)] \in Seq(Nat)
        /\ g[Tail(q)] = text_step(g, Tail(q))
  <2>1. CASE n = 0
    BY <2>1, TailUpTo
  <2>2. CASE n # 0
    <3>1. n - 1 \in Nat /\ n - 1 < n
      BY <2>2
    <3>2. PICK g : is_text(g, n - 1)
      BY <1>1, <3>1
    <3>3. QED BY <3>2, TailUpTo DEF is_text
  <2>3. QED BY <2>1, <2>2
<1> DEFINE h == [q \in up_to(n) |-> text_step(g, q)]
<1>3. \A q \in up_to(n) : h[q] = text_step(g, q)
  OBVIOUS
<1>4. h \in [up_to(n) -> Seq(Nat)]
  BY <1>2, StepType
<1> HIDE DEF h
<1>5. \A q \in up_to(n) : text_step(g, q) = text_step(h, q)
  <2> SUFFICES ASSUME NEW q \in up_to(n) PROVE text_step(g, q) = text_step(h, q)
    OBVIOUS
  <2>1. q # <<>> => h[Tail(q)] = g[Tail(q)]
    BY <1>2, <1>3, TailUpTo
  <2>2. QED BY <2>1 DEF text_step
<1>6. is_text(h, n)
  BY <1>3, <1>4, <1>5 DEF is_text
<1>7. QED BY <1>1, <1>6

(* Two texts of the same rows agree.                                       *)
LEMMA TextUnique ==
  ASSUME NEW g, NEW h, NEW m \in Nat, NEW n \in Nat, is_text(g, m), is_text(h, n)
  PROVE  \A q \in up_to(m) \cap up_to(n) : g[q] = h[q]
<1> DEFINE T == {k \in Nat : \E q \in up_to(m) \cap up_to(n) : Len(q) = k /\ g[q] # h[q]}
<1>1. SUFFICES ASSUME T # {} PROVE FALSE
  BY DEF up_to
<1>2. PICK k \in T : \A j \in Nat : j < k => j \notin T
  BY <1>1, LeastNatural
<1>3. PICK q \in up_to(m) \cap up_to(n) : Len(q) = k /\ g[q] # h[q]
  OBVIOUS
<1>4. g[q] = text_step(g, q) /\ h[q] = text_step(h, q)
  BY <1>3 DEF is_text
<1>5. CASE q = <<>>
  BY <1>3, <1>4, <1>5 DEF text_step
<1>6. CASE q # <<>>
  <2>1. Tail(q) \in up_to(m) \cap up_to(n)
    BY <1>6, TailUpTo
  <2>2. Len(Tail(q)) \in Nat /\ Len(Tail(q)) < k
    <3>1. q \in Seq(Grades)
      BY DEF up_to
    <3>2. QED BY <3>1, <1>3, <1>6
  <2>3. g[Tail(q)] = h[Tail(q)]
    BY <2>1, <2>2, <1>2
  <2>4. QED BY <1>3, <1>4, <2>3 DEF text_step
<1>7. QED BY <1>5, <1>6

(* The text of the rows is that of the first row, and then that of the     *)
(* others.                                                                 *)
LEMMA TextEquation ==
  text_of = [q \in Seq(Grades) |-> text_step(text_of, q)]
<1> DEFINE text_to(n) == CHOOSE g : is_text(g, n)
           F == [s \in Seq(Grades) |-> text_to(Len(s))[s]]
<1>1. \A n \in Nat : is_text(text_to(n), n)
  BY TextExists
<1>2. \A s \in Seq(Grades) : F[s] = text_to(Len(s))[s] /\ Len(s) \in Nat /\ s \in up_to(Len(s))
  BY DEF up_to
<1> HIDE DEF text_to, F
<1>3. ASSUME NEW s \in Seq(Grades) PROVE F[s] = text_step(F, s) /\ F[s] \in Seq(Nat)
  <2>1. F[s] = text_step(text_to(Len(s)), s) /\ F[s] \in Seq(Nat)
    BY <1>1, <1>2 DEF is_text
  <2>2. ASSUME s # <<>> PROVE text_to(Len(s))[Tail(s)] = F[Tail(s)]
    <3>1. Tail(s) \in Seq(Grades) /\ Tail(s) \in up_to(Len(s))
      BY <2>2, <1>2, TailUpTo DEF up_to
    <3>2. /\ is_text(text_to(Len(s)), Len(s)) /\ Len(s) \in Nat
          /\ is_text(text_to(Len(Tail(s))), Len(Tail(s))) /\ Len(Tail(s)) \in Nat
          /\ Tail(s) \in up_to(Len(Tail(s)))
      BY <3>1, <1>1, <1>2
    <3>3. text_to(Len(s))[Tail(s)] = text_to(Len(Tail(s)))[Tail(s)]
      BY <3>1, <3>2, TextUnique
    <3>4. QED BY <3>1, <3>3, <1>2
  <2>3. QED BY <2>1, <2>2 DEF text_step
<1>4. F = [s \in Seq(Grades) |-> text_step(F, s)]
  <2>1. F = [s \in Seq(Grades) |-> F[s]]
    BY DEF F
  <2>2. QED BY <2>1, <1>3
<1>5. text_of = CHOOSE g : g = [s \in Seq(Grades) |-> text_step(g, s)]
  BY DEF text_of, text_step
<1>6. QED BY <1>4, <1>5

LEMMA TextType == \A q \in Seq(Grades) : text_of[q] \in Seq(Nat)
<1> DEFINE T == {k \in Nat : \E q \in Seq(Grades) : Len(q) = k /\ text_of[q] \notin Seq(Nat)}
<1>1. SUFFICES ASSUME T # {} PROVE FALSE
  OBVIOUS
<1>2. PICK k \in T : \A j \in Nat : j < k => j \notin T
  BY <1>1, LeastNatural
<1>3. PICK q \in Seq(Grades) : Len(q) = k /\ text_of[q] \notin Seq(Nat)
  OBVIOUS
<1>4. q # <<>> => text_of[Tail(q)] \in Seq(Nat)
  <2>1. q # <<>> => Tail(q) \in Seq(Grades) /\ Len(Tail(q)) \in Nat /\ Len(Tail(q)) < k
    BY <1>3
  <2>2. QED BY <2>1, <1>2
<1>5. q \in up_to(k) /\ k \in Nat
  BY <1>3 DEF up_to
<1>6. text_step(text_of, q) \in Seq(Nat)
  BY <1>4, <1>5, StepType
<1>7. QED BY <1>3, <1>6, TextEquation
-----------------------------------------------------------------------------
row_text(grade) == digits(grade) \o <<CR, LF>>

LEMMA RowText ==
  ASSUME NEW grade \in Grades
  PROVE  \E d \in 1 .. 3 :
           /\ d = Len(digits(grade))
           /\ row_text(grade) \in Seq(Nat) /\ Len(row_text(grade)) = d + 2
           /\ \A k \in 1 .. d : row_text(grade)[k] = digits(grade)[k] /\ digits(grade)[k] \in Digit
           /\ row_text(grade)[d + 1] = CR /\ row_text(grade)[d + 2] = LF
<1>1. PICK d \in 1 .. 3 : d = Len(digits(grade))
  BY DigitsType
<1>2. digits(grade) \in Seq(Nat) /\ digits(grade) \in Seq(Digit)
  BY DigitsType
<1>3. /\ <<CR, LF>> \in Seq(Nat) /\ Len(<<CR, LF>>) = 2
      /\ <<CR, LF>>[1] = CR /\ <<CR, LF>>[2] = LF
  BY DEF CR, LF
<1>4. row_text(grade) \in Seq(Nat) /\ Len(row_text(grade)) = d + 2
  BY <1>1, <1>2, <1>3, ConcatProperties DEF row_text
<1>5. /\ \A k \in 1 .. d : row_text(grade)[k] = digits(grade)[k]
      /\ row_text(grade)[d + 1] = CR /\ row_text(grade)[d + 2] = LF
  BY <1>1, <1>2, <1>3, ConcatProperties DEF row_text
<1>6. \A k \in 1 .. d : digits(grade)[k] \in Digit
  BY <1>1, <1>2
<1>7. QED BY <1>1, <1>4, <1>5, <1>6

(* The text from row n on begins with the row, and goes on with the text   *)
(* from the next row on.                                                   *)
rows_from(q, n) == SubSeq(q, n, Len(q))

LEMMA RowsFrom ==
  ASSUME NEW q \in Seq(Grades), NEW n \in 1 .. Len(q)
  PROVE  /\ rows_from(q, n) \in Seq(Grades) /\ rows_from(q, n) # <<>>
         /\ q[n] \in Grades
         /\ Head(rows_from(q, n)) = q[n] /\ Tail(rows_from(q, n)) = rows_from(q, n + 1)
         /\ rows_from(q, n + 1) \in Seq(Grades)
         /\ n = Len(q) => rows_from(q, n + 1) = <<>>
<1>1. n \in Int /\ Len(q) \in Int /\ \A k \in n .. Len(q) : q[k] \in Grades
  OBVIOUS
<1>2. rows_from(q, n) \in Seq(Grades) /\ Len(rows_from(q, n)) = Len(q) - n + 1
  BY <1>1, SubSeqProperties DEF rows_from
<1>3. Head(rows_from(q, n)) = q[n] /\ Tail(rows_from(q, n)) = rows_from(q, n + 1)
  BY <1>1, HeadTailOfSubSeq DEF rows_from
<1>4. rows_from(q, n) # <<>>
  BY <1>2, EmptySeq
<1>5. rows_from(q, n + 1) \in Seq(Grades)
  <2>1. \A s \in Seq(Grades) : s # <<>> => Tail(s) \in Seq(Grades)
    OBVIOUS
  <2>2. QED BY <2>1, <1>2, <1>3, <1>4
<1>6. n = Len(q) => rows_from(q, n + 1) = <<>>
  BY SubSeqEmpty DEF rows_from
<1>7. QED BY <1>1, <1>2, <1>3, <1>4, <1>5, <1>6

LEMMA RowOfText ==
  ASSUME LastRowEnds, NEW q \in Seq(Grades), NEW n \in 1 .. Len(q)
  PROVE  /\ text_of[rows_from(q, n)] = row_text(q[n]) \o text_of[rows_from(q, n + 1)]
         /\ text_of[rows_from(q, n + 1)] \in Seq(Nat)
         /\ n = Len(q) => Len(text_of[rows_from(q, n + 1)]) = 0
<1>1. text_of[rows_from(q, n + 1)] \in Seq(Nat)
  BY RowsFrom, TextType
<1>2. text_of[rows_from(q, n)] = row_text(q[n]) \o text_of[rows_from(q, n + 1)]
  <2>1. \A s \in Seq(Grades) : s # <<>> => text_of[s] = row_text(Head(s)) \o text_of[Tail(s)]
    BY TextEquation DEF text_step, row_text
  <2>2. QED BY <2>1, RowsFrom
<1>3. text_of[<<>>] = <<>>
  <2>1. <<>> \in Seq(Grades)
    OBVIOUS
  <2>2. QED BY <2>1, TextEquation DEF text_step
<1>4. QED BY <1>1, <1>2, <1>3, RowsFrom

LEMMA NextRowOfText ==
  ASSUME LastRowEnds, NEW q \in Seq(Grades), NEW n \in 1 .. Len(q), n < Len(q)
  PROVE  Len(text_of[rows_from(q, n + 1)]) >= 3
<1>1. n + 1 \in 1 .. Len(q)
  OBVIOUS
<1>2. PICK r : r = row_text(q[n + 1])
  OBVIOUS
<1>3. PICK u \in Seq(Nat) : u = text_of[rows_from(q, n + 1 + 1)]
  BY <1>1, RowOfText
<1>4. r \in Seq(Nat) /\ Len(r) >= 3
  BY <1>1, <1>2, RowText
<1>5. Len(r \o u) >= 3
  BY <1>3, <1>4, ConcatProperties
<1>6. QED BY <1>1, <1>2, <1>3, <1>5, RowOfText

(* A line that is cut from the text at its end, and the number it holds.   *)
Buffer == [1 .. FILE_BUFFER -> Nat]

(* The bytes of a buffer start with those of a row but its line end.       *)
starts_with(buffer, grade) ==
  /\ buffer \in Buffer
  /\ \A k \in 1 .. Len(row_text(grade)) - 1 : buffer[k] = row_text(grade)[k]

LEMMA FirstPlaceIs ==
  ASSUME NEW b \in Buffer, NEW byte, NEW p \in 1 .. FILE_BUFFER,
         b[p] = byte, \A j \in 1 .. p - 1 : b[j] # byte
  PROVE  FirstPlace(byte, b) = p
<1>1. DOMAIN b = 1 .. FILE_BUFFER /\ FILE_BUFFER \in Nat
  BY DEF Buffer, FILE_BUFFER
<1> DEFINE P(k) == b[k] = byte /\ \A j \in 1 .. k - 1 : b[j] # byte
<1>2. \A k \in DOMAIN b : P(k) => k = p
  <2> SUFFICES ASSUME NEW k \in 1 .. FILE_BUFFER, P(k) PROVE k = p
    BY <1>1
  <2>1. ~(k < p) /\ ~(p < k)
    BY <1>1
  <2>2. QED BY <2>1, <1>1
<1>3. QED BY <1>1, <1>2 DEF FirstPlace

LEMMA StrlenType ==
  ASSUME NEW b \in Buffer
  PROVE  strlen(b) \in Nat
<1>1. CASE \E k \in DOMAIN b : b[k] = NUL
  <2> DEFINE T == {k \in 1 .. FILE_BUFFER : b[k] = NUL}
  <2>1. T \subseteq Nat /\ T # {}
    BY <1>1 DEF Buffer, FILE_BUFFER
  <2>2. PICK p \in T : \A m \in Nat : m < p => m \notin T
    BY <2>1, LeastNatural
  <2>3. \A j \in 1 .. p - 1 : b[j] # NUL
    BY <2>2 DEF FILE_BUFFER
  <2>4. FirstPlace(NUL, b) = p
    BY <2>3, FirstPlaceIs
  <2>5. QED BY <2>4, <1>1 DEF strlen, FILE_BUFFER
<1>2. CASE ~\E k \in DOMAIN b : b[k] = NUL
  BY <1>2 DEF strlen, FILE_BUFFER
<1>3. QED BY <1>1, <1>2

LEMMA CutRow ==
  ASSUME NEW b, NEW grade \in Grades, starts_with(b, grade),
         b[Len(row_text(grade))] = LF
  PROVE  /\ starts_with(cut_line(b), grade)
         /\ strlen(cut_line(b)) = Len(row_text(grade)) - 1
<1> DEFINE c == cut_line(b)
<1>1. PICK d \in 1 .. 3 :
        /\ Len(row_text(grade)) = d + 2
        /\ \A k \in 1 .. d : row_text(grade)[k] \in Digit
        /\ row_text(grade)[d + 1] = CR
  BY RowText
<1>2. d + 2 - 1 = d + 1
  BY <1>1
<1>3. /\ b \in Buffer /\ d + 2 \in 1 .. FILE_BUFFER
      /\ \A k \in 1 .. d + 1 : b[k] = row_text(grade)[k]
  BY <1>1, <1>2 DEF starts_with, FILE_BUFFER
<1>4. b[d + 1] = CR /\ b[d + 2] = LF /\ \A k \in 1 .. d : b[k] \in Digit
  BY <1>1, <1>3
<1>5. FirstPlace(LF, b) = d + 2
  <2>1. \A j \in 1 .. d + 2 - 1 : b[j] # LF
    BY <1>1, <1>4 DEF Digit, CR, LF
  <2>2. QED BY <2>1, <1>3, <1>4, FirstPlaceIs
<1>6. /\ c \in Buffer /\ c[d + 2] = NUL
      /\ \A k \in 1 .. d + 1 : c[k] = b[k]
  BY <1>1, <1>3, <1>5, SMTT(20) DEF cut_line, Buffer, NUL, FILE_BUFFER
<1>7. FirstPlace(NUL, c) = d + 2
  <2>1. \A j \in 1 .. d + 2 - 1 : c[j] # NUL
    BY <1>1, <1>4, <1>6, SMTT(20) DEF Digit, CR, NUL
  <2>2. QED BY <2>1, <1>3, <1>6, FirstPlaceIs
<1> HIDE DEF c
<1>8. strlen(c) = d + 1
  <2>1. DOMAIN c = 1 .. FILE_BUFFER
    BY <1>6 DEF Buffer
  <2>2. \E k \in DOMAIN c : c[k] = NUL
    BY <2>1, <1>3, <1>6
  <2>3. strlen(c) = FirstPlace(NUL, c) - 1
    BY <2>2 DEF strlen
  <2>4. QED BY <2>3, <1>1, <1>7
<1>9. starts_with(c, grade)
  BY <1>1, <1>2, <1>3, <1>6 DEF starts_with
<1>10. QED BY <1>1, <1>2, <1>8, <1>9 DEF c

(* Both loops of atoi unrolled: a row has three digits at most.            *)
LEMMA AtoiOfRow ==
  ASSUME NEW b, NEW grade \in Grades, starts_with(b, grade)
  PROVE  atoi(b) = grade
<1>1. PICK d \in 1 .. 3 :
        /\ d = Len(digits(grade)) /\ Len(row_text(grade)) = d + 2
        /\ \A k \in 1 .. d : row_text(grade)[k] = digits(grade)[k] /\ digits(grade)[k] \in Digit
        /\ row_text(grade)[d + 1] = CR
  BY RowText
<1>2. /\ \A k \in 1 .. d : b[k] = digits(grade)[k] /\ b[k] \in Digit
      /\ b[d + 1] \notin Digit /\ b \in Buffer
  <2>1. d + 2 - 1 = d + 1 /\ d + 1 \in 1 .. d + 1 /\ \A k \in 1 .. d : k \in 1 .. d + 1
    BY <1>1
  <2>2. b \in Buffer /\ \A k \in 1 .. d + 1 : b[k] = row_text(grade)[k]
    BY <1>1, <2>1 DEF starts_with
  <2>3. CR \notin Digit
    BY DEF CR, Digit
  <2>4. QED BY <1>1, <2>1, <2>2, <2>3
<1> DEFINE n == CHOOSE k \in 0 .. FILE_BUFFER :
                  /\ \A j \in 1 .. k : b[j] \in Digit
                  /\ k < FILE_BUFFER => b[k + 1] \notin Digit
           step(g, k) == IF k = 0 THEN 0 ELSE 10 * g[k - 1] + b[k] - 48
           value[k \in 0 .. FILE_BUFFER] == step(value, k)
<1>3. n = d
  <2>1. ASSUME NEW k \in 0 .. FILE_BUFFER,
               /\ \A j \in 1 .. k : b[j] \in Digit
               /\ k < FILE_BUFFER => b[k + 1] \notin Digit
        PROVE  k = d
    <3>1. ~(k < d)
      BY <2>1, <1>2 DEF FILE_BUFFER
    <3>2. ~(d < k)
      BY <2>1, <1>2 DEF FILE_BUFFER
    <3>3. QED BY <3>1, <3>2 DEF FILE_BUFFER
  <2>2. /\ d \in 0 .. FILE_BUFFER
        /\ \A j \in 1 .. d : b[j] \in Digit
        /\ d < FILE_BUFFER => b[d + 1] \notin Digit
    BY <1>2 DEF FILE_BUFFER
  <2>3. QED BY <2>1, <2>2
<1>4. value = [k \in 0 .. FILE_BUFFER |-> step(value, k)]
  <2> DEFINE v1 == b[1] - 48
             v2 == 10 * v1 + b[2] - 48
             v3 == 10 * v2 + b[3] - 48
             v4 == 10 * v3 + b[4] - 48
             v5 == 10 * v4 + b[5] - 48
             v6 == 10 * v5 + b[6] - 48
             v == [k \in 0 .. 6 |-> IF k = 0 THEN 0 ELSE IF k = 1 THEN v1 ELSE IF k = 2 THEN v2
                     ELSE IF k = 3 THEN v3 ELSE IF k = 4 THEN v4 ELSE IF k = 5 THEN v5 ELSE v6]
  <2>1. /\ v[0] = 0 /\ v[1] = v1 /\ v[2] = v2 /\ v[3] = v3
        /\ v[4] = v4 /\ v[5] = v5 /\ v[6] = v6
    OBVIOUS
  <2> HIDE DEF v
  <2>2. \A k \in 1 .. 6 : b[k] \in Nat
    BY <1>2 DEF Buffer, FILE_BUFFER
  <2>3. \A k \in 0 .. 6 : v[k] = step(v, k)
    BY <2>1, <2>2
  <2>4. v = [k \in 0 .. 6 |-> v[k]]
    BY DEF v
  <2>5. v = [k \in 0 .. FILE_BUFFER |-> step(v, k)]
    BY <2>3, <2>4 DEF FILE_BUFFER
  <2>6. QED BY <2>5
<1>5. atoi(b) = value[n]
  BY DEF atoi
<1> HIDE DEF value, n
<1>6. \A k \in 0 .. 3 : value[k] = IF k = 0 THEN 0 ELSE 10 * value[k - 1] + b[k] - 48
  BY <1>4 DEF FILE_BUFFER
<1>7. grade \in 0 .. 100
  BY GradeReaderAssumption DEF GradeReaderAssumption
<1>8. /\ d = 1 => value[d] = b[1] - 48
      /\ d = 2 => value[d] = 10 * (b[1] - 48) + b[2] - 48
      /\ d = 3 => value[d] = 10 * (10 * (b[1] - 48) + b[2] - 48) + b[3] - 48
  <2>1. value[0] = 0 /\ value[1] = 10 * value[0] + b[1] - 48
    BY <1>6
  <2>2. value[2] = 10 * value[1] + b[2] - 48 /\ value[3] = 10 * value[2] + b[3] - 48
    BY <1>6
  <2>3. \A k \in 1 .. d : b[k] \in Nat
    BY <1>2 DEF Digit
  <2>4. QED BY <2>1, <2>2, <2>3
<1>9. CASE grade < 10
  <2>1. digits(grade) = <<48 + grade>>
    BY <1>9 DEF digits
  <2>2. d = 1 /\ b[1] = 48 + grade
    BY <2>1, <1>1, <1>2
  <2>3. QED BY <2>2, <1>3, <1>5, <1>7, <1>8
<1>10. CASE grade >= 10 /\ grade < 100
  <2>1. digits(grade) = <<48 + grade \div 10, 48 + (grade % 10)>>
    BY <1>7, <1>10 DEF digits
  <2>2. d = 2 /\ b[1] = 48 + grade \div 10 /\ b[2] = 48 + (grade % 10)
    BY <2>1, <1>1, <1>2
  <2>3. grade = 10 * (grade \div 10) + (grade % 10)
    BY <1>7
  <2>4. QED BY <2>2, <2>3, <1>3, <1>5, <1>7, <1>8
<1>11. CASE grade = 100
  <2>1. digits(grade) = <<49, 48, 48>>
    BY <1>11 DEF digits
  <2>2. d = 3 /\ b[1] = 49 /\ b[2] = 48 /\ b[3] = 48
    BY <2>1, <1>1, <1>2
  <2>3. QED BY <2>2, <1>3, <1>5, <1>8, <1>11
<1>12. QED BY <1>7, <1>9, <1>10, <1>11
-----------------------------------------------------------------------------
(* What is left of a text after o bytes.                                   *)
rest(t, o) == SubSeq(t, o + 1, Len(t))

(* A file whose rows are q is read up to row n: its offset o is where that *)
(* row begins, and behind the text when there is no row n.                 *)
at_row(q, o, n) ==
  IF n <= Len(q)
  THEN /\ o <= Len(text_of[q])
       /\ rest(text_of[q], o) = text_of[rows_from(q, n)]
  ELSE o > Len(text_of[q])

got(t, o) == SubSeq(t, o + 1, IF o + FILE_BUFFER <= Len(t) THEN o + FILE_BUFFER ELSE Len(t))

LEMMA GotProperties ==
  ASSUME NEW t \in Seq(Nat), NEW o \in Nat
  PROVE  /\ got(t, o) \in Seq(Nat)
         /\ Len(got(t, o)) = IF o + 6 <= Len(t) THEN 6 ELSE IF o <= Len(t) THEN Len(t) - o ELSE 0
         /\ \A k \in 1 .. Len(got(t, o)) : got(t, o)[k] = t[o + k]
<1>1. PICK l \in Nat : l = Len(t)
  OBVIOUS
<1>2. PICK last \in Nat : last = IF o + 6 <= l THEN o + 6 ELSE l
  OBVIOUS
<1>3. got(t, o) = SubSeq(t, o + 1, last)
  BY <1>1, <1>2 DEF got, FILE_BUFFER
<1>4. o + 1 \in Int /\ last \in Int /\ \A k \in o + 1 .. last : t[k] \in Nat
  BY <1>1, <1>2
<1> DEFINE r == SubSeq(t, o + 1, last)
<1>5. /\ r \in Seq(Nat)
      /\ Len(r) = IF o + 1 <= last THEN last - (o + 1) + 1 ELSE 0
      /\ \A k \in 1 .. last - (o + 1) + 1 : r[k] = t[o + 1 + k - 1]
  BY <1>4, SubSeqProperties
<1> HIDE DEF r
<1>6. \A k \in 1 .. Len(r) : r[k] = t[o + k]
  BY <1>5
<1>7. Len(r) = IF o + 6 <= l THEN 6 ELSE IF o <= l THEN l - o ELSE 0
  BY <1>2, <1>5
<1>8. QED BY <1>1, <1>3, <1>5, <1>6, <1>7 DEF r

(* After o bytes of the text t, s and then u are left.                     *)
are_left(t, o, s, u) == o <= Len(t) /\ rest(t, o) = s \o u

LEMMA ReadThrough ==
  ASSUME NEW t \in Seq(Nat), NEW s \in Seq(Nat), NEW u \in Seq(Nat), NEW o \in Nat,
         are_left(t, o, s, u)
  PROVE  /\ Len(t) = o + Len(s) + Len(u)
         /\ \A k \in 1 .. Len(s) : t[o + k] = s[k]
         /\ rest(t, o + Len(s)) = u
<1>1. PICK l \in Nat, a \in Nat, c \in Nat : l = Len(t) /\ a = Len(s) /\ c = Len(u)
  OBVIOUS
<1>2. /\ Len(s \o u) = a + c
      /\ \A k \in 1 .. a + c : (s \o u)[k] = IF k <= a THEN s[k] ELSE u[k - a]
  BY <1>1, ConcatProperties
<1>3. o + 1 \in Int /\ l \in Int /\ \A k \in o + 1 .. l : t[k] \in Nat
  BY <1>1
<1>4. /\ Len(SubSeq(t, o + 1, l)) = IF o + 1 <= l THEN l - (o + 1) + 1 ELSE 0
      /\ \A k \in 1 .. l - (o + 1) + 1 : SubSeq(t, o + 1, l)[k] = t[o + 1 + k - 1]
  BY <1>3, SubSeqProperties
<1>5. SubSeq(t, o + 1, l) = s \o u /\ o <= l
  BY <1>1 DEF are_left, rest
<1>6. l = o + a + c
  BY <1>1, <1>2, <1>4, <1>5
<1>7. \A k \in 1 .. a + c : t[o + k] = IF k <= a THEN s[k] ELSE u[k - a]
  <2> SUFFICES ASSUME NEW k \in 1 .. a + c
               PROVE  t[o + k] = IF k <= a THEN s[k] ELSE u[k - a]
    OBVIOUS
  <2>1. k \in 1 .. l - (o + 1) + 1 /\ o + 1 + k - 1 = o + k
    BY <1>1, <1>6
  <2>2. (s \o u)[k] = t[o + k]
    BY <2>1, <1>4, <1>5
  <2>3. QED BY <2>2, <1>2
<1>8. \A k \in 1 .. a : t[o + k] = s[k]
  <2>1. a \in Nat /\ c \in Nat
    BY <1>1
  <2>2. \A k \in 1 .. a : k \in 1 .. a + c /\ k <= a
    BY <2>1
  <2>3. QED BY <2>2, <1>7
<1> DEFINE v == SubSeq(t, o + a + 1, l)
<1>9. /\ v \in Seq(Nat) /\ Len(v) = c
      /\ \A k \in 1 .. c : v[k] = t[o + a + k]
  <2>1. o + a + 1 \in Int /\ l \in Int /\ \A k \in o + a + 1 .. l : t[k] \in Nat
    BY <1>1
  <2>2. /\ v \in Seq(Nat)
        /\ Len(v) = IF o + a + 1 <= l THEN l - (o + a + 1) + 1 ELSE 0
        /\ \A k \in 1 .. l - (o + a + 1) + 1 : v[k] = t[o + a + 1 + k - 1]
    BY <2>1, SubSeqProperties
  <2> HIDE DEF v
  <2>3. l - (o + a + 1) + 1 = c
    BY <1>1, <1>6
  <2>4. \A k \in 1 .. c : o + a + 1 + k - 1 = o + a + k
    BY <1>1
  <2>5. Len(v) = c
    BY <1>1, <1>6, <2>2
  <2>6. QED BY <2>2, <2>3, <2>4, <2>5
<1> HIDE DEF v
<1>10. \A k \in 1 .. c : v[k] = u[k]
  <2> SUFFICES ASSUME NEW k \in 1 .. c PROVE v[k] = u[k]
    OBVIOUS
  <2>1. PICK j \in 1 .. a + c : ~(j <= a) /\ j - a = k /\ o + j = o + a + k
    <3>1. a + k \in 1 .. a + c /\ ~(a + k <= a) /\ a + k - a = k /\ o + (a + k) = o + a + k
      BY <1>1
    <3>2. QED BY <3>1
  <2>2. t[o + j] = u[j - a]
    BY <2>1, <1>7
  <2>3. v[k] = t[o + a + k]
    BY <1>9
  <2>4. QED BY <2>1, <2>2, <2>3
<1>11. v = u
  BY <1>1, <1>9, <1>10, SeqEqual
<1>12. QED BY <1>1, <1>6, <1>8, <1>11 DEF v, rest

LEMMA RowInText ==
  ASSUME LastRowEnds, NEW q \in Seq(Grades), NEW n \in 1 .. Len(q), NEW o \in Nat, at_row(q, o, n)
  PROVE  \E m \in 3 .. 5 :
           /\ m = Len(row_text(q[n])) /\ q[n] \in Grades /\ row_text(q[n]) \in Seq(Nat)
           /\ text_of[q] \in Seq(Nat)
           /\ \A k \in 1 .. m : text_of[q][o + k] = row_text(q[n])[k]
           /\ n = Len(q) => Len(text_of[q]) = o + m
           /\ n < Len(q) => o + m + 3 <= Len(text_of[q]) /\ at_row(q, o + m, n + 1)
<1>1. PICK t \in Seq(Nat) : t = text_of[q]
  BY TextType
<1>2. PICK u \in Seq(Nat) : u = text_of[rows_from(q, n + 1)]
  BY RowOfText
<1>3. q[n] \in Grades
  OBVIOUS
<1>4. PICK s \in Seq(Nat) : s = row_text(q[n])
  BY <1>3, RowText
<1>5. PICK m \in 3 .. 5 : m = Len(s)
  BY <1>3, <1>4, RowText
<1>6. are_left(t, o, s, u)
  <2>1. /\ o <= Len(text_of[q])
        /\ rest(text_of[q], o) = text_of[rows_from(q, n)]
    <3>1. n <= Len(q)
      OBVIOUS
    <3>2. QED BY <3>1 DEF at_row
  <2>2. text_of[rows_from(q, n)] = row_text(q[n]) \o text_of[rows_from(q, n + 1)]
    BY RowOfText
  <2>3. QED BY <2>1, <2>2, <1>1, <1>2, <1>4 DEF are_left
<1>7. /\ Len(t) = o + Len(s) + Len(u)
      /\ \A k \in 1 .. Len(s) : t[o + k] = s[k]
      /\ rest(t, o + Len(s)) = u
  <2>1. t \in Seq(Nat) /\ s \in Seq(Nat) /\ u \in Seq(Nat) /\ o \in Nat
    BY <1>1, <1>2, <1>4
  <2>2. QED BY <2>1, <1>6, ReadThrough
<1>8. PICK c \in Nat : c = Len(u) /\ Len(t) = o + m + c
  <2>1. Len(u) \in Nat
    BY <1>2
  <2>2. Len(t) = o + m + Len(u)
    BY <1>5, <1>7
  <2>3. QED BY <2>1, <2>2
<1>9. n = Len(q) => Len(t) = o + m
  <2>1. n = Len(q) => c = 0
    BY <1>2, <1>8, RowOfText
  <2>2. QED BY <2>1, <1>5, <1>8
<1>10. ASSUME n < Len(q) PROVE o + m + 3 <= Len(t) /\ at_row(q, o + m, n + 1)
  <2>1. c >= 3
    BY <1>2, <1>8, <1>10, NextRowOfText
  <2>2. o + m + 3 <= Len(t)
    BY <2>1, <1>5, <1>8
  <2>3. o + m <= Len(t)
    BY <1>5, <1>8
  <2>4. n + 1 <= Len(q)
    BY <1>10
  <2>5. QED BY <2>2, <2>3, <2>4, <1>1, <1>2, <1>5, <1>7 DEF at_row
<1>11. QED BY <1>1, <1>3, <1>4, <1>5, <1>7, <1>9, <1>10

(* A row that is not the last.                                             *)
LEMMA RowRead ==
  ASSUME LastRowEnds, NEW q \in Seq(Grades), NEW n \in 1 .. Len(q), n < Len(q), NEW o \in Nat,
         at_row(q, o, n)
  PROVE  LET b == got(text_of[q], o) IN
         /\ Len(b) = FILE_BUFFER /\ q[n] \in Grades
         /\ cut_line(b) \in Buffer
         /\ atoi(cut_line(b)) = q[n]
         /\ o + strlen(cut_line(b)) + 1 \in Nat
         /\ at_row(q, o + strlen(cut_line(b)) + 1, n + 1)
<1>1. PICK t \in Seq(Nat) : t = text_of[q]
  BY TextType
<1>2. PICK b : b = got(t, o)
  OBVIOUS
<1>3. PICK m \in 3 .. 5 :
        /\ m = Len(row_text(q[n])) /\ q[n] \in Grades
        /\ \A k \in 1 .. m : t[o + k] = row_text(q[n])[k]
        /\ o + m + 3 <= Len(t) /\ at_row(q, o + m, n + 1)
  BY <1>1, RowInText
<1>a. m \in 3 .. 5 /\ o + m + 3 <= Len(t) /\ Len(t) \in Nat
  BY <1>1, <1>3
<1>4. o + 6 <= Len(t)
  BY <1>a
<1>5. b \in Seq(Nat) /\ Len(b) = 6 /\ \A k \in 1 .. 6 : b[k] = t[o + k]
  BY <1>1, <1>2, <1>4, GotProperties
<1>6. b \in Buffer
  <2>1. b \in Seq(Nat) /\ Len(b) = 6
    BY <1>5
  <2>2. b \in [1 .. Len(b) -> Nat]
    BY <2>1, LenProperties
  <2>3. QED BY <2>1, <2>2 DEF Buffer, FILE_BUFFER
<1>7. /\ \A k \in 1 .. m : b[k] = row_text(q[n])[k]
      /\ \A k \in 1 .. m - 1 : k \in 1 .. m
      /\ m \in 1 .. m
  <2>1. /\ \A k \in 1 .. m : k \in 1 .. 6
        /\ \A k \in 1 .. m - 1 : k \in 1 .. m
        /\ m \in 1 .. m
    BY <1>a
  <2>2. QED BY <2>1, <1>3, <1>5
<1>8. starts_with(b, q[n]) /\ b[Len(row_text(q[n]))] = LF
  <2>1. row_text(q[n])[m] = LF
    BY <1>3, RowText
  <2>2. QED BY <1>3, <1>6, <1>7, <2>1 DEF starts_with
<1>9. starts_with(cut_line(b), q[n]) /\ strlen(cut_line(b)) = m - 1
  BY <1>3, <1>8, CutRow
<1>10. atoi(cut_line(b)) = q[n] /\ cut_line(b) \in Buffer
  BY <1>3, <1>9, AtoiOfRow DEF starts_with
<1>11. o + (m - 1) + 1 = o + m /\ o + m \in Nat
  BY <1>3
<1>12. QED BY <1>1, <1>2, <1>3, <1>5, <1>9, <1>10, <1>11 DEF FILE_BUFFER

(* The last row: its bytes are all there is.                               *)
LEMMA LastRowRead ==
  ASSUME LastRowEnds, NEW q \in Seq(Grades), NEW n \in 1 .. Len(q), n = Len(q), NEW o \in Nat,
         at_row(q, o, n), NEW old \in Buffer
  PROVE  LET b == got(text_of[q], o) IN
         /\ Len(b) < FILE_BUFFER /\ q[n] \in Grades
         /\ Len(text_of[q]) - o = Len(b)
         /\ over(b, old) \in Buffer
         /\ atoi(over(b, old)) = q[n]
         /\ Len(text_of[q]) + strlen(over(b, old)) + 1 \in Nat
         /\ at_row(q, Len(text_of[q]) + strlen(over(b, old)) + 1, n + 1)
<1>1. PICK t \in Seq(Nat) : t = text_of[q]
  BY TextType
<1>2. PICK b : b = got(t, o)
  OBVIOUS
<1>3. PICK m \in 3 .. 5 :
        /\ m = Len(row_text(q[n])) /\ q[n] \in Grades
        /\ \A k \in 1 .. m : t[o + k] = row_text(q[n])[k]
        /\ Len(t) = o + m
  BY <1>1, RowInText
<1>a. m \in 3 .. 5 /\ Len(t) = o + m
  BY <1>3
<1>4. PICK c : c = over(b, old)
  OBVIOUS
<1>5. b \in Seq(Nat) /\ Len(b) = m /\ \A k \in 1 .. m : b[k] = t[o + k]
  <2>1. ~(o + 6 <= Len(t)) /\ o <= Len(t) /\ Len(t) - o = m
    BY <1>a
  <2>2. QED BY <1>1, <1>2, <2>1, GotProperties
<1>6. c \in Buffer /\ \A k \in 1 .. m : c[k] = b[k]
  <2>1. \A k \in 1 .. 6 : old[k] \in Nat
    BY DEF Buffer, FILE_BUFFER
  <2>2. \A k \in 1 .. 6 : k <= m => b[k] \in Nat
    BY <1>5
  <2>3. c = [k \in 1 .. 6 |-> IF k <= m THEN b[k] ELSE old[k]]
    BY <1>4, <1>5 DEF over, FILE_BUFFER
  <2>4. \A k \in 1 .. m : k \in 1 .. 6 /\ k <= m
    BY <1>a
  <2>5. c \in [1 .. 6 -> Nat]
    BY <2>1, <2>2, <2>3
  <2>6. QED BY <2>3, <2>4, <2>5 DEF Buffer, FILE_BUFFER
<1>7. starts_with(c, q[n])
  <2>1. \A k \in 1 .. m - 1 : k \in 1 .. m
    BY <1>3
  <2>2. QED BY <1>3, <1>5, <1>6, <2>1 DEF starts_with
<1>8. atoi(c) = q[n]
  BY <1>3, <1>7, AtoiOfRow
<1>9. strlen(c) \in Nat
  BY <1>6, StrlenType
<1>10. Len(t) + strlen(c) + 1 \in Nat /\ Len(t) + strlen(c) + 1 > Len(t)
  BY <1>1, <1>9
<1>11. at_row(q, Len(t) + strlen(c) + 1, n + 1)
  <2>1. ~(n + 1 <= Len(q))
    OBVIOUS
  <2>2. QED BY <1>1, <1>10, <2>1 DEF at_row
<1>12. Len(b) < FILE_BUFFER /\ Len(t) - o = Len(b)
  BY <1>a, <1>5 DEF FILE_BUFFER
<1>13. QED BY <1>1, <1>2, <1>3, <1>4, <1>6, <1>8, <1>10, <1>11, <1>12

(* Behind the last row nothing is read, and nothing is left.               *)
LEMMA NoRowRead ==
  ASSUME NEW q \in Seq(Grades), NEW n \in Nat, n > Len(q), NEW o \in Nat, at_row(q, o, n)
  PROVE  LET b == got(text_of[q], o) IN
         Len(b) = 0 /\ Len(text_of[q]) - o # Len(b)
<1>1. PICK t \in Seq(Nat) : t = text_of[q]
  BY TextType
<1>2. o > Len(t)
  BY <1>1 DEF at_row
<1>3. Len(got(t, o)) = 0
  BY <1>1, <1>2, GotProperties
<1>4. Len(t) - o # 0
  BY <1>1, <1>2
<1>5. QED BY <1>1, <1>3, <1>4
-----------------------------------------------------------------------------
(* The student whose rows are being read.                                  *)
student == Len(results) + 1

ReaderTypeOK ==
  /\ rows \in [File -> Rows]
  /\ missing \subseteq File
  /\ files_offset \in [File -> Nat]
  /\ read_buffer \in Buffer
  /\ i \in 1 .. NUM_OF_GRADE_COMPONENTS + 1
  /\ temp_grade \in Nat
  /\ results \in Seq(Nat)
  /\ pc \in {"read", "SUCCESS_CODE", "ERROR_CODE"}

(* The files that were read for this student have a row of his, and are    *)
(* read up to the next one; the others are read up to his.                 *)
InStep ==
  \A f \in File :
    /\ at_row(rows[f], files_offset[f], IF f < i THEN student + 1 ELSE student)
    /\ f < i => student <= Len(rows[f])

Graded ==
  /\ temp_grade = total(rows, student)[i - 1]
  /\ \A n \in 1 .. Len(results) :
       /\ \A f \in File : n <= Len(rows[f])
       /\ results[n] = total(rows, n)[NUM_OF_GRADE_COMPONENTS] \div 100

(* Why the reader stopped.                                                 *)
HasCause ==
  /\ pc = "SUCCESS_CODE" => student > Len(rows[1])
  /\ pc = "ERROR_CODE" =>
       \/ missing # {}
       \/ \E f \in File : Len(rows[f]) < Len(rows[1])
       \/ MayFail /\ i = NUM_OF_GRADE_COMPONENTS + 1

ReaderInv == ReaderTypeOK /\ InStep /\ Graded /\ HasCause

LEMMA OverType ==
  ASSUME NEW b \in Seq(Nat), NEW old \in Buffer
  PROVE  over(b, old) \in Buffer
  BY DEF over, Buffer

LEMMA RowsOfFile ==
  ASSUME ReaderTypeOK, NEW f \in File
  PROVE  /\ rows[f] \in Seq(Grades) /\ Len(rows[f]) >= MinStudents
         /\ DOMAIN rows[f] = 1 .. Len(rows[f])
<1>1. rows[f] \in Rows
  BY DEF ReaderTypeOK
<1>2. PICK n \in MinStudents .. MaxStudents : rows[f] \in [1 .. n -> Grades]
  BY <1>1 DEF Rows
<1>3. n \in Nat /\ n >= MinStudents
  BY GradeReaderAssumption, <1>2 DEF GradeReaderAssumption
<1>4. rows[f] \in Seq(Grades) /\ Len(rows[f]) = n
  BY <1>2, <1>3
<1>5. QED BY <1>2, <1>3, <1>4

LEMMA InitReader ==
  ASSUME MinStudents > 0, ReaderInit
  PROVE  ReaderInv
<1>1. NUM_OF_GRADE_COMPONENTS \in Nat \ {0}
  BY GradeReaderAssumption DEF GradeReaderAssumption
<1>2. ReaderTypeOK
  BY <1>1 DEF ReaderInit, ReaderTypeOK, Buffer, NUL, File
<1>3. results = <<>> /\ student = 1 /\ i = 1 /\ temp_grade = 0 /\ pc = "read"
  BY DEF ReaderInit, student
<1>4. InStep
  <2> SUFFICES ASSUME NEW f \in File
               PROVE  at_row(rows[f], 0, 1) /\ f >= 1
    BY <1>3 DEF InStep, ReaderInit, File
  <2>1. rows[f] \in Seq(Grades) /\ Len(rows[f]) >= MinStudents
    BY <1>2, RowsOfFile
  <2>2. MinStudents \in Nat /\ Len(rows[f]) \in Nat
    BY <2>1, GradeReaderAssumption DEF GradeReaderAssumption
  <2>3. PICK t \in Seq(Nat) : t = text_of[rows[f]]
    BY <2>1, TextType
  <2>4. rest(t, 0) = t /\ 0 <= Len(t)
    BY SubSeqFull DEF rest
  <2>5. rows_from(rows[f], 1) = rows[f]
    BY <2>1, SubSeqFull DEF rows_from
  <2>6. 1 <= Len(rows[f])
    BY <2>1, <2>2
  <2>7. QED BY <2>3, <2>4, <2>5, <2>6 DEF at_row, File
<1>5. Graded
  BY <1>1, <1>3, TotalEquation DEF Graded
<1>6. QED BY <1>2, <1>3, <1>4, <1>5 DEF ReaderInv, HasCause

(* What is read of the next file, by how far the file goes.                *)
LEMMA BytesRead ==
  ASSUME ReaderInv, NEW f \in File
  PROVE  /\ student \in Nat \ {0}
         /\ files_offset[f] \in Nat
         /\ bytes_read(f) \in Seq(Nat)
         /\ f \in missing => Len(bytes_read(f)) = 0
         /\ f \notin missing => bytes_read(f) = got(text_of[rows[f]], files_offset[f])
         /\ file_len(f) = Len(text_of[rows[f]])
<1>1. ReaderTypeOK /\ files_offset[f] \in Nat /\ student \in Nat \ {0}
  BY DEF ReaderInv, ReaderTypeOK, student
<1>2. text_of[rows[f]] \in Seq(Nat)
  BY <1>1, RowsOfFile, TextType
<1>3. f \notin missing => bytes_read(f) = got(text_of[rows[f]], files_offset[f])
  BY DEF bytes_read, got, text, file_len
<1>4. f \in missing => bytes_read(f) = <<>>
  BY DEF bytes_read
<1>5. got(text_of[rows[f]], files_offset[f]) \in Seq(Nat)
  BY <1>1, <1>2, GotProperties
<1>6. <<>> \in Seq(Nat) /\ Len(<<>>) = 0
  OBVIOUS
<1>7. QED BY <1>1, <1>3, <1>4, <1>5, <1>6 DEF file_len, text

(* The grade of the student is added, and his file is read up to the next. *)
LEMMA GradeReadStep ==
  ASSUME ReaderInv, AboutToRead, NEW buffer \in Buffer, NEW start, GradeRead(buffer, start),
         student <= Len(rows[i]), rows[i][student] \in Grades,
         atoi(buffer) = rows[i][student],
         next_offset(start, buffer) \in Nat,
         at_row(rows[i], next_offset(start, buffer), student + 1)
  PROVE  ReaderInv'
<1>1. /\ ReaderTypeOK /\ i \in File /\ i \in Nat /\ pc = "read"
      /\ student \in Nat \ {0} /\ student' = student
      /\ NUM_OF_GRADE_COMPONENTS \in Nat \ {0}
  <2>1. ReaderTypeOK /\ i \in File /\ pc = "read" /\ results' = results
    BY DEF ReaderInv, AboutToRead, GradeRead
  <2>2. student \in Nat \ {0} /\ student' = student
    BY <2>1 DEF ReaderTypeOK, student
  <2>3. QED BY <2>1, <2>2, GradeReaderAssumption DEF GradeReaderAssumption, File
<1>2. temp_grade' = temp_grade + rows[i][student] * Weight[i]
  BY DEF GradeRead
<1>3. rows[i][student] * Weight[i] \in Nat
  <2>1. /\ rows[i][student] \in 0 .. 100 /\ Weight \in [File -> 0 .. 100]
    BY GradeReaderAssumption DEF GradeReaderAssumption, File
  <2>2. \A a, b \in Nat : a * b \in Nat
    OBVIOUS
  <2>3. Weight[i] \in 0 .. 100
    BY <2>1, <1>1
  <2>4. \A a \in 0 .. 100 : a \in Nat
    OBVIOUS
  <2>5. QED BY <2>1, <2>2, <2>3, <2>4
<1>4. ReaderTypeOK'
  <2>1. temp_grade' \in Nat
    BY <1>1, <1>2, <1>3 DEF ReaderTypeOK
  <2>2. i' \in 1 .. NUM_OF_GRADE_COMPONENTS + 1
    BY <1>1 DEF GradeRead, File
  <2>3. files_offset' \in [File -> Nat]
    BY <1>1 DEF ReaderTypeOK, GradeRead
  <2>4. QED BY <1>1, <2>1, <2>2, <2>3 DEF ReaderTypeOK, GradeRead
<1>5. InStep'
  <2> SUFFICES ASSUME NEW f \in File
               PROVE  /\ at_row(rows[f], files_offset'[f], IF f < i + 1 THEN student + 1 ELSE student)
                      /\ f < i + 1 => student <= Len(rows[f])
    BY <1>1 DEF InStep, GradeRead
  <2>1. CASE f = i
    <3>1. files_offset'[f] = next_offset(start, buffer) /\ f < i + 1
      BY <1>1, <2>1 DEF GradeRead, ReaderTypeOK
    <3>2. QED BY <2>1, <3>1
  <2>2. CASE f # i
    <3>1. files_offset'[f] = files_offset[f] /\ (f < i + 1 <=> f < i)
      BY <1>1, <2>2 DEF GradeRead, ReaderTypeOK, File
    <3>2. /\ at_row(rows[f], files_offset[f], IF f < i THEN student + 1 ELSE student)
          /\ f < i => student <= Len(rows[f])
      BY DEF ReaderInv, InStep
    <3>3. QED BY <3>1, <3>2
  <2>3. QED BY <2>1, <2>2
<1>6. Graded'
  <2>1. i \in 0 .. NUM_OF_GRADE_COMPONENTS /\ i # 0
    BY <1>1 DEF File
  <2>2. total(rows, student)[i] = total(rows, student)[i - 1] + rows[i][student] * Weight[i]
    BY <2>1, TotalEquation
  <2>3. temp_grade' = total(rows, student)[i]
    BY <1>2, <2>2 DEF ReaderInv, Graded
  <2>4. i' - 1 = i /\ rows' = rows /\ results' = results
    BY <1>1 DEF GradeRead
  <2>5. QED BY <1>1, <2>3, <2>4 DEF ReaderInv, Graded
<1>7. HasCause'
  BY <1>1 DEF GradeRead, HasCause
<1>8. QED BY <1>4, <1>5, <1>6, <1>7 DEF ReaderInv

(* Whether a row was read, was the last one, or was not there.             *)
LEMMA RowOfNextFile ==
  ASSUME ReaderInv, AboutToRead
  PROVE  /\ rows[i] \in Seq(Grades) /\ Len(rows[i]) \in Nat /\ i \in File
         /\ at_row(rows[i], files_offset[i], student)
  BY RowsOfFile DEF ReaderInv, InStep, AboutToRead, File

LEMMA ReadRowStep ==
  ASSUME LastRowEnds, ReaderInv, ReadRow
  PROVE  ReaderInv'
<1>1. AboutToRead /\ Len(bytes_read(i)) = FILE_BUFFER
  BY DEF ReadRow
<1>2. PICK q \in Seq(Grades), n \in Nat \ {0}, o \in Nat, l \in Nat :
        q = rows[i] /\ n = student /\ o = files_offset[i] /\ l = Len(q)
  BY <1>1, RowOfNextFile, BytesRead
<1>3. i \in File /\ at_row(q, o, n)
  BY <1>1, <1>2, RowOfNextFile
<1>4. bytes_read(i) = got(text_of[q], o)
  <2>1. i \in missing => Len(bytes_read(i)) = 0
    BY <1>3, BytesRead
  <2>2. i \notin missing
    BY <1>1, <2>1 DEF FILE_BUFFER
  <2>3. QED BY <1>2, <1>3, <2>2, BytesRead
<1> DEFINE x == Len(got(text_of[q], o))
<1>a. x = 6
  BY <1>1, <1>4 DEF FILE_BUFFER
<1> HIDE DEF x
<1>b. x # 0 /\ ~(x < 6)
  BY <1>a
<1>5. n < Len(q)
  <2>1. ~(n > Len(q))
    <3> SUFFICES ASSUME n > Len(q) PROVE FALSE
      OBVIOUS
    <3>1. n \in Nat
      BY <1>2
    <3>2. x = 0
      BY <1>2, <1>3, <3>1, NoRowRead DEF x
    <3>3. QED BY <1>b, <3>2
  <2>2. n # Len(q)
    <3> SUFFICES ASSUME n = Len(q) PROVE FALSE
      OBVIOUS
    <3>1. n \in 1 .. Len(q)
      BY <1>2
    <3>2. read_buffer \in Buffer
      BY DEF ReaderInv, ReaderTypeOK
    <3>3. x < FILE_BUFFER
      BY <1>2, <1>3, <3>1, <3>2, LastRowRead DEF x
    <3>4. x < 6
      BY <3>3 DEF FILE_BUFFER
    <3>5. QED BY <1>b, <3>4
  <2>3. QED BY <1>2, <2>1, <2>2
<1>6. n \in 1 .. Len(q)
  BY <1>2, <1>5
<1> DEFINE b == cut_line(bytes_read(i))
<1>7. /\ q[n] \in Grades /\ b \in Buffer /\ atoi(b) = q[n]
      /\ o + strlen(b) + 1 \in Nat /\ at_row(q, o + strlen(b) + 1, n + 1)
  BY <1>2, <1>3, <1>4, <1>5, <1>6, RowRead
<1>8. GradeRead(b, files_offset[i])
  BY DEF ReadRow
<1> HIDE DEF b
<1>9. next_offset(files_offset[i], b) = o + strlen(b) + 1
  BY <1>2 DEF next_offset
<1>10. student <= Len(rows[i])
  BY <1>2, <1>5
<1>11. QED BY <1>1, <1>2, <1>7, <1>8, <1>9, <1>10, GradeReadStep

LEMMA ReadLastRowStep ==
  ASSUME LastRowEnds, ReaderInv, ReadLastRow
  PROVE  ReaderInv'
<1>1. /\ AboutToRead /\ Len(bytes_read(i)) < FILE_BUFFER /\ i \notin missing
      /\ file_len(i) - files_offset[i] = Len(bytes_read(i))
  BY DEF ReadLastRow
<1>2. PICK q \in Seq(Grades), n \in Nat \ {0}, o \in Nat, l \in Nat :
        q = rows[i] /\ n = student /\ o = files_offset[i] /\ l = Len(q)
  BY <1>1, RowOfNextFile, BytesRead
<1>3. i \in File /\ at_row(q, o, n)
  BY <1>1, <1>2, RowOfNextFile
<1>4. bytes_read(i) = got(text_of[q], o) /\ file_len(i) = Len(text_of[q])
  BY <1>1, <1>2, <1>3, BytesRead
<1>5. n = Len(q)
  <2>1. ~(n > Len(q))
    BY <1>1, <1>2, <1>3, <1>4, NoRowRead
  <2>2. ~(n < Len(q))
    <3> SUFFICES ASSUME n < Len(q) PROVE FALSE
      OBVIOUS
    <3>1. n \in 1 .. Len(q)
      BY <1>2
    <3>2. Len(got(text_of[q], o)) = FILE_BUFFER
      BY <1>2, <1>3, <3>1, RowRead
    <3>3. QED BY <1>1, <1>4, <3>2 DEF FILE_BUFFER
  <2>3. QED BY <1>2, <2>1, <2>2
<1>6. n \in 1 .. Len(q)
  BY <1>2, <1>5
<1>7. read_buffer \in Buffer
  BY DEF ReaderInv, ReaderTypeOK
<1> DEFINE b == over(bytes_read(i), read_buffer)
<1>8. /\ q[n] \in Grades /\ b \in Buffer /\ atoi(b) = q[n]
      /\ file_len(i) + strlen(b) + 1 \in Nat /\ at_row(q, file_len(i) + strlen(b) + 1, n + 1)
  <2> DEFINE c == over(got(text_of[q], o), read_buffer)
  <2>1. /\ q[n] \in Grades /\ c \in Buffer /\ atoi(c) = q[n]
        /\ Len(text_of[q]) + strlen(c) + 1 \in Nat /\ at_row(q, Len(text_of[q]) + strlen(c) + 1, n + 1)
    BY <1>2, <1>3, <1>5, <1>6, <1>7, LastRowRead, SMTT(20)
  <2>2. b = c
    BY <1>4
  <2> HIDE DEF b, c
  <2>3. QED BY <1>4, <2>1, <2>2
<1>9. GradeRead(b, file_len(i))
  BY DEF ReadLastRow
<1> HIDE DEF b
<1>10. next_offset(file_len(i), b) = file_len(i) + strlen(b) + 1
  BY DEF next_offset
<1>11. student <= Len(rows[i])
  BY <1>2, <1>5
<1>12. QED BY <1>1, <1>2, <1>8, <1>9, <1>10, <1>11, GradeReadStep
-----------------------------------------------------------------------------
(* A file that is there and does not deliver has no row of this student.   *)
LEMMA NotDelivered ==
  ASSUME LastRowEnds, ReaderInv, AboutToRead, i \notin missing,
         Len(bytes_read(i)) < FILE_BUFFER,
         file_len(i) - files_offset[i] # Len(bytes_read(i))
  PROVE  student > Len(rows[i])
<1>1. PICK q \in Seq(Grades), n \in Nat \ {0}, o \in Nat :
        q = rows[i] /\ n = student /\ o = files_offset[i]
  BY RowOfNextFile, BytesRead
<1>2. i \in File /\ at_row(q, o, n)
  BY <1>1, RowOfNextFile
<1>3. bytes_read(i) = got(text_of[q], o) /\ file_len(i) = Len(text_of[q])
  BY <1>1, <1>2, BytesRead
<1> DEFINE x == Len(got(text_of[q], o))
           t == Len(text_of[q])
<1>4. x < FILE_BUFFER /\ t - o # x
  BY <1>1, <1>3
<1> HIDE DEF x, t
<1>5. ~(x = FILE_BUFFER)
  BY <1>4 DEF FILE_BUFFER
<1>6. n > Len(q)
  <2>1. CASE n < Len(q)
    <3>1. n \in 1 .. Len(q)
      BY <2>1
    <3>2. x = FILE_BUFFER
      BY <1>2, <2>1, <3>1, RowRead DEF x
    <3>3. QED BY <1>5, <3>2
  <2>2. CASE n = Len(q)
    <3>1. n \in 1 .. Len(q) /\ read_buffer \in Buffer
      BY <2>2 DEF ReaderInv, ReaderTypeOK
    <3>2. t - o = x
      BY <1>2, <2>2, <3>1, LastRowRead DEF x, t
    <3>3. QED BY <1>4, <3>2
  <2>3. QED BY <2>1, <2>2
<1>7. QED BY <1>1, <1>6

(* The first file is not at its end while it has a row of this student.    *)
LEMMA EndOfFirstFile ==
  ASSUME LastRowEnds, ReaderInv, i = 1
  PROVE  student > Len(rows[1]) <=> ~(file_len(1) > files_offset[1])
<1>1. 1 \in File /\ ReaderTypeOK
  BY GradeReaderAssumption DEF GradeReaderAssumption, File, ReaderInv
<1>2. PICK q \in Seq(Grades), n \in Nat \ {0}, o \in Nat :
        q = rows[1] /\ n = student /\ o = files_offset[1]
  BY <1>1, RowsOfFile, BytesRead
<1>3. at_row(q, o, n)
  BY <1>1, <1>2 DEF ReaderInv, InStep
<1>4. PICK t \in Seq(Nat) : t = text_of[q]
  BY TextType
<1>5. file_len(1) = Len(t)
  BY <1>1, <1>2, <1>4, BytesRead
<1>6. CASE n > Len(q)
  <2>1. o > Len(t)
    BY <1>3, <1>4, <1>6 DEF at_row
  <2>2. QED BY <1>2, <1>5, <1>6, <2>1
<1>7. CASE ~(n > Len(q))
  <2>1. n \in 1 .. Len(q)
    BY <1>7
  <2>2. PICK m \in 3 .. 5 :
          /\ n = Len(q) => Len(text_of[q]) = o + m
          /\ n < Len(q) => o + m + 3 <= Len(text_of[q])
    BY <1>3, <2>1, RowInText
  <2>3. Len(t) = o + m \/ o + m + 3 <= Len(t)
    BY <1>4, <1>7, <2>2
  <2>4. Len(t) > o
    BY <2>2, <2>3
  <2>5. QED BY <1>2, <1>5, <1>7, <2>4
<1>8. QED BY <1>6, <1>7

LEMMA ReadFailsStep ==
  ASSUME LastRowEnds, ReaderInv, ReadFails
  PROVE  ReaderInv'
<1>1. /\ AboutToRead /\ Len(bytes_read(i)) < FILE_BUFFER
      /\ i \in missing \/ file_len(i) - files_offset[i] # Len(bytes_read(i))
      /\ read_buffer' = over(bytes_read(i), read_buffer)
      /\ Fail
  BY DEF ReadFails
<1>2. student' = student
  BY <1>1 DEF Fail, student
<1>3. i \in File /\ 1 \in File /\ student \in Nat /\ 1 <= i
  BY <1>1, RowOfNextFile, BytesRead, GradeReaderAssumption DEF GradeReaderAssumption, File
<1>4. ReaderTypeOK'
  <2>1. bytes_read(i) \in Seq(Nat) /\ read_buffer \in Buffer
    BY <1>3, BytesRead DEF ReaderInv, ReaderTypeOK
  <2>2. read_buffer' \in Buffer
    BY <1>1, <2>1, OverType
  <2>3. QED BY <1>1, <2>2 DEF ReaderInv, ReaderTypeOK, Fail
<1>5. InStep' /\ Graded'
  BY <1>1, <1>2 DEF ReaderInv, InStep, Graded, Fail
<1>6. missing # {} \/ \E f \in File : Len(rows[f]) < Len(rows[1])
  <2> SUFFICES ASSUME missing = {} PROVE \E f \in File : Len(rows[f]) < Len(rows[1])
    OBVIOUS
  <2>1. student > Len(rows[i])
    BY <1>1, NotDelivered
  <2>2. i # 1
    <3> SUFFICES ASSUME i = 1 PROVE FALSE
      OBVIOUS
    <3>1. file_len(1) > files_offset[1]
      BY <1>1 DEF AboutToRead, more_students
    <3>2. ~(file_len(1) > files_offset[1])
      BY <2>1, EndOfFirstFile
    <3>3. QED BY <3>1, <3>2
  <2>3. student <= Len(rows[1])
    BY <1>3, <2>2 DEF ReaderInv, InStep, File
  <2>4. Len(rows[i]) \in Nat /\ Len(rows[1]) \in Nat
    BY <1>3, RowsOfFile DEF ReaderInv
  <2>5. Len(rows[i]) < Len(rows[1])
    BY <1>3, <2>1, <2>3, <2>4
  <2>6. QED BY <1>3, <2>5
<1>7. HasCause'
  BY <1>1, <1>6 DEF HasCause, Fail
<1>8. QED BY <1>4, <1>5, <1>7 DEF ReaderInv

LEMMA WriteGradeStep ==
  ASSUME ReaderInv, WriteGrade
  PROVE  ReaderInv'
<1>1. /\ pc = "read" /\ i = NUM_OF_GRADE_COMPONENTS + 1
      /\ results' = Append(results, temp_grade \div 100) /\ i' = 1 /\ temp_grade' = 0
      /\ UNCHANGED <<rows, missing, files_offset, read_buffer, pc>>
  BY DEF WriteGrade
<1>2. NUM_OF_GRADE_COMPONENTS \in Nat \ {0} /\ results \in Seq(Nat) /\ temp_grade \in Nat
  BY GradeReaderAssumption DEF GradeReaderAssumption, ReaderInv, ReaderTypeOK
<1>3. temp_grade \div 100 \in Nat
  BY <1>2
<1>4. results' \in Seq(Nat) /\ Len(results') = Len(results) + 1 /\ student' = student + 1
  BY <1>1, <1>2, <1>3 DEF student
<1>5. ReaderTypeOK'
  BY <1>1, <1>2, <1>4 DEF ReaderInv, ReaderTypeOK
<1>6. InStep'
  <2> SUFFICES ASSUME NEW f \in File
               PROVE  at_row(rows[f], files_offset[f], student + 1) /\ ~(f < 1)
    BY <1>1, <1>4 DEF InStep
  <2>1. f < i /\ ~(f < 1)
    BY <1>1, <1>2 DEF File
  <2>2. QED BY <2>1 DEF ReaderInv, InStep
<1>7. Graded'
  <2>1. temp_grade' = total(rows, student + 1)[i' - 1]
    BY <1>1, <1>2, TotalEquation
  <2> SUFFICES ASSUME NEW n \in 1 .. Len(results')
               PROVE  /\ \A f \in File : n <= Len(rows[f])
                      /\ results'[n] = total(rows, n)[NUM_OF_GRADE_COMPONENTS] \div 100
    BY <1>1, <1>4, <2>1 DEF Graded
  <2>2. CASE n <= Len(results)
    <3>1. n \in 1 .. Len(results) /\ results'[n] = results[n]
      BY <1>1, <1>2, <1>3, <1>4, <2>2
    <3>2. QED BY <3>1 DEF ReaderInv, Graded
  <2>3. CASE ~(n <= Len(results))
    <3>1. n = student /\ results'[n] = temp_grade \div 100
      BY <1>1, <1>2, <1>3, <1>4, <2>3 DEF student
    <3>2. \A f \in File : f < i
      BY <1>1, <1>2 DEF File
    <3>3. \A f \in File : student <= Len(rows[f])
      BY <3>2 DEF ReaderInv, InStep
    <3>4. i - 1 = NUM_OF_GRADE_COMPONENTS
      BY <1>1, <1>2
    <3>5. QED BY <3>1, <3>3, <3>4 DEF ReaderInv, Graded
  <2>4. QED BY <2>2, <2>3
<1>8. HasCause'
  BY <1>1 DEF HasCause
<1>9. QED BY <1>5, <1>6, <1>7, <1>8 DEF ReaderInv

LEMMA StoppingStep ==
  ASSUME LastRowEnds, ReaderInv, Finish \/ WriteFails \/ ReaderStopped \/ UNCHANGED reader_vars
  PROVE  ReaderInv'
<1>1. /\ UNCHANGED <<rows, missing, files_offset, read_buffer, i, temp_grade, results>>
      /\ pc' \in {"read", "SUCCESS_CODE", "ERROR_CODE"}
  BY DEF Finish, WriteFails, ReaderStopped, Fail, reader_vars, ReaderInv, ReaderTypeOK
<1>2. student' = student
  BY <1>1 DEF student
<1>3. ReaderTypeOK' /\ InStep' /\ Graded'
  BY <1>1, <1>2 DEF ReaderInv, ReaderTypeOK, InStep, Graded
<1>4. HasCause'
  <2>1. CASE Finish
    <3>1. student > Len(rows[1])
      BY <2>1, EndOfFirstFile DEF Finish, more_students
    <3>2. QED BY <1>1, <1>2, <2>1, <3>1 DEF Finish, HasCause
  <2>2. CASE WriteFails
    BY <1>1, <2>2 DEF WriteFails, Fail, HasCause
  <2>3. CASE ReaderStopped \/ UNCHANGED reader_vars
    BY <1>2, <2>3 DEF ReaderStopped, reader_vars, ReaderInv, HasCause
  <2>4. QED BY <2>1, <2>2, <2>3
<1>5. QED BY <1>3, <1>4 DEF ReaderInv

(* Where every file has a row, and the last one ends with a line end, the  *)
(* files stay in step and the grades are those of the rows.                *)
THEOREM ReaderInvariant == ASSUME LastRowEnds, MinStudents > 0 PROVE ReaderSpec => []ReaderInv
<1>1. ReaderInit => ReaderInv
  BY InitReader
<1>2. ReaderInv /\ [ReaderNext]_reader_vars => ReaderInv'
  BY ReadRowStep, ReadLastRowStep, ReadFailsStep, WriteGradeStep, StoppingStep DEF ReaderNext
<1>3. QED BY <1>1, <1>2, PTL DEF ReaderSpec

LEMMA InvGivesGrades ==
  ASSUME ReaderInv
  PROVE  GradesAreRight
<1>1. ReaderTypeOK /\ results \in Seq(Nat) /\ 1 \in File
  BY GradeReaderAssumption DEF GradeReaderAssumption, ReaderInv, ReaderTypeOK, File
<1>2. \A f \in File : DOMAIN rows[f] = 1 .. Len(rows[f]) /\ Len(rows[f]) \in Nat
  BY <1>1, RowsOfFile
<1>3. DOMAIN results = 1 .. Len(results) /\ Len(results) \in Nat
  BY <1>1
<1>4. \A n \in DOMAIN results :
        /\ \A f \in File : n \in DOMAIN rows[f]
        /\ results[n] = total(rows, n)[NUM_OF_GRADE_COMPONENTS] \div 100
  BY <1>2, <1>3 DEF ReaderInv, Graded
<1>5. Len(results) <= Len(rows[1])
  <2>1. CASE Len(results) = 0
    BY <1>1, <1>2, <2>1
  <2>2. CASE Len(results) # 0
    <3>1. Len(results) \in 1 .. Len(results)
      BY <1>3, <2>2
    <3>2. QED BY <1>1, <3>1 DEF ReaderInv, Graded
  <2>3. QED BY <2>1, <2>2
<1>6. pc = "SUCCESS_CODE" => Len(results) = Len(rows[1])
  BY <1>1, <1>2, <1>3, <1>5 DEF ReaderInv, HasCause, student
<1>7. QED BY <1>4, <1>6 DEF ReaderInv, HasCause, GradesAreRight

THEOREM GradesAreRightHolds == ASSUME LastRowEnds, MinStudents > 0 PROVE ReaderSpec => []GradesAreRight
  BY ReaderInvariant, InvGivesGrades, PTL
=============================================================================
