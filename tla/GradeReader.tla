----------------------------- MODULE GradeReader -----------------------------
(***************************************************************************)
(* Ex2, one school: the grade files are read in step, one row of each per  *)
(* student, through one buffer that nobody clears, and the weighted grade  *)
(* is appended to the school's result file.                                *)
(***************************************************************************)
EXTENDS Integers, Sequences

CONSTANTS
  NUM_OF_GRADE_COMPONENTS,
  Weight,           \* school_grade_waight_commponents, in percent
  Grades,           \* the grades students have
  MinStudents,      \* fewest rows of a file
  MaxStudents,      \* bound: rows of a file
  LastRowEnds,      \* whether the last row of a file ends with a line end
  MayFail           \* whether a file may be missing or a write fail

ASSUME GradeReaderAssumption ==
  /\ NUM_OF_GRADE_COMPONENTS \in Nat \ {0} /\ MinStudents \in Nat /\ MaxStudents \in Nat
  /\ Grades \subseteq 0 .. 100
  /\ Weight \in [1 .. NUM_OF_GRADE_COMPONENTS -> 0 .. 100]
  /\ LastRowEnds \in BOOLEAN /\ MayFail \in BOOLEAN

File == 1 .. NUM_OF_GRADE_COMPONENTS
FILE_BUFFER == 6
NUL == 0
LF == 10
CR == 13
Digit == 48 .. 57

VARIABLES
  rows,            \* what the files hold: the grades of the students
  missing,         \* a file that is not there
  files_offset,
  read_buffer,
  i,               \* the file to be read next for this student
  temp_grade,
  results,         \* the whole rows of the school's result file
  pc

reader_vars == <<rows, missing, files_offset, read_buffer, i, temp_grade, results, pc>>
-----------------------------------------------------------------------------
(* The text of a file: digits, CR LF.                                      *)
digits(n) ==
  IF n < 10 THEN <<48 + n>>
  ELSE IF n < 100 THEN <<48 + n \div 10, 48 + (n % 10)>>
  ELSE <<48 + n \div 100, 48 + ((n \div 10) % 10), 48 + (n % 10)>>

text_of[students \in Seq(Grades)] ==
  IF students = <<>> THEN <<>>
  ELSE LET line == digits(Head(students)) IN
       IF Tail(students) = <<>> /\ ~LastRowEnds THEN line
       ELSE line \o <<CR, LF>> \o text_of[Tail(students)]

text(f) == text_of[rows[f]]
file_len(f) == Len(text(f))

(* What read_from_file delivers.                                           *)
bytes_read(f) ==
  IF f \in missing THEN <<>>
  ELSE LET last == files_offset[f] + FILE_BUFFER IN
       SubSeq(text(f), files_offset[f] + 1, IF last <= file_len(f) THEN last ELSE file_len(f))

(* The new bytes over the old ones.                                        *)
over(new, old) == [k \in 1 .. FILE_BUFFER |-> IF k <= Len(new) THEN new[k] ELSE old[k]]

FirstPlace(byte, buffer) ==
  CHOOSE k \in DOMAIN buffer : buffer[k] = byte /\ \A j \in 1 .. k - 1 : buffer[j] # byte

(* strchr, and the end of the string put in its place.                     *)
cut_line(buffer) == [buffer EXCEPT ![FirstPlace(LF, buffer)] = NUL]

(* strlen; where no NUL is left it runs on behind the buffer, and any      *)
(* value from its length on leads to the same.                             *)
strlen(buffer) ==
  IF \E k \in DOMAIN buffer : buffer[k] = NUL THEN FirstPlace(NUL, buffer) - 1 ELSE FILE_BUFFER

atoi(buffer) ==
  LET n == CHOOSE k \in 0 .. FILE_BUFFER :
             /\ \A j \in 1 .. k : buffer[j] \in Digit
             /\ k < FILE_BUFFER => buffer[k + 1] \notin Digit
      value[k \in 0 .. FILE_BUFFER] ==
        IF k = 0 THEN 0 ELSE 10 * value[k - 1] + buffer[k] - 48
  IN value[n]
-----------------------------------------------------------------------------
Rows == UNION {[1 .. n -> Grades] : n \in MinStudents .. MaxStudents}

ReaderInit ==
  /\ rows \in [File -> Rows]
  /\ missing \in IF MayFail THEN {{}} \cup {{f} : f \in File} ELSE {{}}
  /\ files_offset = [f \in File |-> 0]
  /\ read_buffer = [k \in 1 .. FILE_BUFFER |-> NUL]
  /\ i = 1
  /\ temp_grade = 0
  /\ results = <<>>
  /\ pc = "read"

(* The loop runs while the first file is not read to its end; the length   *)
(* of a missing file is the largest number there is.                       *)
more_students == 1 \in missing \/ file_len(1) > files_offset[1]

(* Variant: the line end is not skipped.                                   *)
next_offset_AtEnd(start, buffer) == start + strlen(buffer)
next_offset(start, buffer) == start + strlen(buffer) + 1

GradeRead(buffer, start) ==
  /\ read_buffer' = buffer
  /\ files_offset' = [files_offset EXCEPT ![i] = next_offset(start, buffer)]
  /\ temp_grade' = temp_grade + atoi(buffer) * Weight[i]
  /\ i' = i + 1
  /\ UNCHANGED <<rows, missing, results, pc>>

AboutToRead == pc = "read" /\ i \in File /\ (i > 1 \/ more_students)

ReadRow ==
  /\ AboutToRead /\ Len(bytes_read(i)) = FILE_BUFFER
  /\ GradeRead(cut_line(bytes_read(i)), files_offset[i])

(* Fewer bytes, and no more in the file: taken for the last row.           *)
ReadLastRow ==
  /\ AboutToRead /\ Len(bytes_read(i)) < FILE_BUFFER
  /\ i \notin missing /\ file_len(i) - files_offset[i] = Len(bytes_read(i))
  /\ GradeRead(over(bytes_read(i), read_buffer), file_len(i))

Fail == pc' = "ERROR_CODE" /\ UNCHANGED <<rows, missing, files_offset, i, temp_grade, results>>

ReadFails ==
  /\ AboutToRead /\ Len(bytes_read(i)) < FILE_BUFFER
  /\ i \in missing \/ file_len(i) - files_offset[i] # Len(bytes_read(i))
  /\ read_buffer' = over(bytes_read(i), read_buffer)
  /\ Fail

(* The grade is the weighted sum over 100, cut to an integer.              *)
WriteGrade ==
  /\ pc = "read" /\ i = NUM_OF_GRADE_COMPONENTS + 1
  /\ results' = Append(results, temp_grade \div 100)
  /\ i' = 1 /\ temp_grade' = 0
  /\ UNCHANGED <<rows, missing, files_offset, read_buffer, pc>>

(* A part of a row that was written all the same is not in results.       *)
WriteFails ==
  /\ MayFail
  /\ pc = "read" /\ i = NUM_OF_GRADE_COMPONENTS + 1
  /\ Fail /\ UNCHANGED read_buffer

Finish ==
  /\ pc = "read" /\ i = 1 /\ ~more_students
  /\ pc' = "SUCCESS_CODE"
  /\ UNCHANGED <<rows, missing, files_offset, read_buffer, i, temp_grade, results>>

ReaderStopped == pc # "read" /\ UNCHANGED reader_vars

ReaderNext == ReadRow \/ ReadLastRow \/ ReadFails \/ WriteGrade \/ WriteFails \/ Finish \/ ReaderStopped

ReaderSpec == ReaderInit /\ [][ReaderNext]_reader_vars
-----------------------------------------------------------------------------
(* The weighted grades of a student in the first files, by their rows.     *)
total(files, n) ==
  LET sum[f \in 0 .. NUM_OF_GRADE_COMPONENTS] ==
        IF f = 0 THEN 0 ELSE sum[f - 1] + files[f][n] * Weight[f]
  IN sum

(* Each row is a student's grade ("each row in those is student grate",    *)
(* "write total grade for eche student", lines 279-280): at any time the   *)
(* result file holds the right grades of the first students, and of all of *)
(* them when the school succeeds; it fails only when a file is missing,    *)
(* has fewer rows than the first one, or cannot be written.                *)
GradesAreRight ==
  /\ \A n \in DOMAIN results :
       /\ \A f \in File : n \in DOMAIN rows[f]
       /\ results[n] = total(rows, n)[NUM_OF_GRADE_COMPONENTS] \div 100
  /\ pc = "SUCCESS_CODE" => Len(results) = Len(rows[1])
  /\ pc = "ERROR_CODE" =>
       \/ missing # {}
       \/ \E f \in File : Len(rows[f]) < Len(rows[1])
       \/ MayFail /\ i = NUM_OF_GRADE_COMPONENTS + 1
=============================================================================
