----------------------------- MODULE PageTables -----------------------------
(***************************************************************************)
(* The tables of the paging simulator (Ex3, main.c): the page table, the   *)
(* frame table, the queue of frames whose use has ended, its counter and   *)
(* the output log, with the operations that change them.  Every operation  *)
(* is called by a thread that holds g_page_table_mutex_handle; who calls   *)
(* which one, and when, is in PagingSim.                                   *)
(***************************************************************************)
EXTENDS Integers, SequencesExt

CONSTANTS
  NumFrames,   \* g_num_of_frames
  Pages,       \* the virtual pages, indices of pg_page_table
  NoPage       \* what an entry of pg_frame_table holds before its first page

ASSUME TablesAssumption == /\ NumFrames \in Nat \ {0}
                           /\ NoPage \notin Pages

Frames  == 0 .. NumFrames - 1
NoFrame == -1          \* frame_number of a page that was never placed
Unused  == -1          \* NOT_USE_FRAME_END_TIME

VARIABLES
  page_table,       \* pg_page_table: where a page is, and until when
  frame_table,      \* pg_frame_table: which page a frame holds, and until when
  frame_queue,      \* pg_frame_queue_head: the linked list, head first
  available_frame,  \* g_avilable_frame: kept beside the list, by hand
  output            \* the lines written to Output.txt

tables == <<page_table, frame_table, frame_queue, available_frame, output>>

PageEntry  == [frame_number : Frames \cup {NoFrame}, valid : BOOLEAN, end_of_use : Int]
FrameEntry == [page_number : Pages \cup {NoPage}, end_time : Int]
LogLine    == [time : Int, page : Pages \cup {NoPage}, frame : Frames, kind : {"P", "E"}]

TablesTypeOK ==
  /\ page_table \in [Pages -> PageEntry]
  /\ frame_table \in [Frames -> FrameEntry]
  /\ frame_queue \in Seq(Frames)
  /\ available_frame \in Int
  /\ output \in Seq(LogLine)

(* create_tabels and initial_tables: only end_time and valid are written;  *)
(* the fields malloc leaves undefined get values no initialised entry has. *)
initial_tables ==
  /\ page_table = [p \in Pages |->
                     [frame_number |-> NoFrame, valid |-> FALSE, end_of_use |-> Unused]]
  /\ frame_table = [f \in Frames |-> [page_number |-> NoPage, end_time |-> Unused]]
  /\ frame_queue = <<>>
  /\ available_frame = 0
  /\ output = <<>>

max(a, b) == IF a > b THEN a ELSE b

Line(time, page, frame, kind) ==
  [time |-> time, page |-> page, frame |-> frame, kind |-> kind]

(* print_to_output_file appends a line, or fails and writes nothing.       *)
print_to_output_file(line, written) ==
  output' = IF written THEN Append(output, line) ELSE output

EmptyFrames == {f \in Frames : frame_table[f].end_time = Unused}

(* Variant: frame 0 is the answer when the scan finds nothing better.      *)
FirstEmptyFrame_Default(f) == \A g \in EmptyFrames : f =< g

(* get_empty_frame_ind scans from frame 0 upwards for an empty frame.      *)
FirstEmptyFrame(f) == f \in EmptyFrames /\ \A g \in EmptyFrames : f =< g

add_to_frame_queue(f) ==
  /\ frame_queue' = Append(frame_queue, f)
  /\ available_frame' = available_frame + 1

(* Variant: a frame in use again stays in the list.                        *)
remove_frame_from_queue_Forgotten(f) == UNCHANGED <<frame_queue, available_frame>>

(* Unlinks the first cell that holds f, and counts it off; a frame that    *)
(* is not in the list leaves both alone.                                   *)
remove_frame_from_queue(f) ==
  /\ frame_queue' = RemoveFirst(frame_queue, f)
  /\ available_frame' = IF Contains(frame_queue, f)
                        THEN available_frame - 1 ELSE available_frame

(* Variant: a use that would end now is left to a scan that has passed.    *)
new_end_of_use_NotProlonged(p, placement_time, work_time, now) ==
  max(page_table[p].end_of_use, placement_time + work_time)

(* The page is resident: extend its use.  A use that would end now has     *)
(* already been passed by the scan of this time, so it is prolonged.       *)
new_end_of_use(p, placement_time, work_time, now) ==
  LET end == max(page_table[p].end_of_use, placement_time + work_time)
  IN  IF end = now THEN end + work_time ELSE end

(* Variant: the frame table keeps the old end of use.                      *)
update_frame_in_table_PageOnly(p, placement_time, work_time, now) ==
  LET end == new_end_of_use(p, placement_time, work_time, now)
  IN  /\ page_table' = [page_table EXCEPT ![p].end_of_use = end]
      /\ remove_frame_from_queue(page_table[p].frame_number)
      /\ UNCHANGED <<frame_table, output>>

update_frame_in_table(p, placement_time, work_time, now) ==
  LET f   == page_table[p].frame_number
      end == new_end_of_use(p, placement_time, work_time, now)
  IN  /\ page_table' = [page_table EXCEPT ![p].end_of_use = end]
      /\ frame_table' = [frame_table EXCEPT ![f].end_time = end]
      /\ remove_frame_from_queue(f)
      /\ UNCHANGED output

(* Variant: the page table gets a frame number that counts from 1.         *)
update_empty_frame_FromOne(p, placement_time, work_time, written) ==
  \E f \in Frames :
    LET end == placement_time + work_time
    IN  /\ FirstEmptyFrame(f)
        /\ frame_table' = [frame_table EXCEPT ![f] = [page_number |-> p, end_time |-> end]]
        /\ page_table' = [page_table EXCEPT ![p] =
                            [frame_number |-> f + 1, valid |-> TRUE, end_of_use |-> end]]
        /\ print_to_output_file(Line(placement_time, p, f, "P"), written)
        /\ UNCHANGED <<frame_queue, available_frame>>

(* The first empty frame takes the page.  The tables are updated before    *)
(* the line is written, and stay updated if writing it fails.              *)
update_empty_frame(p, placement_time, work_time, written) ==
  \E f \in Frames :
    LET end == placement_time + work_time
    IN  /\ FirstEmptyFrame(f)
        /\ frame_table' = [frame_table EXCEPT ![f] = [page_number |-> p, end_time |-> end]]
        /\ page_table' = [page_table EXCEPT ![p] =
                            [frame_number |-> f, valid |-> TRUE, end_of_use |-> end]]
        /\ print_to_output_file(Line(placement_time, p, f, "P"), written)
        /\ UNCHANGED <<frame_queue, available_frame>>

(* Variant: the page table is left alone when the eviction is not written. *)
evicte_and_place_StopsAtFault(placement_time, work_time, p, eWritten, pWritten) ==
  LET f    == Head(frame_queue)
      time == max(frame_table[f].end_time, placement_time)
      old  == frame_table[f].page_number
      end  == time + work_time
  IN  /\ frame_table' = [frame_table EXCEPT ![f] = [page_number |-> p, end_time |-> end]]
      /\ page_table' = IF ~eWritten THEN page_table
                       ELSE [page_table EXCEPT
                          ![old].valid = FALSE,
                          ![p] = [frame_number |-> f, valid |-> TRUE, end_of_use |-> end]]
      /\ output' = output
      /\ frame_queue' = Tail(frame_queue)
      /\ available_frame' = available_frame - 1

(* evicte_and_place, and the decrement its only caller makes after it: the *)
(* head of the queue changes its page.  Neither result of the two prints   *)
(* is looked at, so a line that fails is missing from the file.            *)
evicte_and_place(placement_time, work_time, p, eWritten, pWritten) ==
  LET f    == Head(frame_queue)
      time == max(frame_table[f].end_time, placement_time)
      old  == frame_table[f].page_number
      end  == time + work_time
      kept(line, written) == IF written THEN <<line>> ELSE <<>>
  IN  /\ frame_table' = [frame_table EXCEPT ![f] = [page_number |-> p, end_time |-> end]]
      /\ page_table' = [page_table EXCEPT
                          ![old].valid = FALSE,
                          ![p] = [frame_number |-> f, valid |-> TRUE, end_of_use |-> end]]
      /\ output' = output \o kept(Line(time, old, f, "E"), eWritten)
                          \o kept(Line(time, p, f, "P"), pWritten)
      /\ frame_queue' = Tail(frame_queue)
      /\ available_frame' = available_frame - 1
=============================================================================
