--------------------------- MODULE PagingService ---------------------------
(***************************************************************************)
(* What the paging simulator (Ex3) does for the rows of its input, with    *)
(* no thread, mutex or semaphore in sight: each row asks for a page at the *)
(* time it starts and uses it for its work time; a row that finds neither  *)
(* its page nor an empty frame waits for its turn.  It is the promise to a *)
(* file in order, while no call fails.  The one surprise in it is the      *)
(* clock: two rows with one start time turn it back, and from then on a    *)
(* frame may be taken before its time.                                     *)
(***************************************************************************)
EXTENDS Integers, Sequences, FiniteSets

CONSTANTS
  NumRows,   \* rows of the input, numbered from 0 in their order
  Pages,
  WorkTimes,
  Frames,
  NoPage     \* what an empty frame holds

VARIABLES
  now,       \* the simulated time
  turned,    \* has the clock been turned back?
  waiting,   \* rows that wait, first come first
  served,    \* rows that have got their page
  memory,    \* the page each frame holds
  until      \* the time each frame is promised until, -1 before its first page

serviceVars == <<now, turned, waiting, served, memory, until>>

Init ==
  /\ now = 0 /\ turned = FALSE
  /\ waiting = <<>>
  /\ served = {}
  /\ memory = [f \in Frames |-> NoPage]
  /\ until = [f \in Frames |-> -1]

Resident(p) == \E f \in Frames : memory[f] = p
NextRow == Cardinality(served) + Len(waiting)

(* Frame f holds the page of the row now; the other frames are let alone.  *)
UseFrame(f, row) ==
  /\ memory' = [memory EXCEPT ![f] = row.page]
  /\ DOMAIN until' = Frames
  /\ \A g \in Frames \ {f} : until'[g] = until[g]

(* The frame that holds the page is promised for one work time from the    *)
(* time the row called, and for one more if that would end right now;      *)
(* nobody's promise gets shorter.                                          *)
Prolong(row) ==
  \E f \in Frames :
    LET called == row.at + row.work
        end    == IF until[f] > called THEN until[f] ELSE called
    IN  /\ memory[f] = row.page
        /\ UseFrame(f, row)
        /\ until'[f] \in {end, end + row.work} \ {now}

(* A row starts and is served at once: by the frame that holds its page,   *)
(* or by an empty one.                                                     *)
ServeAtOnce(row) ==
  /\ \/ Prolong(row)
     \/ ~Resident(row.page) /\ \E f \in Frames :
          memory[f] = NoPage /\ UseFrame(f, row) /\ until'[f] = now + row.work
  /\ served' = served \cup {row.row}
  /\ UNCHANGED <<now, turned, waiting>>

(* A row starts to wait, only when there is nothing it could use.          *)
StartWaiting(row) ==
  /\ ~Resident(row.page) /\ ~Resident(NoPage)
  /\ waiting' = Append(waiting, row)
  /\ UNCHANGED <<now, turned, served, memory, until>>

Arrive ==
  /\ NextRow < NumRows
  /\ \E p \in Pages, w \in WorkTimes :
       LET row == [row |-> NextRow, page |-> p, work |-> w, at |-> now]
       IN  ServeAtOnce(row) \/ StartWaiting(row)

(* The turn of the first row that waits: its page has come meanwhile, and  *)
(* the row gets what is left of one work time since it called; or a frame  *)
(* whose use has ended is given to it for one work time from now.          *)
ServeFirst ==
  /\ waiting # <<>>
  /\ LET row == Head(waiting)
     IN  /\ \/ Prolong(row)
            \/ ~Resident(row.page) /\ \E f \in Frames :
                 /\ UseFrame(f, row)
                 /\ until'[f] >= row.at + row.work
                 /\ ~turned => until[f] <= now /\ until'[f] = now + row.work
         /\ served' = served \cup {row.row}
  /\ waiting' = Tail(waiting)
  /\ UNCHANGED <<now, turned>>

(* Time passes only when nobody waits or every frame is still promised.    *)
Pass ==
  /\ waiting = <<>> \/ \A f \in Frames : memory[f] # NoPage /\ until[f] > now
  /\ now' = now + 1
  /\ UNCHANGED <<turned, waiting, served, memory, until>>

(* A row starts at the time of the row before it.                          *)
TurnBack ==
  /\ NextRow \in 1 .. NumRows - 1
  /\ now' = now - 1
  /\ turned' = TRUE
  /\ UNCHANGED <<waiting, served, memory, until>>

Next == Arrive \/ ServeFirst \/ Pass \/ TurnBack

Spec == Init /\ [][Next]_serviceVars
=============================================================================
