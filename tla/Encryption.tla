----------------------------- MODULE Encryption -----------------------------
(***************************************************************************)
(* Ex1: Father runs one Son process after the other, each to encrypt one   *)
(* block of the message with the key and to append it to the output file,  *)
(* and stops at the first one that fails.                                  *)
(***************************************************************************)
EXTENDS Integers, Sequences

CONSTANTS
  KEY_LEN,        \* 16: bytes of a block and of the key
  MaxBlocks,      \* bound: blocks of the message
  MayFail         \* whether reads, writes and process creations may fail

ASSUME EncryptionAssumption ==
  KEY_LEN \in Nat \ {0, 1} /\ MaxBlocks \in Nat /\ MayFail \in BOOLEAN

Missing == -1      \* get_file_len of a file that is not there: 2^32 - 1, as a signed number
Offset == {KEY_LEN * k : k \in 0 .. MaxBlocks}

VARIABLES
  file_len, key_len,    \* of the message and of the key
  offset,               \* of the block Father is at
  father_pc,
  son,                  \* the Son process of each offset
  output                \* the blocks this run appended: offset, and whether whole

vars == <<file_len, key_len, offset, father_pc, son, output>>

Init ==
  /\ file_len \in (0 .. KEY_LEN * MaxBlocks) \cup {Missing}
  /\ key_len \in {KEY_LEN - 1, KEY_LEN, Missing}
  /\ offset = 0
  /\ father_pc = "check"
  /\ son = [o \in Offset |-> "none"]
  /\ output = <<>>
-----------------------------------------------------------------------------
(* Father: main and create_son_process                                     *)

CheckLengths ==
  /\ father_pc = "check"
  /\ father_pc' = IF file_len = 0 THEN "SUCCESS_CODE"
                  ELSE IF file_len % KEY_LEN # 0 \/ key_len # KEY_LEN THEN "ERR_CODE"
                  ELSE "loop"
  /\ UNCHANGED <<file_len, key_len, offset, son, output>>

(* No memory for the command line, after good lengths.                     *)
NoMemory ==
  /\ MayFail
  /\ father_pc = "loop" /\ offset = 0
  /\ father_pc' = "ERR_CODE"
  /\ UNCHANGED <<file_len, key_len, offset, son, output>>

num_of_dig == file_len % 10

(* sprintf_s ends the program when the text does not fit: the command has  *)
(* room for num_of_dig digits.                                             *)
command_fits == num_of_dig > 0 /\ offset < 10 ^ num_of_dig

CreateSonProcess ==
  /\ father_pc = "loop" /\ offset < file_len /\ command_fits
  /\ son' = [son EXCEPT ![offset] = "started"]
  /\ father_pc' = "wait"
  /\ UNCHANGED <<file_len, key_len, offset, output>>

CreateSonFails ==
  /\ MayFail
  /\ father_pc = "loop" /\ offset < file_len /\ command_fits
  /\ father_pc' = "ERR_CODE"
  /\ UNCHANGED <<file_len, key_len, offset, son, output>>

CommandTooLong ==
  /\ father_pc = "loop" /\ offset < file_len /\ ~command_fits
  /\ father_pc' = "aborted"
  /\ UNCHANGED <<file_len, key_len, offset, son, output>>

(* Variant: Father looks at the Son without waiting for its end.           *)
exitcode_NoWait(code) ==
  son[offset] # "none" /\ code = IF son[offset] = "ERR_CODE" THEN "ERR_CODE" ELSE "SUCCESS_CODE"
exitcode(code) == son[offset] = code

(* Variant: the loop goes on whatever the Son returned.                    *)
goes_on_Always(code) == TRUE
goes_on(code) == code = "SUCCESS_CODE"

WaitForSon ==
  /\ father_pc = "wait"
  /\ \E code \in {"SUCCESS_CODE", "ERR_CODE"} :
       /\ exitcode(code)
       /\ IF goes_on(code)
          THEN offset' = offset + KEY_LEN /\ father_pc' = "loop"
          ELSE father_pc' = "ERR_CODE" /\ UNCHANGED offset
  /\ UNCHANGED <<file_len, key_len, son, output>>

Return ==
  /\ father_pc = "loop" /\ offset >= file_len
  /\ father_pc' = "SUCCESS_CODE"
  /\ UNCHANGED <<file_len, key_len, offset, son, output>>
-----------------------------------------------------------------------------
(* Son: main.  The key is applied to the block in memory.                  *)

SonEnds(o, code) ==
  /\ son' = [son EXCEPT ![o] = code]
  /\ UNCHANGED <<file_len, key_len, offset, father_pc>>

SonReads(o) ==
  /\ son[o] = "started"
  /\ SonEnds(o, "encoded")
  /\ UNCHANGED output

SonReadFails(o) ==
  /\ MayFail
  /\ son[o] = "started"
  /\ SonEnds(o, "ERR_CODE")
  /\ UNCHANGED output

SonWrites(o) ==
  /\ son[o] = "encoded"
  /\ SonEnds(o, "SUCCESS_CODE")
  /\ output' = Append(output, <<o, TRUE>>)

SonWriteFails(o) ==
  /\ MayFail
  /\ son[o] = "encoded"
  /\ SonEnds(o, "ERR_CODE")
  /\ output' \in {output, Append(output, <<o, FALSE>>)}
-----------------------------------------------------------------------------
Ended == father_pc \in {"SUCCESS_CODE", "ERR_CODE", "aborted"} /\ UNCHANGED vars

Next ==
  \/ CheckLengths \/ NoMemory \/ CreateSonProcess \/ CreateSonFails \/ CommandTooLong
  \/ WaitForSon \/ Return
  \/ \E o \in Offset : SonReads(o) \/ SonReadFails(o) \/ SonWrites(o) \/ SonWriteFails(o)
  \/ Ended

Spec == Init /\ [][Next]_vars
-----------------------------------------------------------------------------
(* The output is the message's blocks in their order, none twice and none  *)
(* left out, up to some block, and only its last block may be cut short:   *)
(* that of the Son on which Father stops.                                  *)
BlocksInOrder ==
  \A k \in DOMAIN output :
    /\ output[k][1] = KEY_LEN * (k - 1)
    /\ ~output[k][2] => k = Len(output) /\ son[output[k][1]] = "ERR_CODE"

(* Father succeeds only with the whole message encrypted, and an error     *)
(* leaves no Son behind that still works on the file.                      *)
SuccessIsWhole ==
  /\ father_pc = "SUCCESS_CODE" =>
       KEY_LEN * Len(output) = file_len /\ \A k \in DOMAIN output : output[k][2]
  /\ father_pc \in {"SUCCESS_CODE", "ERR_CODE"} =>
       \A o \in Offset : son[o] \notin {"started", "encoded"}
=============================================================================
