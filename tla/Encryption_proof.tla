-------------------------- MODULE Encryption_proof --------------------------
(***************************************************************************)
(* Proofs about Father and Son, for messages of any length, any length of  *)
(* the key, and whichever calls fail.                                      *)
(***************************************************************************)
EXTENDS Encryption, TLAPS

TypeOK ==
  /\ file_len \in (0 .. KEY_LEN * MaxBlocks) \cup {Missing}
  /\ offset \in Offset
  /\ father_pc \in {"check", "loop", "wait", "SUCCESS_CODE", "ERR_CODE", "aborted"}
  /\ son \in [Offset -> {"none", "started", "encoded", "SUCCESS_CODE", "ERR_CODE"}]
  /\ output \in Seq(Int \X BOOLEAN)

Works(o) == son[o] \in {"started", "encoded"}
Idle == \A o \in Offset : ~Works(o)

WholeBlocks == \E m \in 0 .. MaxBlocks : file_len = KEY_LEN * m

Placed == \A k \in DOMAIN output : output[k][1] = KEY_LEN * (k - 1)
AllWhole == \A k \in DOMAIN output : output[k][2]
LastMayBeCut ==
  \A k \in DOMAIN output : ~output[k][2] => k = Len(output) /\ son[output[k][1]] = "ERR_CODE"

(* While Father waits, only the Son of its block may work, and what it has *)
(* done shows in the length of the output.                                 *)
Waiting ==
  /\ WholeBlocks /\ offset < file_len
  /\ \A o \in Offset \ {offset} : ~Works(o)
  /\ son[offset] # "none"
  /\ Works(offset) => AllWhole /\ offset = KEY_LEN * Len(output)
  /\ son[offset] = "SUCCESS_CODE" => AllWhole /\ offset + KEY_LEN = KEY_LEN * Len(output)
  /\ son[offset] = "ERR_CODE" => LastMayBeCut

(* What Father knows at each of its places.                                *)
EncryptionInv ==
  /\ TypeOK
  /\ Placed
  /\ father_pc = "check" => Idle /\ output = <<>> /\ offset = 0
  /\ father_pc = "loop" =>
       /\ Idle /\ AllWhole /\ WholeBlocks
       /\ offset = KEY_LEN * Len(output) /\ offset <= file_len
  /\ father_pc = "wait" => Waiting
  /\ father_pc = "SUCCESS_CODE" => Idle /\ AllWhole /\ file_len = KEY_LEN * Len(output)
  /\ father_pc \in {"ERR_CODE", "aborted"} => Idle /\ LastMayBeCut
-----------------------------------------------------------------------------
(* Multiples of the length of a block.                                     *)

LEMMA NextBlock ==
  ASSUME NEW a \in Nat, NEW b \in Nat, KEY_LEN * a < KEY_LEN * b
  PROVE  /\ KEY_LEN * a + KEY_LEN = KEY_LEN * (a + 1)
         /\ a + 1 <= b
         /\ KEY_LEN * (a + 1) <= KEY_LEN * b
<1>1. KEY_LEN \in Nat /\ KEY_LEN > 0
  BY EncryptionAssumption DEF EncryptionAssumption
<1>2. KEY_LEN * a + KEY_LEN = KEY_LEN * (a + 1)
  BY <1>1
<1>3. ASSUME a >= b PROVE KEY_LEN * a >= KEY_LEN * b
  BY <1>1, <1>3
<1>4. a + 1 <= b
  BY <1>3, <1>1
<1>5. KEY_LEN * (a + 1) <= KEY_LEN * b
  BY <1>1, <1>4
<1>6. QED BY <1>2, <1>4, <1>5

(* A length without a remainder is a number of whole blocks; that of a     *)
(* missing file has one.                                                   *)
LEMMA NoRemainder ==
  ASSUME file_len \in (0 .. KEY_LEN * MaxBlocks) \cup {Missing}, file_len % KEY_LEN = 0
  PROVE  WholeBlocks
<1>1. KEY_LEN \in Nat /\ KEY_LEN > 1 /\ MaxBlocks \in Nat
  BY EncryptionAssumption DEF EncryptionAssumption
<1>2. (-1) % KEY_LEN # 0
  BY <1>1
<1>3. file_len \in 0 .. KEY_LEN * MaxBlocks
  BY <1>2 DEF Missing
<1> DEFINE m == file_len \div KEY_LEN
<1>4. file_len = KEY_LEN * m /\ m \in Int
  BY <1>1, <1>3
<1>5. m >= 0
  BY <1>1, <1>3, <1>4
<1> HIDE DEF m
<1>6. ASSUME m > MaxBlocks PROVE FALSE
  <2>1. KEY_LEN * m >= KEY_LEN * (MaxBlocks + 1)
    BY <1>1, <1>4, <1>6
  <2>2. KEY_LEN * (MaxBlocks + 1) = KEY_LEN * MaxBlocks + KEY_LEN
    BY <1>1
  <2>3. KEY_LEN * MaxBlocks \in Int
    BY <1>1
  <2>4. QED BY <1>1, <2>1, <2>2, <2>3, <1>3, <1>4
<1>7. QED BY <1>1, <1>4, <1>5, <1>6 DEF WholeBlocks
-----------------------------------------------------------------------------
(* Father.                                                                 *)

LEMMA InitEncryption == Init => EncryptionInv
<1> SUFFICES ASSUME Init PROVE EncryptionInv
  OBVIOUS
<1>1. 0 \in Offset
  <2>1. 0 \in 0 .. MaxBlocks /\ KEY_LEN * 0 = 0
    BY EncryptionAssumption DEF EncryptionAssumption
  <2>2. QED BY <2>1 DEF Offset
<1>2. TypeOK
  BY <1>1 DEF Init, TypeOK
<1>3. QED BY <1>2 DEF Init, EncryptionInv, Placed, Idle, Works

LEMMA CheckLengthsKeeps == ASSUME EncryptionInv, CheckLengths PROVE EncryptionInv'
<1>1. TypeOK'
  BY DEF EncryptionInv, CheckLengths, TypeOK
<1>2. father_pc' = "loop" => WholeBlocks'
  <2>1. ASSUME father_pc' = "loop" PROVE file_len % KEY_LEN = 0
    BY <2>1 DEF CheckLengths
  <2>2. ASSUME father_pc' = "loop" PROVE WholeBlocks
    BY <2>1, <2>2, NoRemainder DEF EncryptionInv, TypeOK
  <2>3. QED BY <2>2 DEF CheckLengths, WholeBlocks
<1>3. KEY_LEN * 0 = 0 /\ Len(<<>>) = 0
  BY EncryptionAssumption DEF EncryptionAssumption
<1>4. WholeBlocks => file_len >= 0
  BY EncryptionAssumption DEF EncryptionAssumption, WholeBlocks
<1>5. output = <<>> /\ offset = 0 /\ Idle /\ UNCHANGED <<file_len, offset, son, output>>
  BY DEF EncryptionInv, CheckLengths
<1>6. \/ father_pc' = "loop" \/ father_pc' = "ERR_CODE"
      \/ father_pc' = "SUCCESS_CODE" /\ file_len = 0
  BY Zenon DEF CheckLengths
<1>7. QED
  BY <1>1, <1>2, <1>3, <1>4, <1>5, <1>6
     DEF EncryptionInv, Placed, Idle, Works, AllWhole, LastMayBeCut, WholeBlocks

LEMMA WholeIsFine == AllWhole => LastMayBeCut
  BY DEF AllWhole, LastMayBeCut

(* The steps after which Father gives up, before it starts a Son.          *)
LEMMA GivingUpKeeps ==
  ASSUME EncryptionInv, NoMemory \/ CreateSonFails \/ CommandTooLong
  PROVE  EncryptionInv'
<1>1. father_pc = "loop" /\ father_pc' \in {"ERR_CODE", "aborted"}
      /\ UNCHANGED <<file_len, offset, son, output>>
  BY DEF NoMemory, CreateSonFails, CommandTooLong
<1>2. Idle /\ LastMayBeCut
  BY <1>1, WholeIsFine DEF EncryptionInv
<1>3. QED
  BY <1>1, <1>2 DEF EncryptionInv, TypeOK, Placed, Idle, Works, LastMayBeCut

LEMMA CreateSonKeeps == ASSUME EncryptionInv, CreateSonProcess PROVE EncryptionInv'
<1>1. /\ Idle /\ AllWhole /\ WholeBlocks
      /\ offset = KEY_LEN * Len(output) /\ offset < file_len
  BY DEF EncryptionInv, CreateSonProcess
<1>2. TypeOK'
  BY DEF EncryptionInv, TypeOK, CreateSonProcess
<1>3. Waiting'
  BY <1>1 DEF EncryptionInv, TypeOK, CreateSonProcess, Waiting, Works, Idle, WholeBlocks, AllWhole
<1>4. Placed'
  BY DEF EncryptionInv, Placed, CreateSonProcess
<1>5. QED BY <1>2, <1>3, <1>4 DEF EncryptionInv, CreateSonProcess

LEMMA WaitForSonKeeps == ASSUME EncryptionInv, WaitForSon PROVE EncryptionInv'
<1>1. Waiting /\ TypeOK /\ Placed /\ UNCHANGED <<file_len, son, output>>
  BY DEF EncryptionInv, WaitForSon
<1>2. Placed' /\ (Idle <=> Idle') /\ (AllWhole <=> AllWhole') /\ (LastMayBeCut <=> LastMayBeCut')
      /\ (WholeBlocks <=> WholeBlocks')
  BY <1>1 DEF Placed, Idle, Works, AllWhole, LastMayBeCut, WholeBlocks
<1>3. CASE son[offset] = "ERR_CODE"
  <2>1. father_pc' = "ERR_CODE" /\ UNCHANGED offset
    BY <1>3 DEF WaitForSon, exitcode, goes_on
  <2>2. Idle /\ LastMayBeCut
    BY <1>1, <1>3 DEF Waiting, Idle, Works
  <2>3. QED BY <1>1, <1>2, <2>1, <2>2 DEF EncryptionInv, TypeOK
<1>4. CASE son[offset] = "SUCCESS_CODE"
  <2>1. father_pc' = "loop" /\ offset' = offset + KEY_LEN
    BY <1>4 DEF WaitForSon, exitcode, goes_on
  <2>2. Idle /\ AllWhole /\ offset' = KEY_LEN * Len(output)
    BY <1>1, <1>4, <2>1 DEF Waiting, Idle, Works
  <2>3. PICK k \in 0 .. MaxBlocks : offset = KEY_LEN * k
    BY <1>1 DEF TypeOK, Offset
  <2>4. PICK m \in 0 .. MaxBlocks : file_len = KEY_LEN * m
    BY <1>1 DEF Waiting, WholeBlocks
  <2>5. k \in Nat /\ m \in Nat /\ KEY_LEN * k < KEY_LEN * m
    BY <1>1, <2>3, <2>4 DEF Waiting
  <2>6. offset' = KEY_LEN * (k + 1) /\ k + 1 <= m /\ offset' <= file_len
    BY <2>1, <2>3, <2>4, <2>5, NextBlock
  <2>7. k + 1 \in 0 .. MaxBlocks
    BY <2>4, <2>5, <2>6, EncryptionAssumption DEF EncryptionAssumption
  <2>8. offset' \in Offset
    BY <2>6, <2>7 DEF Offset
  <2>9. TypeOK'
    BY <1>1, <2>1, <2>8 DEF TypeOK
  <2>10. WholeBlocks
    BY <1>1 DEF Waiting
  <2>11. QED BY <1>1, <1>2, <2>1, <2>2, <2>6, <2>9, <2>10 DEF EncryptionInv
<1>5. QED BY <1>3, <1>4 DEF WaitForSon, exitcode

LEMMA ReturnKeeps == ASSUME EncryptionInv, Return PROVE EncryptionInv'
<1>1. /\ Idle /\ AllWhole /\ WholeBlocks
      /\ offset = KEY_LEN * Len(output) /\ offset <= file_len /\ offset >= file_len
      /\ father_pc' = "SUCCESS_CODE" /\ UNCHANGED <<file_len, offset, son, output>>
  BY DEF EncryptionInv, Return
<1>2. file_len = KEY_LEN * Len(output)
  <2>1. file_len \in Int /\ offset \in Int
    BY EncryptionAssumption DEF EncryptionAssumption, EncryptionInv, TypeOK, Missing, Offset
  <2>2. QED BY <1>1, <2>1
<1>3. QED
  BY <1>1, <1>2 DEF EncryptionInv, TypeOK, Placed, Idle, Works, AllWhole
-----------------------------------------------------------------------------
(* Son.  It works only while Father waits for it.                          *)

LEMMA SonIsAwaited ==
  ASSUME EncryptionInv, NEW o \in Offset, Works(o)
  PROVE  /\ father_pc = "wait" /\ o = offset
         /\ AllWhole /\ offset = KEY_LEN * Len(output)
  BY DEF EncryptionInv, TypeOK, Idle, Waiting

(* What is left of the invariant's proof once the output is known.         *)
LEMMA SonStepKeeps ==
  ASSUME EncryptionInv, NEW code \in {"encoded", "SUCCESS_CODE", "ERR_CODE"},
         SonEnds(offset, code), father_pc = "wait", AllWhole,
         output' \in Seq(Int \X BOOLEAN), Placed',
         code = "encoded" => AllWhole' /\ offset = KEY_LEN * Len(output'),
         code = "SUCCESS_CODE" => AllWhole' /\ offset + KEY_LEN = KEY_LEN * Len(output'),
         code = "ERR_CODE" => LastMayBeCut'
  PROVE  EncryptionInv'
<1>1. TypeOK'
  BY DEF EncryptionInv, TypeOK, SonEnds
<1>2. son'[offset'] = code /\ father_pc' = "wait"
      /\ UNCHANGED <<file_len, offset>>
      /\ \A o \in Offset \ {offset} : son'[o] = son[o]
  BY DEF EncryptionInv, TypeOK, SonEnds
<1>3. Waiting'
  BY <1>2 DEF EncryptionInv, Waiting, Works, WholeBlocks
<1>4. QED BY <1>1, <1>2, <1>3 DEF EncryptionInv

LEMMA SonReadsKeeps ==
  ASSUME EncryptionInv, NEW o \in Offset, SonReads(o) \/ SonReadFails(o)
  PROVE  EncryptionInv'
<1>1. Works(o) /\ UNCHANGED output
  BY DEF SonReads, SonReadFails, Works
<1>2. father_pc = "wait" /\ o = offset /\ AllWhole /\ offset = KEY_LEN * Len(output)
  BY <1>1, SonIsAwaited
<1>3. /\ output' \in Seq(Int \X BOOLEAN)
      /\ Placed' /\ AllWhole' /\ LastMayBeCut' /\ offset = KEY_LEN * Len(output')
  BY <1>1, <1>2 DEF EncryptionInv, TypeOK, Placed, AllWhole, LastMayBeCut
<1>4. CASE SonReads(o)
  BY <1>2, <1>3, <1>4, SonStepKeeps DEF SonReads
<1>5. CASE SonReadFails(o)
  BY <1>2, <1>3, <1>5, SonStepKeeps DEF SonReadFails
<1>6. QED BY <1>4, <1>5

(* A block appended at the offset where Father is stands in its place.     *)
LEMMA BlockAppended ==
  ASSUME EncryptionInv, NEW whole \in BOOLEAN, AllWhole, father_pc = "wait",
         offset = KEY_LEN * Len(output), output' = Append(output, <<offset, whole>>)
  PROVE  /\ output' \in Seq(Int \X BOOLEAN)
         /\ Placed'
         /\ Len(output') = Len(output) + 1
         /\ output'[Len(output')] = <<offset, whole>>
         /\ \A k \in 1 .. Len(output) : output'[k][2]
         /\ offset + KEY_LEN = KEY_LEN * Len(output')
<1>1. KEY_LEN \in Nat /\ offset \in Int
  BY EncryptionAssumption DEF EncryptionAssumption, EncryptionInv, TypeOK, Offset
<1>2. output \in Seq(Int \X BOOLEAN) /\ <<offset, whole>> \in Int \X BOOLEAN
  BY <1>1 DEF EncryptionInv, TypeOK
<1>3. /\ output' \in Seq(Int \X BOOLEAN)
      /\ Len(output') = Len(output) + 1
      /\ output'[Len(output')] = <<offset, whole>>
      /\ \A k \in 1 .. Len(output) : output'[k] = output[k]
      /\ DOMAIN output' = 1 .. Len(output) + 1 /\ DOMAIN output = 1 .. Len(output)
      /\ Len(output) \in Nat
  BY <1>2
<1>4. KEY_LEN * (Len(output) + 1 - 1) = offset
  BY <1>1, <1>3
<1>5. Placed'
  <2> SUFFICES ASSUME NEW k \in 1 .. Len(output) + 1
               PROVE  output'[k][1] = KEY_LEN * (k - 1)
    BY <1>3 DEF Placed
  <2>1. CASE k = Len(output) + 1
    BY <1>3, <1>4, <2>1
  <2>2. CASE k \in 1 .. Len(output)
    BY <1>3, <2>2 DEF EncryptionInv, Placed
  <2>3. QED BY <1>3, <2>1, <2>2
<1>6. offset + KEY_LEN = KEY_LEN * (Len(output) + 1)
  BY <1>1, <1>3
<1>7. QED BY <1>3, <1>5, <1>6 DEF AllWhole

LEMMA TrueComponent == ASSUME NEW b, NEW o, b = <<o, TRUE>> PROVE b[2]
  OBVIOUS

LEMMA SonWritesKeeps ==
  ASSUME EncryptionInv, NEW o \in Offset, SonWrites(o)
  PROVE  EncryptionInv'
<1>1. father_pc = "wait" /\ o = offset /\ AllWhole /\ offset = KEY_LEN * Len(output)
  BY SonIsAwaited DEF SonWrites, Works
<1>2. output' = Append(output, <<offset, TRUE>>)
  BY <1>1 DEF SonWrites
<1>3. /\ output' \in Seq(Int \X BOOLEAN)
      /\ Placed'
      /\ Len(output') = Len(output) + 1
      /\ output'[Len(output')] = <<offset, TRUE>>
      /\ \A k \in 1 .. Len(output) : output'[k][2]
      /\ offset + KEY_LEN = KEY_LEN * Len(output')
  BY <1>1, <1>2, BlockAppended
<1>4. AllWhole'
  <2>1. DOMAIN output' = 1 .. Len(output) + 1 /\ Len(output) \in Nat
    BY <1>3 DEF EncryptionInv, TypeOK
  <2>2. output'[Len(output) + 1][2]
    <3>1. output'[Len(output) + 1] = <<offset, TRUE>>
      BY <1>3
    <3>2. QED BY <3>1, TrueComponent
  <2>3. ASSUME NEW k \in DOMAIN output' PROVE output'[k][2]
    <3>1. k \in 1 .. Len(output) \/ k = Len(output) + 1
      BY <2>1
    <3>2. QED BY <1>3, <2>2, <3>1
  <2>4. QED BY <2>3 DEF AllWhole
<1>5. QED BY <1>1, <1>3, <1>4, SonStepKeeps DEF SonWrites

LEMMA SonWriteFailsKeeps ==
  ASSUME EncryptionInv, NEW o \in Offset, SonWriteFails(o)
  PROVE  EncryptionInv'
<1>1. father_pc = "wait" /\ o = offset /\ AllWhole /\ offset = KEY_LEN * Len(output)
  BY SonIsAwaited DEF SonWriteFails, Works
<1>2. CASE output' = output
  <2>1. output' \in Seq(Int \X BOOLEAN) /\ Placed' /\ LastMayBeCut'
    BY <1>1, <1>2 DEF EncryptionInv, TypeOK, Placed, AllWhole, LastMayBeCut
  <2>2. QED BY <1>1, <2>1, SonStepKeeps DEF SonWriteFails
<1>3. CASE output' = Append(output, <<offset, FALSE>>)
  <2>1. /\ output' \in Seq(Int \X BOOLEAN)
        /\ Placed'
        /\ Len(output') = Len(output) + 1
        /\ output'[Len(output')] = <<offset, FALSE>>
        /\ \A k \in 1 .. Len(output) : output'[k][2]
    BY <1>1, <1>3, BlockAppended
  <2>2. son'[offset] = "ERR_CODE"
    BY <1>1 DEF EncryptionInv, TypeOK, SonWriteFails, SonEnds
  <2>3. LastMayBeCut'
    BY <2>1, <2>2 DEF LastMayBeCut
  <2>4. QED BY <1>1, <2>1, <2>3, SonStepKeeps DEF SonWriteFails
<1>4. QED BY <1>1, <1>2, <1>3 DEF SonWriteFails
-----------------------------------------------------------------------------
LEMMA NextEncryption == EncryptionInv /\ [Next]_vars => EncryptionInv'
<1> SUFFICES ASSUME EncryptionInv, [Next]_vars PROVE EncryptionInv'
  OBVIOUS
<1>1. CASE CheckLengths
  BY <1>1, CheckLengthsKeeps
<1>2. CASE NoMemory \/ CreateSonFails \/ CommandTooLong
  BY <1>2, GivingUpKeeps
<1>3. CASE CreateSonProcess
  BY <1>3, CreateSonKeeps
<1>4. CASE WaitForSon
  BY <1>4, WaitForSonKeeps
<1>5. CASE Return
  BY <1>5, ReturnKeeps
<1>6. CASE \E o \in Offset : SonReads(o) \/ SonReadFails(o) \/ SonWrites(o) \/ SonWriteFails(o)
  BY <1>6, SonReadsKeeps, SonWritesKeeps, SonWriteFailsKeeps
<1>7. CASE UNCHANGED vars
  BY <1>7 DEF EncryptionInv, TypeOK, Placed, Idle, Works, AllWhole, LastMayBeCut, WholeBlocks,
              Waiting, vars
<1>8. QED BY <1>1, <1>2, <1>3, <1>4, <1>5, <1>6, <1>7 DEF Next, Ended

(* What Father and its Sons know of the output at each step.               *)
THEOREM EncryptionInvariant == Spec => []EncryptionInv
  BY InitEncryption, NextEncryption, PTL DEF Spec

(* The blocks are in the output in their order, and only the last may be   *)
(* cut: Father never starts a Son before the one before it is done.        *)
THEOREM BlocksInOrderHolds == Spec => []BlocksInOrder
<1>1. EncryptionInv => BlocksInOrder
  <2>1. EncryptionInv => LastMayBeCut \/ AllWhole
    BY DEF EncryptionInv, TypeOK, Waiting, Works, AllWhole
  <2>2. QED BY <2>1, WholeIsFine DEF EncryptionInv, BlocksInOrder, Placed, LastMayBeCut
<1>2. QED BY <1>1, EncryptionInvariant, PTL

(* Success is reported for the whole message only, and no Son outlives     *)
(* Father's answer.                                                        *)
THEOREM SuccessIsWholeHolds == Spec => []SuccessIsWhole
<1>1. EncryptionInv => SuccessIsWhole
  BY DEF EncryptionInv, SuccessIsWhole, Idle, Works, AllWhole
<1>2. QED BY <1>1, EncryptionInvariant, PTL
=============================================================================
