------------------------------- MODULE Sha256 -------------------------------
(***************************************************************************)
(* class Sha256 of src/upstream_api_compat.cpp, on which the tags of the   *)
(* software cryptography rest: a buffer of one block, filled by calls of   *)
(* update and closed by finalize.  The compression function is left        *)
(* abstract: a digest is the sequence of blocks compressed.  The bytes of  *)
(* the input are their positions, other bytes are 0 or negative.           *)
(***************************************************************************)
EXTENDS Integers, Sequences

CONSTANTS
    BlockLen,        \* 64: bytes of a block
    LengthLen,       \* 8: bytes of the length at the end of the last block
    MaxInput         \* bound: bytes hashed

ASSUME BlockAssumption ==
    BlockLen \in Nat /\ LengthLen \in 1 .. BlockLen - 1 /\ MaxInput \in Nat

VARIABLE sha         \* blocks compressed, buffer_, buffer_len_, bytes of input

ShaInit ==
    sha = [blocks |-> << >>, buffer |-> [i \in 1 .. BlockLen |-> 0],
           buffer_len |-> 0, len |-> 0, done |-> FALSE]

(* The input bytes from a to b, copied into the buffer from its place `at' *)
Copied(buffer, at, a, b) ==
    [i \in 1 .. BlockLen |-> IF i \in at + 1 .. at + (b - a + 1) THEN a + (i - at - 1)
                                                               ELSE buffer[i]]

(***************************************************************************)
(* The next `size' bytes: first the buffer is filled up, then whole blocks *)
(* go past it, then the rest is buffered.                                  *)
(***************************************************************************)
Update(size) ==
    LET take == IF sha.buffer_len = 0 THEN 0
                ELSE IF size < BlockLen - sha.buffer_len THEN size
                ELSE BlockLen - sha.buffer_len
        filled == Copied(sha.buffer, sha.buffer_len, sha.len + 1, sha.len + take)
        full   == sha.buffer_len + take = BlockLen
        direct == (size - take) \div BlockLen
        from   == sha.len + take        \* last byte that went to the buffer
        rest   == sha.len + size - (from + direct * BlockLen)
        blocks == sha.blocks \o (IF full THEN <<filled>> ELSE << >>)
                    \o [b \in 1 .. direct |->
                          [i \in 1 .. BlockLen |-> from + (b - 1) * BlockLen + i]]
    IN  /\ ~sha.done /\ sha.len + size <= MaxInput
        /\ sha' = [sha EXCEPT
              !.blocks = blocks,
              !.len = @ + size,
              !.buffer = IF rest = 0 THEN filled
                         ELSE Copied(filled, 0, sha.len + size - rest + 1, sha.len + size),
              !.buffer_len = IF rest # 0 THEN rest ELSE IF full THEN 0 ELSE @ + take]

Mark == -1                 \* the byte 0x80 that ends the input
LengthByte(len) == -2 - len

(* The buffer with the mark after the input, zeros to byte `upto' and the  *)
(* length of the input behind it                                           *)
Zeroed(buffer, from, upto) ==
    [i \in 1 .. BlockLen |-> IF i \in from + 1 .. upto THEN 0 ELSE buffer[i]]
WithLength(buffer, len) ==
    [i \in 1 .. BlockLen |-> IF i > BlockLen - LengthLen THEN LengthByte(len) ELSE buffer[i]]

(* Mutant: the mark may take the first byte of the length. *)
ClosesLate(used) == used > BlockLen - LengthLen + 1

(* Is the block full before the length is written? *)
Closes(used) == used > BlockLen - LengthLen

Finalize ==
    LET marked == [sha.buffer EXCEPT ![sha.buffer_len + 1] = Mark]
        used   == sha.buffer_len + 1
        last   == IF Closes(used) THEN Zeroed(marked, 0, BlockLen - LengthLen)
                           ELSE Zeroed(marked, used, BlockLen - LengthLen)
    IN  /\ ~sha.done
        /\ sha' = [sha EXCEPT
              !.done = TRUE,
              !.blocks = @ \o (IF Closes(used) THEN <<Zeroed(marked, used, BlockLen)>> ELSE << >>)
                           \o <<WithLength(last, sha.len)>>]

ShaNext == (\E size \in 0 .. MaxInput : Update(size)) \/ Finalize

ShaSpec == ShaInit /\ [][ShaNext]_sha

-----------------------------------------------------------------------------
(* Property *)

(* The input padded as SHA-256 prescribes, cut into blocks *)
Padded(len) ==
    LET total == ((len + 1 + LengthLen + BlockLen - 1) \div BlockLen) * BlockLen
        byte(i) == IF i <= len THEN i
                   ELSE IF i = len + 1 THEN Mark
                   ELSE IF i > total - LengthLen THEN LengthByte(len) ELSE 0
    IN  [b \in 1 .. total \div BlockLen |->
            [i \in 1 .. BlockLen |-> byte((b - 1) * BlockLen + i)]]

(***************************************************************************)
(* However the input of a hash is cut into calls of Sha256::update (the    *)
(* HMAC passes its pieces one by one), the blocks compressed are those of  *)
(* the whole input padded at once.                                         *)
(***************************************************************************)
ChunksDoNotMatter == sha.done => sha.blocks = Padded(sha.len)
=============================================================================
