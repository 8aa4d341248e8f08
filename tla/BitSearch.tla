------------------------------ MODULE BitSearch ------------------------------
(* The search for the first 1 bit of a word (kservice.c), through a table   *)
(* for one byte.  A word of 32 bits is the set of the positions of its 1s.  *)
EXTENDS Integers

\* (value >> 8 * k) & 0xff
Byte(value, k) == {b \in 0 .. 7 : 8 * k + b \in value}

\* The entry of every byte but 0, whose entry 0xff nothing reads.
__lowest_bit_bitmap ==
    [byte \in (SUBSET (0 .. 7)) \ {{}} |-> CHOOSE b \in byte : \A c \in byte : b <= c]

__rt_ffs(value) ==
    IF value = {} THEN 0
    ELSE IF Byte(value, 0) # {} THEN __lowest_bit_bitmap[Byte(value, 0)] + 1
    ELSE IF Byte(value, 1) # {} THEN __lowest_bit_bitmap[Byte(value, 1)] + 9
    ELSE IF Byte(value, 2) # {} THEN __lowest_bit_bitmap[Byte(value, 2)] + 17
    ELSE __lowest_bit_bitmap[Byte(value, 3)] + 25
=============================================================================
