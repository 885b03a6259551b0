-------------------------------- MODULE Fifo --------------------------------
(***************************************************************************)
(* What the users of a UART's buffer rely on: a queue of at most Size      *)
(* bytes.  A write that does not fit puts in what fits; a read and a peek  *)
(* give up to as many bytes as are asked for, the oldest first.            *)
(***************************************************************************)
EXTENDS Integers, Sequences

CONSTANTS Size, Bytes, MaxLen

VARIABLES
    queue,  \* the bytes in the buffer
    got,    \* the bytes that the last read or peek gave
    taken   \* the number of bytes that the last write put in

First(n) == IF n < Len(queue) THEN SubSeq(queue, 1, n) ELSE queue
Fitting(bytes) ==
    IF Len(bytes) <= Size - Len(queue) THEN bytes ELSE SubSeq(bytes, 1, Size - Len(queue))

Writes(bytes) ==
    /\ queue' = queue \o Fitting(bytes)
    /\ taken' = Len(Fitting(bytes))
    /\ UNCHANGED got

Reads(n) ==
    /\ got' = First(n)
    /\ queue' = SubSeq(queue, Len(got') + 1, Len(queue))
    /\ UNCHANGED taken

Peeks(n) ==
    /\ got' = First(n)
    /\ UNCHANGED <<queue, taken>>

FifoInit == queue = <<>> /\ got = <<>> /\ taken = 0

FifoNext ==
    \/ \E len \in 1..MaxLen : \E bytes \in [1..len -> Bytes] : Writes(bytes)
    \/ \E n \in 1..MaxLen : Reads(n) \/ Peeks(n)

FifoSpec == FifoInit /\ [][FifoNext]_<<queue, got, taken>>
=============================================================================
