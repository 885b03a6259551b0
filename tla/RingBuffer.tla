----------------------------- MODULE RingBuffer -----------------------------
(***************************************************************************)
(* The buffer between the UART's interrupt handler and the driver that     *)
(* waits for frames: ringbuffer.c, and the buffered part of uart.c.        *)
(*                                                                         *)
(* A read disables interrupts, a peek does not: the interrupt handler may  *)
(* write after a peek has read the head and before it copies.              *)
(***************************************************************************)
EXTENDS Integers, Sequences

CONSTANTS
    Size,    \* of the buffer: UART_BUFF_SIZE
    Bytes,   \* what a byte can be
    MaxLen   \* bound: the bytes of a write, a read or a peek

ASSUME RingBufferAssumption == Size \in Nat \ {0} /\ MaxLen \in Nat \ {0} /\ Bytes # {}

VARIABLES
    data, head, tail, avail,  \* the members of ring_buffer_t
    peek,                     \* a peek that has read the head, or NoPeek
    got, taken                \* results of the last read or peek, and of the last write

ring_vars == <<data, head, tail, avail, peek, got, taken>>

NoPeek == [len |-> 0, head |-> 0]

MinOf(a, b) == IF a <= b THEN a ELSE b

\* Mutant: a pointer at the very end stays there.
Advanced_OffByOne(pointer, len1, len2) ==
    IF pointer + len1 + len2 > Size THEN len2 ELSE pointer + len1 + len2

\* Where a pointer is after len1 bytes up to the end of the buffer and len2 from
\* its beginning.
Advanced(pointer, len1, len2) == IF pointer + len1 + len2 >= Size THEN len2 ELSE pointer + len1 + len2

-----------------------------------------------------------------------------
RingInit ==
    /\ data \in [0..(Size - 1) -> Bytes]
    /\ head = 0 /\ tail = 0 /\ avail = 0
    /\ peek = NoPeek /\ got = <<>> /\ taken = 0

\* Mutant: a buffer that is empty is taken for a full one.
Full_ByPointers == tail = head /\ head > 0
Full == tail = head /\ avail > 0

\* The bytes of a write of len bytes that go at the head, and from the beginning.
WriteLen1(len) ==
    IF Full THEN 0 ELSE IF tail <= head THEN MinOf(len, Size - head) ELSE MinOf(len, tail - head)
WriteLen2(len) ==
    IF Full \/ tail > head THEN 0 ELSE MinOf(tail, len - WriteLen1(len))

\* handle_interrupt(): what was received is written, as far as there is room.
ring_buffer_write(bytes) ==
    LET len1 == WriteLen1(Len(bytes))
        len2 == WriteLen2(Len(bytes))
    IN  /\ data' = [i \in 0..(Size - 1) |->
                        IF head <= i /\ i < head + len1 THEN bytes[i - head + 1]
                        ELSE IF i < len2 THEN bytes[len1 + i + 1] ELSE data[i]]
        /\ head' = Advanced(head, len1, len2)
        /\ avail' = avail + len1 + len2
        /\ taken' = len1 + len2
        /\ UNCHANGED <<tail, peek, got>>

\* The bytes that are read or peeked at the tail, and from the beginning, for
\* the head h.
ReadLen1(n, h) ==
    IF tail < h THEN MinOf(n, h - tail) ELSE IF tail = h /\ avail = 0 THEN 0 ELSE MinOf(n, Size - tail)
ReadLen2(n, h) ==
    IF tail < h \/ (tail = h /\ avail = 0) THEN 0 ELSE MinOf(h, n - ReadLen1(n, h))

Copied(n, h) ==
    [i \in 1..(ReadLen1(n, h) + ReadLen2(n, h)) |->
        IF i <= ReadLen1(n, h) THEN data[tail + i - 1] ELSE data[i - ReadLen1(n, h) - 1]]

\* uart_buff_read()
ring_buffer_read(n) ==
    /\ peek = NoPeek
    /\ got' = Copied(n, head)
    /\ tail' = Advanced(tail, ReadLen1(n, head), ReadLen2(n, head))
    /\ avail' = avail - ReadLen1(n, head) - ReadLen2(n, head)
    /\ UNCHANGED <<data, head, peek, taken>>

\* uart_buff_peek(), by a driver that has seen that many bytes available.
PeekBegins(n) ==
    /\ peek = NoPeek
    /\ avail >= n
    /\ peek' = [len |-> n, head |-> head]
    /\ UNCHANGED <<data, head, tail, avail, got, taken>>

PeekCopies ==
    /\ peek # NoPeek
    /\ got' = Copied(peek.len, peek.head)
    /\ peek' = NoPeek
    /\ UNCHANGED <<data, head, tail, avail, taken>>

RingNext ==
    \/ \E len \in 1..MaxLen : \E bytes \in [1..len -> Bytes] : ring_buffer_write(bytes)
    \/ \E n \in 1..MaxLen : ring_buffer_read(n) \/ PeekBegins(n)
    \/ PeekCopies

RingSpec == RingInit /\ [][RingNext]_ring_vars

-----------------------------------------------------------------------------
\* The buffer is a queue of its Size, whatever the interrupt handler writes
\* between the two halves of a peek: the first of the bytes that are available
\* are those from the tail on, across the end of the buffer.
Place(i) == IF tail + i <= Size THEN tail + i - 1 ELSE tail + i - 1 - Size
Queue == [i \in 1..avail |-> data[Place(i)]]

Promise == INSTANCE Fifo WITH queue <- Queue

ImplementsFifo == Promise!FifoSpec

\* The pointers agree with the number of bytes: a byte is never overwritten
\* before it is read, nor read twice, and a full buffer is not taken for an
\* empty one, when both have tail = head.
PointersAgree ==
    /\ head \in 0..(Size - 1) /\ tail \in 0..(Size - 1) /\ avail \in 0..Size
    /\ tail + avail \in {head, head + Size}
=============================================================================
