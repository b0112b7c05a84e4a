------------------------------- MODULE Files -------------------------------
(***************************************************************************)
(* A regular file as the transfer sees it: its bytes and whether its mode  *)
(* and mtime are those the source sent.  Positional writes and set_len are *)
(* the only ways the sink changes a file (write_at_full, File::set_len,    *)
(* apply_preserve), so they are the operators here.                        *)
(***************************************************************************)
EXTENDS Integers, Sequences

CONSTANTS
    Byte,       \* the byte values told apart
    Zero        \* the byte a hole reads as

ASSUME ByteAssumption == Zero \in Byte

NoFile == [bytes |-> <<>>, meta |-> "absent"]

Files == [bytes : Seq(Byte), meta : {"own", "sent"}]

EmptyFile == [bytes |-> <<>>, meta |-> "own"]

FileLen(f) == Len(f.bytes)

\* File::set_len: cut, or extend with a hole.
SetLen(f, n) ==
    [bytes |-> [p \in 1..n |-> IF p <= FileLen(f) THEN f.bytes[p] ELSE Zero],
     meta |-> "own"]

\* write_at: the bytes d at offset off, a hole before them if off is past the end.
WriteAt(f, off, d) ==
    LET end == off + Len(d)
        len == IF end > FileLen(f) THEN end ELSE FileLen(f)
    IN  IF d = <<>> THEN f
        ELSE [bytes |-> [p \in 1..len |->
                            IF off < p /\ p <= end THEN d[p - off]
                            ELSE IF p <= FileLen(f) THEN f.bytes[p] ELSE Zero],
              meta |-> "own"]

\* The first n bytes of a file (all of it when it is shorter).
Prefix(f, n) == [p \in 1..(IF n <= FileLen(f) THEN n ELSE FileLen(f)) |-> f.bytes[p]]
============================================================================
