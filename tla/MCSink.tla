------------------------------- MODULE MCSink ------------------------------
(* Small instances of Sink for TLC. *)
EXTENDS Sink

\* The content the source hashed, and headers announcing it.
Content == <<1, 2, 1>>
MCHash(c) == c

Header(check, preserve, resume) ==
    [magic |-> TRUE, check |-> check, crypt |-> Crypt, opens |-> TRUE,
     preserve |-> preserve, size |-> 3, n |-> N, resume |-> resume, sum |-> Content]

GoodHeaders == {Header(TRUE, TRUE, 0), Header(TRUE, FALSE, 1), Header(FALSE, TRUE, 0)}
ResumeHeaders == {Header(TRUE, TRUE, 1), Header(TRUE, FALSE, 2), Header(TRUE, TRUE, 3)}
BadHeaders == {[Header(TRUE, FALSE, 0) EXCEPT !.magic = FALSE],
               [Header(TRUE, FALSE, 0) EXCEPT !.n = N + 1],
               [Header(TRUE, FALSE, 0) EXCEPT !.crypt = ~Crypt],
               Header(FALSE, FALSE, 1), Header(TRUE, FALSE, 4)}
SealedHeaders == {[h EXCEPT !.opens = FALSE] : h \in GoodHeaders}
AllHeaders == GoodHeaders \cup ResumeHeaders \cup BadHeaders \cup SealedHeaders

File(c) == [bytes |-> c, meta |-> "own"]
\* Nothing, a good prefix, an older and longer file.
MCDests == {NoFile, File(<<1>>), File(<<2, 2, 2, 2>>)}
============================================================================
