----------------------------- MODULE MCTwoSinks ----------------------------
(* Small instances of TwoSinks for TLC: two files of the same size. *)
EXTENDS TwoSinks

MCHash(c) == c
Header(content, resume) ==
    [magic |-> TRUE, check |-> TRUE, crypt |-> Crypt, opens |-> TRUE, preserve |-> FALSE,
     size |-> 2, n |-> N, resume |-> resume, sum |-> content]
FreshHeaders == {Header(<<1, 2>>, 0), Header(<<2, 1>>, 0)}
File(c) == [bytes |-> c, meta |-> "own"]
MCDests == {NoFile, File(<<1>>)}
============================================================================
