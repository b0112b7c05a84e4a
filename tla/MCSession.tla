------------------------------ MODULE MCSession ----------------------------
(* Small instances of Session for TLC. *)
EXTENDS Session

MCHash(c) == c
MCContents == {<<1, 2, 1>>, <<1, 2>>}
OneContent == {<<1, 2, 1, 2>>}
NoHeaders == {}
File(c) == [bytes |-> c, meta |-> "own"]
\* Nothing, a good prefix, a bad prefix.
MCDests == {NoFile, File(<<1>>), File(<<2, 2>>)}
GoodDests == {NoFile, File(<<1, 2>>)}
============================================================================
