-------------------------------- MODULE Banner ------------------------------
(***************************************************************************)
(* What the listening agent prints and cp reads through ssh: PORT, KEY     *)
(* when it encrypts, RESUME when it was given -A, after anything the       *)
(* remote shell prints of its own, be it a line that begins with one of    *)
(* these words.  The text arrives in pieces that respect no line; a line   *)
(* is four units: the word, the value up to a cut, the rest of the value,  *)
(* the end of the line.                                                    *)
(***************************************************************************)
EXTENDS Integers, Sequences, FiniteSets, SequencesExt

CONSTANTS
    Noise,    \* the most lines of the shell
    Lens,     \* lengths the sink's file may have
    Stray,    \* the number in a RESUME line of the shell
    Piece,    \* the most a read returns, 256 bytes in the code
    Limit     \* where reading stops, 768 bytes in the code

Unit == 4

ASSUME BannerAssumption ==
    /\ {Noise, Stray, Limit} \subseteq Nat /\ Piece \in Nat \ {0} /\ Lens \subseteq Nat
    /\ Limit >= 3 * Unit

Words == {"PORT", "KEY", "RESUME"}

\* "more" is text without an end of line; a line that begins with a word has a value that can
\* be parsed, or a bad one.
ShellLines ==
    [word : {"noise", "more"}, value : {"none"}] \cup [word : Words, value : {"stray", "bad"}]

VARIABLES
    expectKey, expectResume,   \* what cp expects
    keyed,     \* the agent encrypts, as told or by its environment
    shell,     \* lines of the remote shell
    have,      \* what the agent found in the sink's file
    printed,   \* units printed so far
    alive,     \* the agent and its ssh
    buf,       \* units read so far
    reader,    \* "read", "parse", "ok" or "err"
    line,      \* the line it parses
    port, key, offset   \* so far: "none", "short", "agent" or "stray"; an offset

given == <<expectKey, expectResume, keyed, shell, have>>
made == <<line, port, key, offset>>
bannerVars == <<given, printed, alive, buf, reader, made>>

\* print_listen_banner
Own(word) == [word |-> word, value |-> "agent"]

Lines ==
    shell \o <<Own("PORT")>>
        \o (IF keyed THEN <<Own("KEY")>> ELSE <<>>)
        \o (IF expectResume THEN <<Own("RESUME")>> ELSE <<>>)

Text == Unit * Len(Lines)

----------------------------------------------------------------------------
BannerInit ==
    /\ expectKey \in BOOLEAN /\ expectResume \in BOOLEAN
    /\ keyed \in BOOLEAN /\ (expectKey => keyed)
    /\ shell \in SeqOf(ShellLines, Noise) /\ have \in Lens
    /\ printed = 0 /\ alive = TRUE /\ buf = 0 /\ reader = "read"
    /\ line = 1 /\ port = "none" /\ key = "none" /\ offset = 0

PrintMore ==
    /\ alive /\ printed < Text
    /\ printed' = printed + 1
    /\ UNCHANGED <<given, alive, buf, reader, made>>

\* The agent could not bind, was killed, or its ssh was lost.
Dies ==
    /\ alive /\ alive' = FALSE
    /\ UNCHANGED <<given, printed, buf, reader, made>>

\* A mistake: one line is enough.
NeedPort == 1

Need == 1 + (IF expectKey THEN 1 ELSE 0) + (IF expectResume THEN 1 ELSE 0)

\* Ends of lines among the first n units, whoever printed them.
NewLines(n) == Cardinality({i \in 1..(n \div Unit) : Lines[i].word # "more"})

Enough(n) == NewLines(n) >= Need \/ n > Limit

Read ==
    /\ reader = "read" /\ ~Enough(buf)
    /\ \E k \in 1..Piece : buf + k <= printed /\ buf' = buf + k
    /\ UNCHANGED <<given, printed, alive, reader, made>>

\* A mistake: the end of the output does not end the loop.
StopFull ==
    /\ reader = "read" /\ Enough(buf)
    /\ reader' = "parse"
    /\ UNCHANGED <<given, printed, alive, buf, made>>

Stop ==
    /\ reader = "read"
    /\ Enough(buf) \/ (~alive /\ buf = printed)
    /\ reader' = "parse"
    /\ UNCHANGED <<given, printed, alive, buf, made>>

----------------------------------------------------------------------------
\* What was read is parsed line by line.

\* Units of line i that were read.
Held(i) ==
    LET before == Unit * i - Unit
    IN  IF buf <= before THEN 0 ELSE IF buf >= before + Unit THEN Unit ELSE buf - before

\* Line i was read, if in part, and its first word is this one.
Says(word, i) ==
    /\ i \in DOMAIN Lines /\ Held(i) > 0
    /\ Lines[i].word = word /\ (i > 1 => Lines[i - 1].word # "more")

Counts(i) == \E w \in Words : Says(w, i)

\* A word without its value is an error, as is a key without all its digits.
Malformed(i) ==
    Held(i) = 1 \/ Lines[i].value = "bad" \/ (Lines[i].word = "KEY" /\ Held(i) = 2)

\* A number cut short is its leading digits.
Cut(v) == v \div 10
Value(i) == IF Held(i) = 2 THEN "short" ELSE Lines[i].value
Number(i) ==
    LET v == IF Lines[i].value = "agent" THEN have ELSE Stray
    IN  IF Held(i) = 2 THEN Cut(v) ELSE v

AtLine == reader = "parse" /\ line <= Len(Lines) /\ Held(line) > 0

PassOver ==
    /\ AtLine /\ ~Counts(line)
    /\ line' = line + 1
    /\ UNCHANGED <<given, printed, alive, buf, reader, port, key, offset>>

Refuse ==
    /\ AtLine /\ Counts(line) /\ Malformed(line)
    /\ reader' = "err"
    /\ UNCHANGED <<given, printed, alive, buf, made>>

\* A mistake: what was said first stands.
TakeFirst ==
    /\ AtLine /\ Counts(line) /\ ~Malformed(line)
    /\ line' = line + 1
    /\ port' = IF Says("PORT", line) /\ port = "none" THEN Value(line) ELSE port
    /\ key' = IF Says("KEY", line) /\ key = "none" THEN Value(line) ELSE key
    /\ offset' = IF Says("RESUME", line) /\ offset = 0 THEN Number(line) ELSE offset
    /\ UNCHANGED <<given, printed, alive, buf, reader>>

\* What was said before gives way.
Take ==
    /\ AtLine /\ Counts(line) /\ ~Malformed(line)
    /\ line' = line + 1
    /\ port' = IF Says("PORT", line) THEN Value(line) ELSE port
    /\ key' = IF Says("KEY", line) THEN Value(line) ELSE key
    /\ offset' = IF Says("RESUME", line) THEN Number(line) ELSE offset
    /\ UNCHANGED <<given, printed, alive, buf, reader>>

Conclude ==
    /\ reader = "parse" /\ ~AtLine
    /\ reader' = IF port = "none" \/ (expectKey /\ key = "none") THEN "err" ELSE "ok"
    /\ UNCHANGED <<given, printed, alive, buf, made>>

Parse == PassOver \/ Refuse \/ Take \/ Conclude
BannerNext == PrintMore \/ Dies \/ Read \/ Stop \/ Parse

\* The agent prints or dies; the read has no timeout of its own.
BannerSpec ==
    /\ BannerInit /\ [][BannerNext]_bannerVars
    /\ WF_bannerVars(PrintMore) /\ WF_bannerVars(Read) /\ WF_bannerVars(Stop)
    /\ WF_bannerVars(Parse)

----------------------------------------------------------------------------
\* Of an agent that lives and a shell that prints nothing of its own, cp reads the port, the
\* key and the offset as they were printed, however the text is cut into pieces.
BannerExact ==
    reader \in {"ok", "err"} /\ shell = <<>> /\ alive /\ keyed = expectKey =>
        /\ reader = "ok" /\ port = "agent"
        /\ (expectKey => key = "agent") /\ (expectResume => offset = have)

ShellSays(word) == \E i \in DOMAIN shell : Says(word, i)
AgentSays(word) == \E i \in DOMAIN Lines \ DOMAIN shell : Says(word, i)
OfShellOnly(word) == ShellSays(word) /\ ~AgentSays(word)

\* Whatever the shell prints, lines with the words of the banner included, and wherever the
\* text is cut: no part of a key is used, and cp takes a port, a key, or an offset the sink's
\* file does not reach from the shell only if it stopped reading before the agent's own line,
\* or that line did not begin one.
BannerSafe ==
    reader = "ok" =>
        /\ key # "short" /\ (expectKey => key # "none")
        /\ port = "stray" => OfShellOnly("PORT")
        /\ key = "stray" => OfShellOnly("KEY")
        /\ offset > have => OfShellOnly("RESUME")

\* The reading ends once the banner is there or the output has ended.
BannerEnds == <>(reader \in {"ok", "err"})
============================================================================
