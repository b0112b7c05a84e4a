------------------------------ MODULE CpProofs -----------------------------
(***************************************************************************)
(* cp of any number of files: what its result says of the two halves, of   *)
(* the processes it started and of the files; and what it reads of its     *)
(* agent's banner, however long the shell's own lines and however cut.     *)
(***************************************************************************)
EXTENDS Tree, Banner, SequenceTheorems, FiniteSetTheorems, TLAPS

----------------------------------------------------------------------------
\* The command, its child and the agent go together: the child's status is the agent's,
\* and the command's follows from its own half and the child's.
AgentInv ==
    /\ mode \in Modes
    /\ opts \in [crypt : BOOLEAN, here : {"none", "k"}, there : {"none", "k", "other"}]
    /\ cp \in {"prepare", "spawn", "banner", "run", "finish", "ok", "err"}
    /\ local \in {"none", "ok", "err"}
    /\ child \in {"none", "running", "ok", "failed", "killed"}
    /\ agent \in {"none", "start", "run", "ok", "err"}
    /\ child = "ok" => agent = "ok"
    /\ cp = "ok" => local = "ok" /\ child = "ok"
    /\ cp \in {"prepare", "spawn"} => child = "none" /\ agent = "none" /\ local = "none"
    /\ cp \in {"banner", "run"} => local = "none"
    /\ cp = "finish" => local # "none"
    /\ CpReaps

LEMMA AgentInit == Init => AgentInv
  BY DEF Init, AgentInv, CpReaps

LEMMA AgentStep == AgentInv /\ [Next]_vars => AgentInv'
  <1> SUFFICES ASSUME AgentInv, [Next]_vars PROVE AgentInv'
    OBVIOUS
  <1> USE DEF AgentInv, CpReaps, options
  <1>1. CASE Prepared \/ NotPrepared \/ Spawn
    BY <1>1 DEF Prepared, NotPrepared, Spawn
  <1>2. CASE BannerRead \/ BannerBad
    BY <1>2 DEF BannerRead, BannerBad
  <1>3. ASSUME NEW r \in {"ok", "err"}, LocalEnds(r) PROVE AgentInv'
    BY <1>3 DEF LocalEnds
  <1>4. CASE Finish \/ WaitTimeout
    BY <1>4 DEF Finish, WaitTimeout
  <1>5. CASE AgentStarts
    BY <1>5 DEF AgentStarts
  <1>6. ASSUME NEW r \in {"ok", "err"}, AgentEnds(r) PROVE AgentInv'
    BY <1>6 DEF AgentEnds
  <1>7. CASE ChildEnds \/ ChildDrops
    BY <1>7 DEF ChildEnds, ChildDrops
  <1>8. CASE UNCHANGED vars
    BY <1>8 DEF vars
  <1> QED BY <1>1, <1>2, <1>3, <1>4, <1>5, <1>6, <1>7, <1>8 DEF Next, Command

\* Options do not change, a half that ended well has, and a command that failed has failed.
LEMMA AgentKeeps ==
    AgentInv /\ [Next]_vars =>
        /\ options' = options
        /\ local = "ok" => local' = "ok"
        /\ agent = "ok" => agent' = "ok"
        /\ cp = "err" => cp' = "err"
  BY DEF AgentInv, Next, Command, Prepared, NotPrepared, Spawn, BannerRead, BannerBad, LocalEnds,
         Finish, WaitTimeout, AgentStarts, AgentEnds, ChildEnds, ChildDrops, vars

----------------------------------------------------------------------------
\* Where the walk is: nothing of a file is begun before its check, and the file whose sink
\* ended well is whole.
TreeInv ==
    /\ AgentInv /\ TypeOK /\ TreePrefix
    /\ phase \in {"list", "mkdir", "check"} =>
          cp \in {"prepare", "spawn"} /\ dest[at] = "before"
    /\ phase = "list" => n = 1 /\ bad = {}
    /\ phase \in {"list", "mkdir"} => at = 1 /\ \A i \in Files : dest[i] = "before"
    /\ Begun => at \notin bad
    /\ SinkResult = "ok" => dest[at] = "whole"
    /\ phase = "ok" => at = n
    /\ \A i \in Files : i > n => dest[i] = "before"

LEMMA TreeInitInv == TreeInit => TreeInv
  BY AgentInit, TreeAssumption
     DEF TreeInit, TreeInv, AgentInv, Init, TypeOK, TreePrefix, Begun, SinkResult, Files

LEMMA AgentStays == AgentInv /\ UNCHANGED vars => AgentInv' /\ SinkResult' = SinkResult
  BY AgentStep DEF vars, options, SinkResult, SinkIsLocal

LEMMA TreeStep == TreeInv /\ [TreeNext]_allVars => TreeInv'
  <1> SUFFICES ASSUME TreeInv, [TreeNext]_allVars PROVE TreeInv'
    OBVIOUS
  <1> USE DEF TreeInv, TypeOK, TreePrefix, Begun
  <1>0. /\ n \in Files /\ n \in Nat /\ at \in Nat /\ at >= 1 /\ at <= n
        /\ \A i \in Files : i \in Nat
        /\ \A k \in Files : \A i \in 1..k : i \in Files
    BY TreeAssumption DEF Files
  <1> HIDE DEF Files
  <1>1. CASE List
    <2>1. UNCHANGED <<vars, resume, at, dest>> /\ phase = "list" /\ at = 1 /\ n = 1 /\ bad = {}
      BY <1>1 DEF List
    <2>2. PICK k \in 0..MaxFiles :
             IF k = 0 THEN phase' = "err" /\ UNCHANGED <<n, bad>>
             ELSE phase' = "mkdir" /\ n' = k /\ bad' \in SUBSET (IF SinkIsLocal THEN 1..k ELSE {})
      BY <1>1 DEF List
    <2>3. CASE k = 0
      BY <2>1, <2>2, <2>3, AgentStays DEF vars, options, AgentInv
    <2>4. CASE k # 0
      <3>1. k \in Files /\ 1 \in 1..k /\ 1..k \subseteq Files
        BY <2>4, TreeAssumption DEF Files
      <3>2. phase' = "mkdir" /\ n' = k /\ bad' \subseteq Files
        BY <2>2, <2>4, <3>1
      <3>3. TypeOK'
        BY <2>1, <3>1, <3>2 DEF vars, options
      <3>4. cp \in {"prepare", "spawn"} /\ \A i \in Files : dest[i] = "before"
        BY <2>1
      <3> QED BY <1>0, <2>1, <3>1, <3>2, <3>3, <3>4, AgentStays DEF vars, options
    <2> QED BY <2>3, <2>4
  <1>2. CASE ListFails \/ MakeDirs \/ Check \/ NotCopied
    <2>1. /\ UNCHANGED <<vars, resume, n, at, bad, dest>>
          /\ \/ phase \in {"list", "mkdir", "check"} /\ phase' = "err"
             \/ phase = "mkdir" /\ phase' = "check"
             \/ phase = "check" /\ phase' = "copy" /\ at \notin bad
             \/ phase = "copy" /\ cp = "err" /\ phase' = "err"
      BY <1>2 DEF ListFails, MakeDirs, Check, NotCopied
    <2>2. TypeOK'
      BY <2>1 DEF vars, options
    <2> QED BY <1>0, <2>1, <2>2, AgentStays DEF vars, options
  <1>3. CASE Copied
    <2>1. phase = "copy" /\ dest[at] = "whole" /\ UNCHANGED <<resume, n, bad, dest, options>>
      BY <1>3 DEF Copied, NextFile, AtLast, AgentInv, vars, options, SinkResult
    <2>2. CASE at = n
      <3>1. phase' = "ok" /\ UNCHANGED <<vars, at>> /\ cp = "ok"
        BY <1>3, <2>2 DEF Copied, NextFile, AtLast
      <3>2. TypeOK'
        BY <2>1, <3>1 DEF vars, options
      <3> QED BY <1>0, <2>1, <2>2, <3>1, <3>2, AgentStays DEF vars, options
    <2>3. CASE at # n
      <3>1. /\ phase' = "check" /\ at' = at + 1 /\ local' = "none" /\ child' = "none" /\ agent' = "none"
            /\ cp' \in {"prepare", "spawn"}
        BY <1>3, <2>3 DEF Copied, NextFile, AtLast
      <3>2. AgentInv'
        BY <2>1, <3>1 DEF AgentInv, CpReaps, options
      <3>3. at' \in 1..n /\ \A i \in 1..n : (i < at' => i < at \/ i = at) /\ (i > at' => i > at)
        BY <1>0, <2>3, <3>1
      <3>4. TypeOK'
        BY <2>1, <3>1, <3>2, <3>3 DEF AgentInv, options
      <3>5. dest[at'] = "before"
        BY <1>0, <3>1, <3>3
      <3> QED BY <1>0, <2>1, <3>1, <3>2, <3>3, <3>4, <3>5 DEF SinkResult
    <2> QED BY <2>2, <2>3
  <1>4. CASE Session
    <2>1. /\ AgentInv' /\ options' = options /\ (cp = "err" => cp' = "err")
          /\ (local = "ok" => local' = "ok")
          /\ (agent = "ok" => agent' = "ok")
      BY <1>4, AgentStep, AgentKeeps DEF Session
    <2>2. /\ UNCHANGED <<resume, phase, n, at, bad>>
          /\ dest' = IF SinkResult # "ok" /\ SinkResult' = "ok"
                     THEN [dest EXCEPT ![at] = "whole"] ELSE dest
      BY <1>4 DEF Session
    <2>3. Begun
      BY <1>4 DEF Session
    <2>4. at \in Files /\ dest \in [Files -> {"before", "part", "whole"}]
      BY <1>0
    <2>5. /\ dest' \in [Files -> {"before", "part", "whole"}] /\ dest'[at] \in {dest[at], "whole"}
          /\ \A i \in Files : i # at => dest'[i] = dest[i]
          /\ SinkResult' = "ok" => SinkResult = "ok" \/ dest'[at] = "whole"
      BY <2>2, <2>4
    <2>6. SinkResult' = "ok" => dest'[at] = "whole"
      BY <2>4, <2>5
    <2>7. TypeOK'
      BY <2>1, <2>2, <2>5 DEF AgentInv
    <2> QED BY <1>0, <2>1, <2>2, <2>3, <2>4, <2>5, <2>6, <2>7
  <1>5. CASE Scribble
    <2>1. /\ Begun /\ dest[at] = "before" /\ dest' = [dest EXCEPT ![at] = "part"]
          /\ UNCHANGED <<vars, resume, phase, n, at, bad>>
      BY <1>5 DEF Scribble
    <2>2. at \in Files /\ dest \in [Files -> {"before", "part", "whole"}]
      BY <1>0
    <2>3. /\ dest' \in [Files -> {"before", "part", "whole"}]
          /\ \A i \in Files : i # at => dest'[i] = dest[i]
      BY <2>1, <2>2
    <2>4. TypeOK'
      BY <2>1, <2>3 DEF vars, options
    <2>5. SinkResult # "ok"
      BY <2>1
    <2> QED BY <1>0, <2>1, <2>2, <2>3, <2>4, <2>5, AgentStays DEF vars, options
  <1>6. CASE UNCHANGED allVars
    <2>1. UNCHANGED <<vars, resume, phase, n, at, bad, dest>>
      BY <1>6 DEF allVars, treeVars
    <2>2. TypeOK'
      BY <2>1 DEF vars, options
    <2> QED BY <2>1, <2>2, AgentStays DEF vars, options
  <1> QED BY <1>1, <1>2, <1>3, <1>4, <1>5, <1>6 DEF TreeNext, Walk

LEMMA TreeAlways == TreeSpec => []TreeInv
  BY TreeInitInv, TreeStep, PTL DEF TreeSpec

\* Every variable of cp keeps its type.
THEOREM TreeTypeCorrect == TreeSpec => []TypeOK
  <1>1. TreeInv => TypeOK
    BY DEF TreeInv
  <1> QED BY <1>1, TreeAlways, PTL

\* cp succeeds only if both halves did (ssh.rs finish_agent).
THEOREM TreeCpTrue == TreeSpec => []CpTrue
  <1>1. TreeInv => CpTrue
    BY DEF TreeInv, AgentInv, CpTrue
  <1> QED BY <1>1, TreeAlways, PTL

\* cp leaves no ssh of a transfer it began (ssh.rs finish_agent).
THEOREM TreeCpReaps == TreeSpec => []CpReaps
  <1>1. TreeInv => CpReaps
    BY DEF TreeInv, AgentInv
  <1> QED BY <1>1, TreeAlways, PTL

\* The two halves have one key in exactly the cases it states (cp.rs, commands.rs).
THEOREM TreeHalvesMeet == TreeSpec => []HalvesMeet
  <1>1. TreeInv => HalvesMeet
    <2> SUFFICES ASSUME TreeInv
                 PROVE  Agree <=> IF opts.crypt
                                  THEN mode # "push" \/ opts.here \in {"none", opts.there}
                                  ELSE opts.there = "none"
      BY DEF HalvesMeet
    <2>1. /\ mode \in {"push", "push -z", "pull", "pull -z"} /\ opts.crypt \in BOOLEAN
          /\ opts.here \in {"none", "k"} /\ opts.there \in {"none", "k", "other"}
      BY AgentAssumption DEF TreeInv, AgentInv
    <2> USE DEF Agree, KeyHere, KeyThere, AgentCrypts, AgentKey, KeySent, Or, Banner
    <2>2. CASE ~opts.crypt
      BY <2>1, <2>2
    <2>3. CASE opts.crypt /\ mode = "push"
      BY <2>1, <2>3
    <2>4. CASE opts.crypt /\ mode = "pull -z"
      BY <2>1, <2>4
    <2>5. CASE opts.crypt /\ mode \in {"push -z", "pull"}
      BY <2>1, <2>5
    <2> QED BY <2>1, <2>2, <2>3, <2>4, <2>5
  <1> QED BY <1>1, TreeAlways, PTL

\* However many files: whole up to the one it is at, untouched after it (tree.rs).
THEOREM TreeIsPrefix == TreeSpec => []TreePrefix
  <1>1. TreeInv => TreePrefix
    BY DEF TreeInv
  <1> QED BY <1>1, TreeAlways, PTL

\* One file's processes have ended before the next file's begin (tree.rs, ssh.rs).
THEOREM TreeOneAtATime == TreeSpec => OneAtATime
  <1>1. TreeInv /\ [TreeNext]_allVars => [at' # at => agent \notin {"start", "run"} /\ child # "running"]_allVars
    BY DEF TreeInv, AgentInv, TreeNext, Walk, List, ListFails, MakeDirs, Check, Copied, NextFile, AtLast,
           NotCopied, Session, Scribble, allVars, treeVars
  <1> QED BY <1>1, TreeAlways, PTL DEF TreeSpec, OneAtATime
----------------------------------------------------------------------------
\* What the shell and the agent may print.
LineSet == ShellLines \cup {Own(w) : w \in Words}

\* A line of the second part is as far behind the first.
LEMMA Appended ==
    ASSUME NEW s \in Seq(LineSet), NEW t \in Seq(LineSet)
    PROVE  /\ s \o t \in Seq(LineSet) /\ Len(s) \in Nat /\ Len(t) \in Nat
           /\ Len(s \o t) = Len(s) + Len(t)
           /\ \A i \in 1..Len(s) : (s \o t)[i] = s[i]
           /\ \A j \in 1..Len(t) : (s \o t)[Len(s) + j] = t[j]
  <1>1. Len(s) \in Nat /\ Len(t) \in Nat
    OBVIOUS
  <1>2. ASSUME NEW j \in 1..Len(t) PROVE (s \o t)[Len(s) + j] = t[j]
    <2>1. Len(s) + j \in 1..(Len(s) + Len(t)) /\ ~(Len(s) + j <= Len(s)) /\ Len(s) + j - Len(s) = j
      BY <1>1
    <2> QED BY <2>1, ConcatProperties
  <1>3. ASSUME NEW i \in 1..Len(s) PROVE (s \o t)[i] = s[i]
    <2>1. i \in 1..(Len(s) + Len(t)) /\ i <= Len(s)
      BY <1>1
    <2> QED BY <2>1, ConcatProperties
  <1> QED BY <1>1, <1>2, <1>3, ConcatProperties

\* A part of the banner: the line, or nothing if it was not asked for.
LEMMA OneOrNone ==
    ASSUME NEW word \in Words, NEW asked \in BOOLEAN
    PROVE  LET part == IF asked THEN <<Own(word)>> ELSE <<>>
           IN  /\ part \in Seq(LineSet) /\ Len(part) = (IF asked THEN 1 ELSE 0)
               /\ asked => part[1] = Own(word)
  <1>1. Own(word) \in LineSet
    BY DEF LineSet
  <1>2. <<Own(word)>> \in Seq(LineSet) /\ Len(<<Own(word)>>) = 1 /\ <<Own(word)>>[1] = Own(word)
    BY <1>1
  <1>3. <<>> \in Seq(LineSet) /\ Len(<<>>) = 0
    OBVIOUS
  <1>4. CASE asked
    BY <1>2, <1>4
  <1>5. CASE ~asked
    BY <1>3, <1>5
  <1> QED BY <1>4, <1>5

\* What cp expects and the shell prints stays as it is.
Given ==
    /\ expectKey \in BOOLEAN /\ expectResume \in BOOLEAN /\ keyed \in BOOLEAN
    /\ (expectKey => keyed) /\ shell \in Seq(ShellLines) /\ have \in Nat

\* Before the agent's lines stand the shell's; the agent's are its own, one for each thing.
LEMMA LinesPrinted ==
    ASSUME Given
    PROVE  /\ Lines \in Seq(LineSet) /\ Len(shell) \in Nat /\ DOMAIN shell = 1..Len(shell)
           /\ Len(Lines) = Len(shell) + 1 + (IF keyed THEN 1 ELSE 0) + (IF expectResume THEN 1 ELSE 0)
           /\ \A i \in 1..Len(shell) : Lines[i] = shell[i] /\ shell[i] \in ShellLines
           /\ \A i \in (Len(shell) + 1)..Len(Lines) : \E w \in Words : Lines[i] = Own(w)
           /\ Lines[Len(shell) + 1] = Own("PORT")
           /\ keyed => Lines[Len(shell) + 2] = Own("KEY")
           /\ expectResume => Lines[Len(Lines)] = Own("RESUME")
  <1> DEFINE ports == <<Own("PORT")>>
             keys == IF keyed THEN <<Own("KEY")>> ELSE <<>>
             resumes == IF expectResume THEN <<Own("RESUME")>> ELSE <<>>
             one == shell \o ports
             two == one \o keys
  <1>1. Lines = two \o resumes
    BY DEF Lines
  <1>2. /\ shell \in Seq(LineSet) /\ shell \in Seq(ShellLines)
        /\ Len(shell) \in Nat /\ DOMAIN shell = 1..Len(shell)
        /\ \A i \in 1..Len(shell) : shell[i] \in ShellLines
    BY DEF Given, LineSet
  <1>3. {"PORT", "KEY", "RESUME"} \subseteq Words /\ keyed \in BOOLEAN /\ expectResume \in BOOLEAN
    BY DEF Words, Given
  <1>4. ports \in Seq(LineSet) /\ Len(ports) = 1 /\ ports[1] = Own("PORT")
    BY <1>3 DEF LineSet
  <1>5. keys \in Seq(LineSet) /\ Len(keys) = (IF keyed THEN 1 ELSE 0) /\ (keyed => keys[1] = Own("KEY"))
    BY <1>3, OneOrNone
  <1>6. /\ resumes \in Seq(LineSet) /\ Len(resumes) = (IF expectResume THEN 1 ELSE 0)
        /\ expectResume => resumes[1] = Own("RESUME")
    BY <1>3, OneOrNone
  <1> HIDE DEF ports, keys, resumes
  <1>7. /\ one \in Seq(LineSet) /\ Len(one) = Len(shell) + 1
        /\ \A i \in 1..Len(shell) : one[i] = shell[i]
        /\ one[Len(shell) + 1] = ports[1]
    <2>1. /\ one \in Seq(LineSet) /\ Len(one) = Len(shell) + Len(ports)
          /\ \A i \in 1..Len(shell) : one[i] = shell[i]
          /\ \A j \in 1..Len(ports) : one[Len(shell) + j] = ports[j]
      BY <1>2, <1>4, Appended
    <2>2. 1 \in 1..Len(ports)
      BY <1>4
    <2> QED BY <1>4, <2>1, <2>2
  <1> HIDE DEF one
  <1>8. /\ two \in Seq(LineSet) /\ Len(two) = Len(one) + Len(keys)
        /\ \A i \in 1..Len(one) : two[i] = one[i]
        /\ \A j \in 1..Len(keys) : two[Len(one) + j] = keys[j]
    BY <1>5, <1>7, Appended
  <1> HIDE DEF two
  <1>9. /\ Lines \in Seq(LineSet) /\ Len(Lines) = Len(two) + Len(resumes)
        /\ \A i \in 1..Len(two) : Lines[i] = two[i]
        /\ \A j \in 1..Len(resumes) : Lines[Len(two) + j] = resumes[j]
    BY <1>1, <1>6, <1>8, Appended
  <1>10. \A i \in 1..Len(shell) : Lines[i] = shell[i]
    <2>1. Len(keys) \in Nat /\ Len(resumes) \in Nat
      BY <1>5, <1>6
    <2>2. Len(one) = Len(shell) + 1 /\ Len(two) = Len(one) + Len(keys)
      BY <1>7, <1>8
    <2>3. \A i \in 1..Len(shell) : i \in 1..Len(one) /\ i \in 1..Len(two)
      BY <1>2, <2>1, <2>2
    <2> QED BY <1>7, <1>8, <1>9, <2>3
  <1>11. Lines[Len(shell) + 1] = Own("PORT")
    <2>1. Len(shell) + 1 \in 1..Len(one) /\ Len(one) <= Len(two)
      BY <1>2, <1>5, <1>7, <1>8
    <2>2. Len(shell) + 1 \in 1..Len(two)
      BY <1>2, <1>5, <1>7, <1>8
    <2> QED BY <1>4, <1>7, <1>8, <1>9, <2>1, <2>2
  <1>12. ASSUME keyed PROVE Lines[Len(shell) + 2] = Own("KEY")
    <2>1. 1 \in 1..Len(keys) /\ Len(one) + 1 = Len(shell) + 2 /\ Len(shell) + 2 \in 1..Len(two)
      BY <1>2, <1>5, <1>7, <1>8, <1>12
    <2>2. two[Len(one) + 1] = keys[1]
      BY <1>8, <2>1
    <2> QED BY <1>5, <1>9, <1>12, <2>1, <2>2
  <1>13. ASSUME expectResume PROVE Lines[Len(Lines)] = Own("RESUME")
    <2>1. 1 \in 1..Len(resumes) /\ Len(two) + 1 = Len(Lines)
      BY <1>2, <1>5, <1>6, <1>7, <1>8, <1>9, <1>13
    <2>2. Lines[Len(two) + 1] = resumes[1]
      BY <1>9, <2>1
    <2> QED BY <1>6, <1>13, <2>1, <2>2
  <1>14. Len(Lines) = Len(shell) + 1 + (IF keyed THEN 1 ELSE 0) + (IF expectResume THEN 1 ELSE 0)
    <2>1. Len(one) = Len(shell) + 1 /\ Len(two) = Len(one) + Len(keys) /\ Len(Lines) = Len(two) + Len(resumes)
      BY <1>7, <1>8, <1>9
    <2> QED BY <1>2, <1>5, <1>6, <2>1
  <1>15. ASSUME NEW i \in (Len(shell) + 1)..Len(Lines) PROVE \E w \in Words : Lines[i] = Own(w)
    <2>1. \/ i = Len(shell) + 1
          \/ keyed /\ i = Len(shell) + 2
          \/ expectResume /\ i = Len(Lines)
      BY <1>2, <1>3, <1>14
    <2> QED BY <1>3, <1>11, <1>12, <1>13, <2>1
  <1> QED BY <1>2, <1>9, <1>10, <1>11, <1>12, <1>13, <1>14, <1>15

----------------------------------------------------------------------------
\* The reader is never ahead of the printer, and begins with the first line.
BannerType ==
    /\ Given /\ printed \in Nat /\ buf \in Nat /\ buf <= printed /\ printed <= Text
    /\ reader \in {"read", "parse", "ok", "err"} /\ line \in Nat \ {0} /\ offset \in Nat
    /\ reader = "read" => line = 1 /\ port = "none" /\ key = "none" /\ offset = 0

\* Of the lines gone past, a value of the shell stands only if the agent said nothing of it.
Heard(word) == \E i \in 1..(line - 1) : i <= Len(shell) /\ Says(word, i)
Unheard(word) == \A i \in 1..(line - 1) : Says(word, i) => i <= Len(shell)
StraysInv ==
    /\ key # "short"
    /\ port = "stray" => Heard("PORT") /\ Unheard("PORT")
    /\ key = "stray" => Heard("KEY") /\ Unheard("KEY")
    /\ offset > have => Heard("RESUME") /\ Unheard("RESUME")
    /\ reader = "ok" => ~(line <= Len(Lines) /\ Held(line) > 0) /\ (expectKey => key # "none")

\* The text of an agent that lives behind a silent shell is read whole, and nothing is refused.
Plain == shell = <<>> /\ alive /\ keyed = expectKey /\ reader # "read"
ExactInv ==
    Plain =>
        /\ buf = Text /\ reader # "err"
        /\ line > 1 => port = "agent"
        /\ keyed /\ line > 2 => key = "agent"
        /\ expectResume /\ line > Len(Lines) => offset = have
        /\ reader = "ok" => line > Len(Lines)

BannerInv == BannerType /\ StraysInv /\ ExactInv

LEMMA TextNat ==
    ASSUME Given
    PROVE  Text \in Nat /\ Text = 4 * Len(Lines) /\ Len(Lines) \in Nat /\ DOMAIN Lines = 1..Len(Lines)
  BY LinesPrinted DEF Text, Unit

LEMMA HeldBounds ==
    ASSUME NEW i \in Nat \ {0}, buf \in Nat
    PROVE  /\ Held(i) \in 0..4 /\ (Held(i) > 0 <=> buf > 4 * i - 4)
           /\ buf >= 4 * i => Held(i) = 4
  BY DEF Held, Unit

\* With no text of the shell every line ends, and enough is all of them.
LEMMA EnoughIsAll ==
    ASSUME BannerType, shell = <<>>, keyed = expectKey, Enough(buf)
    PROVE  buf = Text
  <1>1. Len(Lines) = Need /\ Need \in 1..3 /\ Text = 4 * Need /\ Given
    <2>1. Given /\ Len(shell) = 0
      BY DEF BannerType
    <2>2. Len(Lines) = 0 + 1 + (IF expectKey THEN 1 ELSE 0) + (IF expectResume THEN 1 ELSE 0)
      BY <2>1, LinesPrinted
    <2> QED BY <2>1, <2>2, TextNat DEF Need
  <1>2. buf \in Nat /\ buf <= 4 * Need
    BY <1>1 DEF BannerType
  <1>3. Limit \in Nat /\ Limit >= 12
    BY BannerAssumption DEF Unit
  <1>4. NewLines(buf) = buf \div 4
    <2>1. buf \div 4 \in 0..Len(Lines)
      BY <1>1, <1>2
    <2>2. ASSUME NEW i \in 1..(buf \div 4) PROVE Lines[i].word # "more"
      <3>1. i \in (Len(shell) + 1)..Len(Lines)
        BY <1>1, <2>1
      <3>2. PICK w \in Words : Lines[i] = Own(w)
        BY <1>1, <3>1, LinesPrinted
      <3> QED BY <3>2 DEF Own, Words
    <2>3. {i \in 1..(buf \div 4) : Lines[i].word # "more"} = 1..(buf \div 4)
      BY <2>2
    <2>4. Cardinality(1..(buf \div 4)) = buf \div 4
      BY <2>1, FS_Interval
    <2> QED BY <2>3, <2>4 DEF NewLines, Unit
  <1>5. buf \div 4 >= Need \/ buf > 12
    BY <1>2, <1>3, <1>4 DEF Enough
  <1> QED BY <1>1, <1>2, <1>5

LEMMA Unmoved ==
    ASSUME UNCHANGED <<given, buf>>
    PROVE  /\ Lines' = Lines /\ Text' = Text /\ shell' = shell /\ (Given => Given')
           /\ \A i : Held(i)' = Held(i)
           /\ \A word, i : Says(word, i)' <=> Says(word, i)
  <1>1. Lines' = Lines
    BY DEF Lines, given
  <1>2. \A i : Held(i)' = Held(i)
    BY DEF Held
  <1>3. \A word, i : Says(word, i)' <=> Says(word, i)
    BY <1>1, <1>2 DEF Says
  <1> QED BY <1>1, <1>2, <1>3 DEF Text, Given, given

\* A value that is not the agent's is in a line of the shell.
LEMMA WhoSays ==
    ASSUME Given, NEW i \in 1..Len(Lines)
    PROVE  /\ Lines[i].value \in {"none", "stray", "bad", "agent"}
           /\ Lines[i].value = "agent" \/ i <= Len(shell)
  <1>1. Len(shell) \in Nat /\ Len(Lines) \in Nat
    BY LinesPrinted, TextNat
  <1>2. CASE i <= Len(shell)
    <2>1. Lines[i] \in ShellLines
      BY <1>1, <1>2, LinesPrinted
    <2> QED BY <1>2, <2>1 DEF ShellLines
  <1>3. CASE ~(i <= Len(shell))
    <2>1. i \in (Len(shell) + 1)..Len(Lines)
      BY <1>1, <1>3
    <2>2. PICK w \in Words : Lines[i] = Own(w)
      BY <2>1, LinesPrinted
    <2> QED BY <2>2 DEF Own
  <1> QED BY <1>2, <1>3

\* What going past a line does to what was heard.
LEMMA GonePast ==
    ASSUME BannerInv, UNCHANGED <<given, buf>>, line' = line + 1, NEW word
    PROVE  /\ Heard(word) => Heard(word)'
           /\ Unheard(word) /\ ~Says(word, line) => Unheard(word)'
           /\ Says(word, line) /\ line <= Len(shell) => Heard(word)' /\ Unheard(word)'
  <1>1. line \in Nat \ {0} /\ Len(shell) \in Nat
    BY LinesPrinted DEF BannerInv, BannerType
  <1>2. 1..(line' - 1) = 1..(line - 1) \cup {line}
    BY <1>1
  <1>3. Heard(word) => Heard(word)'
    BY <1>2, Unmoved DEF Heard
  <1>4. Unheard(word) /\ ~Says(word, line) => Unheard(word)'
    BY <1>2, Unmoved DEF Unheard
  <1>5. ASSUME Says(word, line), line <= Len(shell) PROVE Heard(word)' /\ Unheard(word)'
    <2>1. Heard(word)'
      BY <1>2, <1>5, Unmoved DEF Heard
    <2>2. \A i \in 1..(line' - 1) : i <= Len(shell)
      BY <1>1, <1>2, <1>5
    <2> QED BY <2>1, <2>2, Unmoved DEF Unheard
  <1> QED BY <1>3, <1>4, <1>5

\* Behind a silent shell each line is the agent's and was read whole.
LEMMA PlainLine ==
    ASSUME BannerInv, Plain, line <= Len(Lines)
    PROVE  /\ Held(line) = 4 /\ Counts(line) /\ ~Malformed(line)
           /\ Value(line) = "agent" /\ Number(line) = have
           /\ line = 1 => Says("PORT", line)
           /\ keyed /\ line = 2 => Says("KEY", line)
           /\ expectResume /\ line = Len(Lines) => Says("RESUME", line)
  <1>1. /\ Given /\ Len(shell) = 0 /\ line \in 1..Len(Lines) /\ buf = Text /\ buf \in Nat
        /\ DOMAIN Lines = 1..Len(Lines) /\ buf = 4 * Len(Lines) /\ Len(Lines) \in Nat
    BY TextNat DEF BannerInv, BannerType, ExactInv, Plain
  <1>2. Held(line) = 4
    <2>1. buf >= 4 * line /\ line \in Nat \ {0}
      BY <1>1
    <2> QED BY <1>1, <2>1, HeldBounds
  <1>3. \A i \in 1..Len(Lines) : \E w \in Words : Lines[i] = Own(w)
    <2>1. 1..Len(Lines) = (Len(shell) + 1)..Len(Lines)
      BY <1>1
    <2> QED BY <1>1, <2>1, LinesPrinted
  <1>4. PICK w \in Words : Lines[line] = Own(w)
    BY <1>1, <1>3
  <1>5. line > 1 => Lines[line - 1].word # "more"
    <2>1. line > 1 => line - 1 \in 1..Len(Lines)
      BY <1>1
    <2> QED BY <1>3, <2>1 DEF Own, Words
  <1>6. Says(w, line)
    BY <1>1, <1>2, <1>4, <1>5 DEF Says, Own
  <1>7. Counts(line) /\ ~Malformed(line) /\ Value(line) = "agent" /\ Number(line) = have
    <2>1. Lines[line].value = "agent"
      BY <1>4 DEF Own
    <2> QED BY <1>2, <1>6, <2>1 DEF Counts, Malformed, Value, Number
  <1>8. \A u \in Words : Lines[line] = Own(u) => Says(u, line)
    BY <1>1, <1>2, <1>5 DEF Says, Own
  <1>9. Len(shell) + 1 = 1 /\ Len(shell) + 2 = 2 /\ {"PORT", "KEY", "RESUME"} \subseteq Words
    BY <1>1 DEF Words
  <1> QED BY <1>1, <1>2, <1>7, <1>8, <1>9, LinesPrinted

LEMMA TakeStep ==
    ASSUME BannerInv, Take
    PROVE  BannerInv'
  <1>1. /\ UNCHANGED <<given, buf, printed, alive, reader>> /\ line' = line + 1
        /\ reader = "parse" /\ line <= Len(Lines) /\ ~Malformed(line)
        /\ port' = IF Says("PORT", line) THEN Value(line) ELSE port
        /\ key' = IF Says("KEY", line) THEN Value(line) ELSE key
        /\ offset' = IF Says("RESUME", line) THEN Number(line) ELSE offset
    BY DEF Take, AtLine
  <1>2. /\ Given /\ line \in Nat \ {0} /\ offset \in Nat /\ have \in Nat
        /\ Len(shell) \in Nat /\ Len(Lines) \in Nat /\ line \in 1..Len(Lines)
    BY <1>1, LinesPrinted, TextNat DEF BannerInv, BannerType, Given
  <1>3. UNCHANGED <<given, buf>> /\ have' = have /\ keyed' = keyed /\ expectKey' = expectKey /\ expectResume' = expectResume
    BY <1>1 DEF given
  <1>4. /\ Number(line) \in Nat
        /\ Number(line) > have => Lines[line].value # "agent"
    <2>1. \A v \in Nat : Cut(v) \in Nat /\ Cut(v) <= v
      BY DEF Cut
    <2>2. Stray \in Nat
      BY BannerAssumption
    <2>3. Lines[line].value = "agent" => Number(line) \in {have, Cut(have)}
      BY DEF Number
    <2>4. Lines[line].value # "agent" => Number(line) \in {Stray, Cut(Stray)}
      BY DEF Number
    <2>5. have \in Nat /\ Cut(have) \in Nat /\ Cut(have) <= have /\ Cut(Stray) \in Nat
      BY <1>2, <2>1, <2>2
    <2>6. CASE Lines[line].value = "agent"
      <3>1. Number(line) = have \/ Number(line) = Cut(have)
        BY <2>3, <2>6
      <3> QED BY <2>5, <2>6, <3>1
    <2>7. CASE Lines[line].value # "agent"
      BY <2>2, <2>4, <2>5, <2>7
    <2> QED BY <2>6, <2>7
  <1>5. BannerType'
    <2>1. Given' /\ Text' = Text
      BY <1>2, <1>3, Unmoved
    <2>2. offset' \in Nat /\ line' \in Nat \ {0}
      BY <1>1, <1>2, <1>4
    <2> QED BY <1>1, <2>1, <2>2 DEF BannerInv, BannerType
  <1>6. StraysInv'
    <2>1. ASSUME NEW word \in Words, Says(word, line), Lines[line].value # "agent"
          PROVE  Heard(word)' /\ Unheard(word)'
      BY <1>1, <1>2, <1>3, <2>1, WhoSays, GonePast
    <2>2. ASSUME NEW word, ~Says(word, line), Heard(word), Unheard(word)
          PROVE  Heard(word)' /\ Unheard(word)'
      BY <1>1, <1>3, <2>2, GonePast
    <2>3. "PORT" \in Words /\ "KEY" \in Words /\ "RESUME" \in Words
      BY DEF Words
    <2>4. Value(line) = "stray" => Lines[line].value # "agent"
      BY DEF Value
    <2>5. key' # "short"
      <3>1. CASE Says("KEY", line)
        <4>1. Held(line) # 2
          BY <1>1, <3>1 DEF Malformed, Says
        <4>2. Value(line) \in {"none", "stray", "bad", "agent"}
          BY <1>2, <4>1, WhoSays DEF Value
        <4> QED BY <1>1, <3>1, <4>2
      <3>2. CASE ~Says("KEY", line)
        BY <1>1, <3>2 DEF BannerInv, StraysInv
      <3> QED BY <3>1, <3>2
    <2>6. port' = "stray" => Heard("PORT")' /\ Unheard("PORT")'
      BY <1>1, <2>1, <2>2, <2>3, <2>4 DEF BannerInv, StraysInv
    <2>7. key' = "stray" => Heard("KEY")' /\ Unheard("KEY")'
      BY <1>1, <2>1, <2>2, <2>3, <2>4 DEF BannerInv, StraysInv
    <2>8. offset' > have' => Heard("RESUME")' /\ Unheard("RESUME")'
      <3>1. CASE Says("RESUME", line)
        BY <1>1, <1>3, <1>4, <2>1, <2>3, <3>1
      <3>2. CASE ~Says("RESUME", line)
        BY <1>1, <1>3, <2>2, <3>2 DEF BannerInv, StraysInv
      <3> QED BY <3>1, <3>2
    <2>9. reader' = "parse"
      BY <1>1
    <2> QED BY <2>5, <2>6, <2>7, <2>8, <2>9 DEF StraysInv
  <1>7. ExactInv'
    <2> SUFFICES ASSUME Plain' PROVE
           /\ buf' = Text' /\ reader' # "err"
           /\ line' > 1 => port' = "agent"
           /\ keyed' /\ line' > 2 => key' = "agent"
           /\ expectResume' /\ line' > Len(Lines)' => offset' = have'
           /\ reader' = "ok" => line' > Len(Lines)'
      BY DEF ExactInv
    <2>1. Plain
      BY <1>1, <1>3, Unmoved DEF Plain
    <2>2. /\ buf = Text /\ (line > 1 => port = "agent") /\ (keyed /\ line > 2 => key = "agent")
          /\ (expectResume /\ line > Len(Lines) => offset = have)
      BY <2>1 DEF BannerInv, ExactInv
    <2>3. /\ Value(line) = "agent" /\ Number(line) = have
          /\ line = 1 => Says("PORT", line)
          /\ keyed /\ line = 2 => Says("KEY", line)
          /\ expectResume /\ line = Len(Lines) => Says("RESUME", line)
      BY <1>1, <2>1, PlainLine
    <2>4. port' = "agent"
      BY <1>1, <1>2, <2>2, <2>3
    <2>5. keyed /\ line' > 2 => key' = "agent"
      BY <1>1, <1>2, <2>2, <2>3
    <2>6. expectResume /\ line' > Len(Lines) => offset' = have
      BY <1>1, <1>2, <2>2, <2>3
    <2>7. Text' = Text /\ Len(Lines)' = Len(Lines)
      BY <1>3, Unmoved
    <2> QED BY <1>1, <1>3, <2>2, <2>4, <2>5, <2>6, <2>7
  <1> QED BY <1>5, <1>6, <1>7 DEF BannerInv

LEMMA ParseStep ==
    ASSUME BannerInv, PassOver \/ Refuse \/ Conclude
    PROVE  BannerInv'
  <1>1. /\ UNCHANGED <<given, buf, printed, alive, port, key, offset>>
        /\ reader = "parse"
    BY DEF PassOver, Refuse, Conclude, AtLine, made
  <1>2. /\ Given /\ line \in Nat \ {0} /\ offset \in Nat /\ have \in Nat
        /\ Len(shell) \in Nat /\ Len(Lines) \in Nat /\ buf \in Nat
    BY LinesPrinted, TextNat DEF BannerInv, BannerType, Given
  <1>3. /\ UNCHANGED <<given, buf>> /\ have' = have /\ keyed' = keyed /\ expectKey' = expectKey
        /\ expectResume' = expectResume /\ Text' = Text /\ Lines' = Lines /\ Given' /\ shell' = shell
    BY <1>1, <1>2, Unmoved DEF given
  <1>4. Plain' => Plain
    BY <1>1, <1>3 DEF Plain
  <1>5. CASE PassOver
    <2>1. line' = line + 1 /\ ~Counts(line) /\ line <= Len(Lines) /\ reader' = "parse"
      BY <1>1, <1>5 DEF PassOver, AtLine
    <2>2. ASSUME NEW word \in Words, Heard(word), Unheard(word) PROVE Heard(word)' /\ Unheard(word)'
      BY <1>3, <2>1, <2>2, GonePast DEF Counts
    <2>3. StraysInv'
      <3>1. "PORT" \in Words /\ "KEY" \in Words /\ "RESUME" \in Words
        BY DEF Words
      <3> QED BY <1>1, <1>3, <2>1, <2>2, <3>1 DEF BannerInv, StraysInv
    <2>4. ~Plain
      BY <2>1, PlainLine
    <2>5. BannerType'
      BY <1>1, <1>2, <1>3, <2>1 DEF BannerInv, BannerType
    <2> QED BY <1>4, <2>3, <2>4, <2>5 DEF BannerInv, ExactInv
  <1>6. CASE Refuse \/ Conclude
    <2>1. line' = line /\ reader' \in {"ok", "err"}
      BY <1>6 DEF Refuse, Conclude, made
    <2>2. BannerType'
      BY <1>1, <1>2, <1>3, <2>1 DEF BannerInv, BannerType
    <2>3. \A word : (Heard(word)' <=> Heard(word)) /\ (Unheard(word)' <=> Unheard(word))
      BY <1>3, <2>1, Unmoved DEF Heard, Unheard
    <2>4. reader' = "ok" => ~(line <= Len(Lines) /\ Held(line) > 0) /\ port # "none" /\ (expectKey => key # "none")
      BY <1>1, <1>6 DEF Refuse, Conclude, AtLine
    <2>5. Held(line)' = Held(line)
      BY <1>3, <2>1, Unmoved DEF Held
    <2>6. StraysInv'
      BY <1>1, <1>3, <2>1, <2>3, <2>4, <2>5 DEF BannerInv, StraysInv
    <2>7. ASSUME Plain PROVE reader' = "ok" /\ line > Len(Lines)
      <3>1. CASE Refuse
        BY <2>7, <3>1, PlainLine DEF Refuse, AtLine
      <3>2. CASE Conclude
        <4>1. ~(line <= Len(Lines))
          BY <1>1, <2>7, <3>2, PlainLine DEF Conclude, AtLine
        <4>2. Len(Lines) >= 1 /\ (keyed => Len(Lines) >= 2) /\ (expectKey => keyed)
          BY <1>2, LinesPrinted DEF Given
        <4>3. port = "agent" /\ (keyed => key = "agent")
          BY <1>2, <2>7, <4>1, <4>2 DEF BannerInv, ExactInv
        <4>4. reader' = "ok"
          BY <3>2, <4>2, <4>3 DEF Conclude
        <4> QED BY <1>2, <4>1, <4>4
      <3> QED BY <1>6, <3>1, <3>2
    <2>8. ExactInv'
      BY <1>1, <1>3, <1>4, <2>1, <2>7 DEF BannerInv, ExactInv
    <2> QED BY <2>2, <2>6, <2>8 DEF BannerInv
  <1> QED BY <1>5, <1>6

LEMMA BannerStep == BannerInv /\ [BannerNext]_bannerVars => BannerInv'
  <1> SUFFICES ASSUME BannerInv, [BannerNext]_bannerVars PROVE BannerInv'
    OBVIOUS
  <1>0. Given /\ Text \in Nat /\ have \in Nat
    BY TextNat DEF BannerInv, BannerType, Given
  <1>1. CASE Parse
    BY <1>1, TakeStep, ParseStep DEF Parse
  <1>2. CASE Read
    <2>1. PICK k \in 1..Piece : buf + k <= printed /\ buf' = buf + k
      BY <1>2 DEF Read
    <2>2. Piece \in Nat /\ UNCHANGED <<given, printed, alive, reader, made>> /\ reader = "read"
      BY <1>2, BannerAssumption DEF Read
    <2>3. Given' /\ Text' = Text
      BY <1>0, <2>2 DEF Given, given, Text, Lines
    <2>4. BannerType'
      BY <2>1, <2>2, <2>3 DEF BannerInv, BannerType, made
    <2>5. port' = "none" /\ key' = "none" /\ offset' = 0 /\ reader' = "read" /\ have' = have
      BY <2>2 DEF BannerInv, BannerType, made, given
    <2> QED BY <1>0, <2>4, <2>5 DEF BannerInv, StraysInv, ExactInv, Plain
  <1>3. CASE Stop
    <2>1. /\ UNCHANGED <<given, buf, printed, alive, made>> /\ reader = "read" /\ reader' = "parse"
          /\ Enough(buf) \/ ~alive
      BY <1>3 DEF Stop
    <2>2. UNCHANGED <<given, buf>> /\ Given' /\ Text' = Text /\ Lines' = Lines
      BY <1>0, <2>1, Unmoved
    <2>3. /\ line' = 1 /\ port' = "none" /\ key' = "none" /\ offset' = 0 /\ have' = have
          /\ shell' = shell /\ keyed' = keyed /\ expectKey' = expectKey
      BY <2>1 DEF BannerInv, BannerType, made, given
    <2>4. BannerType'
      BY <2>1, <2>2, <2>3 DEF BannerInv, BannerType
    <2>5. StraysInv'
      BY <1>0, <2>1, <2>3 DEF StraysInv
    <2>6. Plain' => buf' = Text'
      BY <2>1, <2>2, <2>3, EnoughIsAll DEF Plain, BannerInv
    <2>7. Len(Lines)' \in Nat /\ Len(Lines)' >= 1
      BY <1>0, <2>2, LinesPrinted
    <2> QED BY <2>1, <2>3, <2>4, <2>5, <2>6, <2>7 DEF BannerInv, ExactInv
  <1>4. CASE PrintMore \/ Dies \/ UNCHANGED bannerVars
    <2>1. /\ UNCHANGED <<given, buf, reader, made>> /\ (alive' => alive)
          /\ printed' \in Nat /\ printed <= printed' /\ printed' <= Text
      BY <1>0, <1>4 DEF PrintMore, Dies, bannerVars, BannerInv, BannerType
    <2>2. /\ UNCHANGED <<given, buf>> /\ Given' /\ Text' = Text /\ Lines' = Lines /\ Held(line)' = Held(line)
          /\ \A word, i : Says(word, i)' <=> Says(word, i)
      <3>1. UNCHANGED <<given, buf>> /\ line' = line
        BY <2>1 DEF made
      <3> QED BY <1>0, <3>1, Unmoved DEF Held
    <2>3. UNCHANGED <<line, port, key, offset, have, shell, keyed, expectKey, expectResume>>
      BY <2>1 DEF made, given
    <2>4. BannerType'
      BY <2>1, <2>2, <2>3 DEF BannerInv, BannerType
    <2>5. \A word : (Heard(word)' <=> Heard(word)) /\ (Unheard(word)' <=> Unheard(word))
      BY <2>2, <2>3 DEF Heard, Unheard
    <2>6. StraysInv'
      BY <2>1, <2>2, <2>3, <2>5 DEF BannerInv, StraysInv
    <2>7. ExactInv'
      BY <2>1, <2>2, <2>3 DEF BannerInv, ExactInv, Plain
    <2> QED BY <2>4, <2>6, <2>7 DEF BannerInv
  <1> QED BY <1>1, <1>2, <1>3, <1>4 DEF BannerNext

LEMMA BannerAlways == BannerSpec => []BannerInv
  <1>1. BannerInit => BannerInv
    <2> SUFFICES ASSUME BannerInit PROVE BannerInv
      OBVIOUS
    <2>1. shell \in Seq(ShellLines)
      BY DEF BannerInit, SeqOf
    <2>2. Given
      BY <2>1, BannerAssumption DEF BannerInit, Given
    <2>3. Text \in Nat
      BY <2>2, TextNat
    <2> QED BY <2>2, <2>3 DEF BannerInit, BannerInv, BannerType, Given, StraysInv, ExactInv, Plain
  <1> QED BY <1>1, BannerStep, PTL DEF BannerSpec

\* Of an agent that lives, behind a shell that prints nothing, all that was asked is read, for
\* every size of the pieces and every limit that holds three lines (ssh.rs ssh_start_banner).
THEOREM BannerReadsExactly == BannerSpec => []BannerExact
  <1>1. BannerInv => BannerExact
    <2> SUFFICES ASSUME BannerInv, reader \in {"ok", "err"}, shell = <<>>, alive, keyed = expectKey
                 PROVE  /\ reader = "ok" /\ port = "agent"
                        /\ (expectKey => key = "agent") /\ (expectResume => offset = have)
      BY DEF BannerExact
    <2>1. Plain
      BY DEF Plain
    <2>2. reader = "ok" /\ line > Len(Lines)
      BY <2>1 DEF BannerInv, ExactInv
    <2>3. Len(Lines) \in Nat /\ line \in Nat /\ Len(Lines) >= 1 /\ (keyed => Len(Lines) >= 2)
      BY LinesPrinted, TextNat DEF BannerInv, BannerType
    <2> QED BY <2>1, <2>2, <2>3 DEF BannerInv, ExactInv
  <1> QED BY <1>1, BannerAlways, PTL

\* Whatever lines the shell prints, with the banner's words or not, and wherever the text ends:
\* no part of a key is used, and what the shell says is believed only where the agent's own line
\* was not read as one (ssh.rs ssh_start_banner).
THEOREM BannerReadsSafely == BannerSpec => []BannerSafe
  <1>1. BannerInv => BannerSafe
    <2> SUFFICES ASSUME BannerInv, reader = "ok" PROVE BannerSafe
      BY DEF BannerSafe
    <2>1. /\ line \in Nat \ {0} /\ Len(Lines) \in Nat /\ Len(shell) \in Nat /\ buf \in Nat
          /\ DOMAIN Lines = 1..Len(Lines) /\ DOMAIN shell = 1..Len(shell) /\ Given
      BY LinesPrinted, TextNat DEF BannerInv, BannerType
    <2>2. ASSUME NEW word, Heard(word) PROVE ShellSays(word)
      <3>1. PICK i \in 1..(line - 1) : i <= Len(shell) /\ Says(word, i)
        BY <2>2 DEF Heard
      <3>2. i \in DOMAIN shell
        BY <2>1, <3>1
      <3> QED BY <3>1, <3>2 DEF ShellSays
    <2>3. ASSUME NEW word, Unheard(word), NEW i \in DOMAIN Lines \ DOMAIN shell, Says(word, i) PROVE FALSE
      <3>1. Held(i) > 0 /\ i \in Nat \ {0} /\ i <= Len(Lines)
        BY <2>1, <2>3 DEF Says
      <3>2. buf > 4 * i - 4
        BY <2>1, <3>1, HeldBounds
      <3>3. CASE i < line
        BY <2>1, <2>3, <3>1, <3>3 DEF Unheard
      <3>4. CASE ~(i < line)
        <4>1. buf > 4 * line - 4 /\ line <= Len(Lines)
          BY <2>1, <3>1, <3>2, <3>4
        <4>2. Held(line) > 0
          BY <2>1, <4>1, HeldBounds
        <4> QED BY <4>1, <4>2 DEF BannerInv, StraysInv
      <3> QED BY <3>3, <3>4
    <2>4. \A word : Heard(word) /\ Unheard(word) => OfShellOnly(word)
      BY <2>2, <2>3 DEF OfShellOnly, AgentSays
    <2> QED BY <2>4 DEF BannerInv, StraysInv, BannerSafe
  <1> QED BY <1>1, BannerAlways, PTL
============================================================================
