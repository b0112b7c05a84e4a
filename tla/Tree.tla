-------------------------------- MODULE Tree -------------------------------
(***************************************************************************)
(* cp with and without -r: the list of the files, the directories made for *)
(* them, and one session of Agent after another, up to the first file that *)
(* fails.                                                                  *)
(***************************************************************************)
EXTENDS Agent, Naturals

CONSTANT MaxFiles

ASSUME TreeAssumption == MaxFiles \in Nat \ {0}

VARIABLES
    resume,   \* -A: files are written in place, not renamed into it
    phase,    \* "list", "mkdir", "check", "copy", "ok" or "err"
    n,        \* files to copy
    at,       \* the file it is at
    bad,      \* names found that leave the destination or go through a symlink
    dest      \* each file there: "before", "part" or "whole"

treeVars == <<resume, phase, n, at, bad, dest>>
allVars == <<vars, treeVars>>

Files == 1..MaxFiles
SinkResult == IF SinkIsLocal THEN local ELSE agent
SinkRuns == IF SinkIsLocal THEN cp = "run" ELSE agent = "run"

\* A file of its own is copied without looking.
TreeInit ==
    /\ Init
    /\ resume \in BOOLEAN
    /\ n = 1 /\ at = 1 /\ bad = {} /\ dest = [i \in Files |-> "before"]
    /\ phase \in {"list", "copy"}

----------------------------------------------------------------------------
\* walk_local_files or find over ssh; no files is an error.
List ==
    /\ phase = "list"
    /\ \E k \in 0..MaxFiles :
          IF k = 0 THEN phase' = "err" /\ UNCHANGED <<n, bad>>
          ELSE /\ phase' = "mkdir" /\ n' = k
               /\ bad' \in SUBSET (IF SinkIsLocal THEN 1..k ELSE {})
    /\ UNCHANGED <<vars, resume, at, dest>>

\* A list that cannot be had, directories that cannot be made, a root that is a link.
ListFails ==
    /\ phase \in {"list", "mkdir", "check"}
    /\ phase' = "err"
    /\ UNCHANGED <<vars, resume, n, at, bad, dest>>

MakeDirs ==
    /\ phase = "mkdir"
    /\ phase' = "check"
    /\ UNCHANGED <<vars, resume, n, at, bad, dest>>

\* is_safe_rel and dest_path_has_symlink, before and after the parents are made.
Check ==
    /\ phase = "check"
    /\ phase' = IF at \in bad THEN "err" ELSE "copy"
    /\ UNCHANGED <<vars, resume, n, at, bad, dest>>

----------------------------------------------------------------------------
\* There is a session, or what is left of one after the command gave up.
Begun == phase = "copy" \/ (phase = "err" /\ cp = "err")

Session ==
    /\ Begun /\ Next
    /\ dest' = IF SinkResult # "ok" /\ SinkResult' = "ok"
               THEN [dest EXCEPT ![at] = "whole"] ELSE dest
    /\ UNCHANGED <<resume, phase, n, at, bad>>

Scribble ==
    /\ Begun /\ resume /\ SinkRuns /\ dest[at] = "before"
    /\ dest' = [dest EXCEPT ![at] = "part"]
    /\ UNCHANGED <<vars, resume, phase, n, at, bad>>

\* A mistake: the list is taken to be one longer.
PastLast == at > n
AtLast == at = n

NextFile ==
    /\ IF AtLast THEN phase' = "ok" /\ UNCHANGED <<vars, at>>
       ELSE /\ phase' = "check" /\ at' = at + 1
            /\ cp' = (IF Banner THEN "spawn" ELSE "prepare")
            /\ local' = "none" /\ child' = "none" /\ agent' = "none" /\ UNCHANGED options
    /\ UNCHANGED <<resume, n, bad, dest>>

\* A mistake: a file that failed is passed over.
CopiedOrNot == phase = "copy" /\ cp \in {"ok", "err"} /\ NextFile

Copied == phase = "copy" /\ cp = "ok" /\ NextFile

NotCopied ==
    /\ phase = "copy" /\ cp = "err"
    /\ phase' = "err"
    /\ UNCHANGED <<vars, resume, n, at, bad, dest>>

Walk == List \/ ListFails \/ MakeDirs \/ Check \/ Copied \/ NotCopied
TreeNext == Walk \/ Session \/ Scribble

\* A step of the session, as Session takes it.
InSession(A) == Session /\ A

\* The command is in a call over ssh that has no timeout: find, mkdir -p, stat, or the read of
\* the banner. The other host owes it no answer.
Waits ==
    \/ phase = "list" /\ SinkIsLocal
    \/ phase = "mkdir" /\ ~SinkIsLocal
    \/ phase = "copy" /\ cp = "prepare" /\ mode = "push -z" /\ resume
    \/ cp = "banner" /\ agent = "start" /\ child = "running"

\* What waits for no such answer goes on: a half is bounded by its timeouts, the wait for the
\* agent by its own, and ssh follows its agent. The agent may hang at any point.
TreeSpec ==
    /\ TreeInit /\ [][TreeNext]_allVars
    /\ WF_allVars(~Waits /\ Walk) /\ WF_allVars(~Waits /\ InSession(Command))
    /\ WF_allVars(InSession(ChildEnds))

----------------------------------------------------------------------------
TypeOK ==
    /\ mode \in Modes
    /\ opts \in [crypt : BOOLEAN, here : {"none", "k"}, there : {"none", "k", "other"}]
    /\ cp \in {"prepare", "spawn", "banner", "run", "finish", "ok", "err"}
    /\ local \in {"none", "ok", "err"}
    /\ child \in {"none", "running", "ok", "failed", "killed"}
    /\ agent \in {"none", "start", "run", "ok", "err"}
    /\ resume \in BOOLEAN /\ phase \in {"list", "mkdir", "check", "copy", "ok", "err"}
    /\ n \in Files /\ at \in 1..n /\ bad \subseteq Files
    /\ dest \in [Files -> {"before", "part", "whole"}]

\* Whatever fails, the files before the one it is at are whole and those after it untouched,
\* with no file written under a name that was refused; success is the whole tree.
TreePrefix ==
    /\ \A i \in 1..n : (i < at => dest[i] = "whole") /\ (i > at \/ i \in bad => dest[i] = "before")
    /\ phase = "ok" => dest[n] = "whole"

\* The remote half and the ssh of one file have ended before the next is begun.
OneAtATime == [][at' # at => agent \notin {"start", "run"} /\ child # "running"]_allVars

\* A stuck remote agent does not hang the command (finish_agent), at any file and in any
\* direction, except in a call over ssh that has no timeout: it returns, or waits in one of
\* those for ever, the read of a banner the agent never prints among them.
TreeReturns == <>(phase \in {"ok", "err"}) \/ <>[]Waits
============================================================================
