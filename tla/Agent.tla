------------------------------- MODULE Agent -------------------------------
(***************************************************************************)
(* One cp of one file: the local command, the ssh child it starts and the  *)
(* bbx that runs at the other end of it, in the four directions.  The      *)
(* transfer itself is Session; what it promises of the two results is the  *)
(* guard of the steps that end a half.                                     *)
(***************************************************************************)
CONSTANTS
    Modes,    \* of "push", "push -z", "pull", "pull -z"
    Trouble   \* of "noise" before the banner, "drop" of ssh, "kill" of the agent

ASSUME AgentAssumption ==
    /\ Modes \subseteq {"push", "push -z", "pull", "pull -z"}
    /\ Trouble \subseteq {"noise", "drop", "kill"}

VARIABLES
    mode,
    opts,    \* crypt (-e); here, there: the key of -k or BBX_KEY at each end, or "none"
    cp,      \* where the command is; "ok" and "err" are its results
    local,   \* the result of the local half: "none", "ok", "err"
    child,   \* the ssh process: "none", "running", "ok", "failed", "killed"
    agent    \* the remote half: "none", "start", "run", "ok", "err"

options == <<mode, opts>>
vars == <<options, cp, local, child, agent>>

Can(t) == t \in Trouble

\* The remote half listens and says where on ssh's stdout.
Banner == mode \in {"push", "pull -z"}
SinkIsLocal == mode \in {"pull", "pull -z"}

----------------------------------------------------------------------------
\* The command line and the environment of the agent.

Or(k, otherwise) == IF k = "none" THEN otherwise ELSE k

\* The key the command puts in front of the remote command line; the end that listens
\* draws one of its own when it has none. A mistake: the key of -k is not sent on pull -z.
KeySentDialed ==
    IF opts.crypt /\ mode \in {"push -z", "pull"} THEN Or(opts.here, "drawn here") ELSE "none"

KeySent ==
    CASE ~opts.crypt \/ mode = "push" -> "none"
      [] opts.crypt /\ mode = "pull -z" -> opts.here
      [] OTHER -> Or(opts.here, "drawn here")

\* What the agent makes of it: a key turns encryption on, whatever the flag.
AgentKey == Or(KeySent, opts.there)
AgentCrypts == opts.crypt \/ AgentKey # "none"
KeyThere == IF AgentCrypts THEN Or(AgentKey, "drawn there") ELSE "none"

\* The key the command works with: its own before the one of the banner.
KeyHere ==
    CASE ~opts.crypt -> "none"
      [] opts.crypt /\ Banner -> Or(opts.here, KeyThere)
      [] OTHER -> Or(opts.here, "drawn here")

Agree == KeyHere = KeyThere

----------------------------------------------------------------------------
Init ==
    /\ mode \in Modes
    /\ opts \in [crypt : BOOLEAN, here : {"none", "k"}, there : {"none", "k", "other"}]
    /\ cp = (IF Banner THEN "spawn" ELSE "prepare")
    /\ local = "none" /\ child = "none" /\ agent = "none"

----------------------------------------------------------------------------
\* The command.

\* remote_file_len for a resumed push -z, then the local listener.
Prepared ==
    /\ cp = "prepare" /\ cp' = "spawn"
    /\ UNCHANGED <<options, local, child, agent>>

NotPrepared ==
    /\ cp \in {"prepare", "spawn"}
    /\ cp' = "err"
    /\ UNCHANGED <<options, local, child, agent>>

Spawn ==
    /\ cp = "spawn"
    /\ child' = "running" /\ agent' = "start"
    /\ cp' = IF Banner THEN "banner" ELSE "run"
    /\ UNCHANGED <<options, local>>

BannerRead ==
    /\ cp = "banner" /\ agent \notin {"start", "none"}
    /\ cp' = "run"
    /\ UNCHANGED <<options, local, child, agent>>

\* Other lines took the place of PORT and KEY, or ssh ended first: an early return.
BannerBad ==
    /\ cp = "banner"
    /\ Can("noise") \/ child # "running"
    /\ cp' = "err"
    /\ UNCHANGED <<options, local, child, agent>>

\* The child is killed when the local half failed.
LocalEnds(r) ==
    /\ cp = "run"
    /\ r = "ok" => agent \notin {"start", "none"} /\ (SinkIsLocal => Agree /\ (agent # "err" \/ Can("kill")))
    /\ r = "err" => SinkIsLocal \/ agent # "ok"
    /\ local' = r
    /\ child' = IF r = "err" /\ child = "running" THEN "killed" ELSE child
    /\ cp' = "finish"
    /\ UNCHANGED <<options, agent>>

\* A mistake: the agent's end is not looked at when the transfer was good.
FinishTrusting ==
    /\ cp = "finish" /\ child # "running"
    /\ cp' = local
    /\ UNCHANGED <<options, local, child, agent>>

\* try_wait finds the child ended.
Finish ==
    /\ cp = "finish" /\ child # "running"
    /\ cp' = IF local = "ok" /\ child = "ok" THEN "ok" ELSE "err"
    /\ UNCHANGED <<options, local, child, agent>>

\* Mistakes: the timeout gives up without the kill; there is none.
TimeoutLeaves ==
    /\ cp = "finish" /\ child = "running"
    /\ cp' = "err"
    /\ UNCHANGED <<options, local, child, agent>>

NoTimeout == cp = "finish" /\ child = "running" /\ UNCHANGED vars

\* BBX_AGENT_WAIT_SECS ran out.
WaitTimeout ==
    /\ cp = "finish" /\ child = "running"
    /\ child' = "killed" /\ cp' = "err"
    /\ UNCHANGED <<options, local, agent>>

----------------------------------------------------------------------------
\* The other end.

\* It binds and prints, or dials; or it cannot.
AgentStarts ==
    /\ agent = "start"
    /\ agent' \in {"run", "err"}
    /\ UNCHANGED <<options, cp, local, child>>

\* Success takes a peer; a sink that succeeds had a source that does, with its key; a
\* source may succeed alone.
AgentEnds(r) ==
    /\ agent = "run"
    /\ r = "ok" => /\ cp = "run" \/ local # "none"
                   /\ SinkIsLocal \/ (Agree /\ local # "err")
    /\ r = "err" => Can("kill") \/ ~(SinkIsLocal /\ local = "ok")
    /\ agent' = r
    /\ UNCHANGED <<options, cp, local, child>>

\* ssh takes the exit status of the agent for its own.
ChildEnds ==
    /\ child = "running" /\ agent \in {"ok", "err"}
    /\ child' = IF agent = "ok" THEN "ok" ELSE "failed"
    /\ UNCHANGED <<options, cp, local, agent>>

\* The ssh connection is lost; the agent does not notice.
ChildDrops ==
    /\ child = "running" /\ Can("drop")
    /\ child' = "failed"
    /\ UNCHANGED <<options, cp, local, agent>>

Command ==
    \/ Prepared \/ NotPrepared \/ Spawn \/ BannerRead \/ BannerBad
    \/ LocalEnds("ok") \/ LocalEnds("err") \/ Finish \/ WaitTimeout
Next ==
    \/ Command \/ AgentStarts \/ AgentEnds("ok") \/ AgentEnds("err")
    \/ ChildEnds \/ ChildDrops

----------------------------------------------------------------------------
\* cp reports success only when both halves did, the remote one included: a
\* source that has written everything does not speak for the sink.
CpTrue == cp = "ok" => local = "ok" /\ agent = "ok"

\* Once the transfer was begun, cp leaves no ssh process behind it.
CpReaps == cp \in {"ok", "err"} /\ local # "none" => child # "running"

\* The two halves come by one key, or by none, exactly if nothing was set at one end that
\* the other is not told of, given that the banner read was the agent's: -k on push reaches
\* the banner's reader only, BBX_KEY of the agent's environment encrypts even under -E.
HalvesMeet ==
    cp \in {"run", "finish"} =>
        (Agree <=> IF opts.crypt
                   THEN mode # "push" \/ opts.here \in {"none", opts.there}
                   ELSE opts.there = "none")
============================================================================
