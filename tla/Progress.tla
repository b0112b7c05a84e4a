------------------------------ MODULE Progress -----------------------------
(***************************************************************************)
(* The payload of one side as its user sees it: the stream threads of      *)
(* Throttle, the thread that reports the shared counter from time to time  *)
(* (a JSON line or a bar), and the main thread, which joins the stream     *)
(* threads in order, tells the reporting thread to stop, joins it, and on  *)
(* success reports 100 %.                                                  *)
(***************************************************************************)
EXTENDS Throttle

VARIABLES
    json,     \* -J
    ticking,  \* -P is not 0, so there is a reporting thread
    main,     \* "join", "stop", "wait" (for the reporting thread) or "end"
    joined,   \* the stream thread joined next
    failed,   \* a stream thread had failed
    stop,     \* the flag the reporting thread reads
    updater,  \* "check", "sleep", "report" or "gone"
    read,     \* the counter it has read
    shown,    \* the last count shown, -1 before
    finals    \* how often 100 % was shown

progressVars == <<json, ticking, main, joined, failed, stop, updater, read, shown, finals>>
allVars == <<vars, progressVars>>

Show(n) ==
    /\ shown' = n
    /\ finals' = finals + (IF n = Size THEN 1 ELSE 0)

----------------------------------------------------------------------------
\* The reporting thread checks the flag before and after its sleep.
UpdaterSleeps ==
    /\ updater = "check"
    /\ updater' = IF stop THEN "gone" ELSE "sleep"
    /\ UNCHANGED <<vars, json, ticking, main, joined, failed, stop, read, shown, finals>>

\* A mistake: it reports whatever it reads.
UpdaterReadsAll ==
    /\ updater = "sleep"
    /\ read' = total
    /\ updater' = IF stop THEN "gone" ELSE "report"
    /\ UNCHANGED <<vars, json, ticking, main, joined, failed, stop, shown, finals>>

\* 100 % is left to the main thread.
UpdaterReads ==
    /\ updater = "sleep"
    /\ read' = total
    /\ updater' = IF stop \/ total >= Size THEN "gone" ELSE "report"
    /\ UNCHANGED <<vars, json, ticking, main, joined, failed, stop, shown, finals>>

UpdaterReports ==
    /\ updater = "report"
    /\ Show(read)
    /\ updater' = "check"
    /\ UNCHANGED <<vars, json, ticking, main, joined, failed, stop, read>>

Updater == UpdaterSleeps \/ UpdaterReads \/ UpdaterReports

----------------------------------------------------------------------------
\* The main thread stops joining at the first thread that failed.
Join ==
    /\ main = "join"
    /\ pc[joined] \in {"done", "failed"}
    /\ failed' = (pc[joined] = "failed")
    /\ joined' = joined + 1
    /\ main' = IF failed' \/ joined' = N THEN "stop" ELSE "join"
    /\ UNCHANGED <<vars, json, ticking, stop, updater, read, shown, finals>>

\* Mistakes: the flag is not set,
StopUnset ==
    /\ main = "stop"
    /\ main' = "wait"
    /\ UNCHANGED <<vars, json, ticking, joined, failed, stop, updater, read, shown, finals>>

Stop ==
    /\ main = "stop"
    /\ stop' = TRUE
    /\ main' = "wait"
    /\ UNCHANGED <<vars, json, ticking, joined, failed, updater, read, shown, finals>>

Final ==
    /\ main' = "end"
    /\ IF ~failed /\ (json \/ ticking) THEN Show(Size) ELSE UNCHANGED <<shown, finals>>
    /\ UNCHANGED <<vars, json, ticking, joined, failed, stop, updater, read>>

\* or the reporting thread is not joined.
EndUnjoined == main = "wait" /\ Final

End == main = "wait" /\ updater = "gone" /\ Final

ProgressInit ==
    /\ Init
    /\ json \in BOOLEAN /\ ticking \in BOOLEAN
    /\ main = "join" /\ joined = 0 /\ failed = FALSE
    /\ stop = FALSE /\ updater = IF ticking THEN "check" ELSE "gone"
    /\ read = 0 /\ shown = -1 /\ finals = 0

\* The payload goes on, of a detached stream thread even after the end.
Pay(step) == step /\ UNCHANGED progressVars

ProgressNext ==
    \/ Pay(Tick) \/ (\E i \in Threads : Pay(Thread(i)))
    \/ Updater \/ Join \/ Stop \/ End

\* Time passes and every thread is scheduled; the sleep of a reporting thread ends.
ProgressSpec ==
    /\ ProgressInit /\ [][ProgressNext]_allVars
    /\ WF_allVars(Pay(Tick)) /\ \A i \in Threads : WF_allVars(Pay(Thread(i)))
    /\ WF_allVars(Updater) /\ WF_allVars(Join \/ Stop \/ End)

----------------------------------------------------------------------------
\* What is shown never goes back, and nothing is shown after the final line: the reporting
\* thread is joined before it ("Join updater first", engine.rs:777).
ShownRises == [][shown' >= shown /\ (main = "end" => shown' = shown /\ finals' = finals)]_allVars

\* 100 % is shown once, by the main thread, and only of a payload that is all there
\* ("Final 100% JSON line comes from finish_progress only", engine.rs:720).
FinalOnce ==
    /\ finals <= 1
    /\ finals = 1 => main = "end" /\ total = Size /\ \A i \in Threads : pc[i] = "done"
    /\ main = "end" /\ (json \/ ticking) => (finals = 1 <=> ~failed)

\* The payload phase ends, whichever thread fails and however late the limit or the
\* reporting thread is.
Ends == <>(main = "end")
============================================================================
