----------------------------- MODULE SinkPromise ---------------------------
(***************************************************************************)
(* Sink implements CopyPromise: the destination and the header are its     *)
(* own, the status is read off the main thread and the process.            *)
(***************************************************************************)
EXTENDS Sink

Status ==
    IF main = "ok" THEN "ok"
    ELSE IF ~alive THEN "dead"
    ELSE IF main = "control" THEN "idle"
    ELSE IF main = "err" THEN "failed"
    ELSE "busy"

Promise == INSTANCE CopyPromise WITH status <- Status

\* Every step of the sink, its receivers, a kill or a new run is a step of the
\* promise or changes nothing it speaks of.
KeepsPromise == Promise!Spec
============================================================================
