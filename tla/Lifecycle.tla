----------------------------- MODULE Lifecycle ------------------------------
(***************************************************************************)
(* The life of a run: run.py, run_forever.  It starts the writer, builds   *)
(* one supervisor per exchange and launches the tasks that feed the        *)
(* writer; at a signal, or when the duration is over, it cancels them,     *)
(* gathers them and only then closes the writer.                           *)
(*                                                                         *)
(* The writer (Writer) trusts its caller not to submit a row once close()  *)
(* is called: a row behind the sentinel would be stored by nobody, and one *)
(* more on a full queue would throw the sentinel out.  Here submitting is  *)
(* bound to the tasks alone, and the writer's specification is what the    *)
(* composition has to keep.  The health report and the duration timer      *)
(* submit nothing; the timer is one of the causes of RequestStop.          *)
(***************************************************************************)
EXTENDS Writer

CONSTANTS
    Supervisors,    \* the tasks that run an exchange
    Sampler         \* the task that samples the books on the grid

Tasks == Supervisors \cup {Sampler}

VARIABLES
    main,       \* where run_forever is
    live        \* the tasks that have not ended

lifeVars == <<vars, main, live>>

LifeInit == Init /\ main = "building" /\ live = {}

-----------------------------------------------------------------------------
\* create_adapter knows neither the exchange nor the symbol's form: the exception
\* leaves run_forever before anything that would close the writer.
BuildFails ==
    /\ main = "building"
    /\ main' = "aborted"
    /\ UNCHANGED <<vars, live>>

Launch ==
    /\ main = "building"
    /\ main' = "running"
    /\ live' = Tasks
    /\ UNCHANGED vars

\* Any task that has not ended may submit, a cancelled one while it unwinds too;
\* snapshots come from the sampler, everything else from the supervisors.
TaskSubmits(t, r) ==
    /\ t \in live
    /\ t = Sampler <=> r.kind = Snap
    /\ Accept(r)
    /\ UNCHANGED <<main, live>>

\* A task returns (an exchange that lists no symbol), ends with an exception, which
\* nobody looks at before the gather, or has unwound after its cancellation.
TaskEnds(t) ==
    /\ t \in live
    /\ live' = live \ {t}
    /\ UNCHANGED <<vars, main>>

\* The first SIGINT or SIGTERM, or the duration; a second one does nothing.
RequestStop ==
    /\ main = "running"
    /\ main' = "stopping"
    /\ UNCHANGED <<vars, live>>

\* Mutant: the tasks are cancelled, but not waited for.
CloseWithoutGather ==
    /\ main = "stopping"
    /\ CloseBegins
    /\ main' = "closing"
    /\ UNCHANGED live

\* run_forever wakes and cancels every task: each must first be run again to end.
CancelAll ==
    /\ main = "stopping"
    /\ main' = "gathering"
    /\ UNCHANGED <<vars, live>>

Gathered ==
    /\ main = "gathering" /\ live = {}
    /\ CloseBegins
    /\ main' = "closing"
    /\ UNCHANGED live

\* close() returns, or the exception of the drain task or of _finish goes through
\* run_forever.
Ends ==
    /\ main = "closing" /\ closer \in {"closed", "failed"}
    /\ main' = IF closer = "closed" THEN "exited" ELSE "aborted"
    /\ UNCHANGED <<vars, live>>

-----------------------------------------------------------------------------
Running ==
    \/ BuildFails \/ Launch \/ RequestStop \/ CancelAll \/ Gathered \/ Ends
    \/ \E t \in Tasks : TaskEnds(t)

Feeding == \E t \in Tasks, r \in Rows : TaskSubmits(t, r)

\* close() past its first line, and the writer's task and thread.
Writing ==
    /\ \/ DrainStep \/ ThreadStep
       \/ PutSentinel \/ DrainEnded \/ CloseTimesOut \/ CloseRaises
       \/ Finish \/ FinishFails
    /\ UNCHANGED <<main, live>>

LifeNext == Running \/ Feeding \/ Writing

LifeSpec == LifeInit /\ [][LifeNext]_lifeVars

\* As in Writer; run_forever goes on when it can, and a cancelled task ends: every
\* await in it lets the cancellation through, the closing handshake of a connection
\* is bounded (close_timeout).  Nobody has to ask for a stop.
FairLifeSpec ==
    /\ LifeSpec
    /\ WF_lifeVars(DrainStep /\ Writing)
    /\ WF_lifeVars(ThreadStep /\ Writing)
    /\ WF_lifeVars((PutSentinel \/ DrainEnded \/ CloseRaises \/ Finish) /\ Writing)
    /\ WF_lifeVars(Launch \/ CancelAll \/ Gathered \/ Ends)
    /\ \A t \in Tasks : WF_lifeVars(main = "gathering" /\ TaskEnds(t))

-----------------------------------------------------------------------------
\* Types, and the order on which the contract rests: as long as a task lives, close()
\* has not been called.
LifeInv ==
    /\ main \in {"building", "running", "stopping", "gathering", "closing", "exited", "aborted"}
    /\ live \subseteq Tasks
    /\ main \in {"building", "running", "stopping", "gathering"} => closer = "open"
    /\ main \in {"building", "closing", "exited", "aborted"} => live = {}

\* The program is a good caller of the writer: every behaviour of the composition is
\* one of Writer's, so no task can be found submitting behind the sentinel, at
\* whatever point of its work the stop met it.
KeepsContract == Spec

\* The drain task is dead and the queue full: close() waits for room nobody makes.
Wedged == closer = "putting" /\ drain = "dead" /\ Len(queue) = QueueMaxsize

\* A stop ends the program, whatever the tasks and the writer were doing when it
\* came.  Only one state holds it up for good.
StopExits == main = "stopping" ~> main \in {"exited", "aborted"} \/ Wedged
=============================================================================
