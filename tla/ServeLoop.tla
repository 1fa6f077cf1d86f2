------------------------------ MODULE ServeLoop ------------------------------
(***************************************************************************)
(* The producer's request pipeline, func serve of cmd/solid-typefacts.      *)
(* Four goroutines share two unbounded queues:                              *)
(*                                                                          *)
(*   stdin -> main loop -> jobs -> worker -> responses -> writer -> stdout  *)
(*                                                                          *)
(* (the fourth only moves bytes from stdin to the main loop and is part of  *)
(* the pipe here).  Cancel frames act on the main loop, ahead of the queue. *)
(* What a request computes belongs to TypeFactsSession; here a request is   *)
(* its identity, its operation and the request it cancels.                  *)
(***************************************************************************)
EXTENDS Naturals, Sequences, SequencesExt

CONSTANTS
    MaxFrames,       \* bound: frames a client writes on one connection
    WritesMayFail    \* whether encoding or writing a response may fail

ASSUME ServeAssumption == MaxFrames \in Nat /\ WritesMayFail \in BOOLEAN

VARIABLES
    stdin,       \* frames written by the client, not yet taken by the main loop
    inputEnd,    \* the client closed its end
    mainLoop,    \* "reading", "draining" (jobs closed) or "returned"
    cancels,     \* requests with an entry in the cancels map
    fired,       \* requests whose context was cancelled by a cancel frame
    jobs,        \* the job queue; closed exactly when mainLoop # "reading"
    worker,      \* [at, request, reply]: what the worker goroutine is doing
    responses,   \* the response queue; closed exactly when the worker is done
    writer,      \* "running", "failed" (error sent to fatal) or "done"
    arena,       \* request whose rows the shared transition arena holds, or 0
    stdout,      \* response frames the client has not read
    accepted,    \* history: the requests queued as jobs, in arrival order
    written      \* history: the responses written, in order

serveVars == <<stdin, inputEnd, mainLoop, cancels, fired, jobs, worker,
               responses, writer, arena, stdout, accepted, written>>

Operations == {"update", "analyze", "symbols", "cancel"}
Requests ==
    [id : 1 .. MaxFrames, op : Operations, target : 0 .. MaxFrames]
BadFrame == [id |-> 0, op |-> "malformed", target |-> 0]
Responses == [id : 1 .. MaxFrames, verdict : {"ok", "error", "cancelled"},
              arena : BOOLEAN]
NoRequest == [id |-> 0, op |-> "none", target |-> 0]
NoReply == [id |-> 0, verdict |-> "none", arena |-> FALSE]
Idle == [at |-> "idle", request |-> NoRequest, reply |-> NoReply]

Ids(s) == [i \in DOMAIN s |-> s[i].id]

\* The operations whose result the producer puts in the transition arena.
UsesArena(request) == request.op \in {"analyze", "symbols"}

ServeInit ==
    /\ stdin = <<>> /\ inputEnd = FALSE
    /\ mainLoop = "reading" /\ cancels = {} /\ fired = {}
    /\ jobs = <<>> /\ worker = Idle /\ responses = <<>> /\ writer = "running"
    /\ arena = 0 /\ stdout = <<>>
    /\ accepted = <<>> /\ written = <<>>

-----------------------------------------------------------------------------
(* The main loop. *)

NextFrame == mainLoop = "reading" /\ stdin # <<>>

\* A request that is not a cancel registers its cancel function, then queues.
AcceptRequest ==
    /\ NextFrame
    /\ Head(stdin).op \in Operations \ {"cancel"}
    /\ stdin' = Tail(stdin)
    /\ cancels' = cancels \union {Head(stdin).id}
    /\ jobs' = Append(jobs, Head(stdin))
    /\ accepted' = Append(accepted, Head(stdin))
    /\ UNCHANGED <<inputEnd, mainLoop, fired, worker, responses, writer, arena,
                   stdout, written>>

\* Mutants: the acknowledgement overtakes the queue; every context is fired.
AcceptCancelFirst ==
  /\ NextFrame
  /\ Head(stdin).op = "cancel"
  /\ stdin' = Tail(stdin)
  /\ fired' = fired \union ({Head(stdin).target} \intersect cancels)
  /\ jobs' = <<Head(stdin)>> \o jobs
  /\ accepted' = Append(accepted, Head(stdin))
  /\ UNCHANGED <<inputEnd, mainLoop, cancels, worker, responses, writer,
                 arena, stdout, written>>
AcceptCancelAll ==
  /\ NextFrame
  /\ Head(stdin).op = "cancel"
  /\ stdin' = Tail(stdin)
  /\ fired' = fired \union cancels
  /\ jobs' = Append(jobs, Head(stdin))
  /\ accepted' = Append(accepted, Head(stdin))
  /\ UNCHANGED <<inputEnd, mainLoop, cancels, worker, responses, writer,
                 arena, stdout, written>>

\* A cancel frame fires the target's context if it is still registered; its
\* acknowledgement takes its place in the queue.
AcceptCancel ==
    /\ NextFrame
    /\ Head(stdin).op = "cancel"
    /\ stdin' = Tail(stdin)
    /\ fired' = fired \union ({Head(stdin).target} \intersect cancels)
    /\ jobs' = Append(jobs, Head(stdin))
    /\ accepted' = Append(accepted, Head(stdin))
    /\ UNCHANGED <<inputEnd, mainLoop, cancels, worker, responses, writer,
                   arena, stdout, written>>

\* Mutant: the select does not wait on fatal.
StopReadingAtEndOnly ==
  /\ mainLoop = "reading"
  /\ \/ stdin = <<>> /\ inputEnd
     \/ stdin # <<>> /\ Head(stdin) = BadFrame
  /\ mainLoop' = "draining"
  /\ UNCHANGED <<stdin, inputEnd, cancels, fired, jobs, worker, responses,
                 writer, arena, stdout, accepted, written>>

\* End of input, an undecodable frame, or the writer's error on fatal: the
\* main loop closes the job queue and waits for the pipeline.
StopReading ==
    /\ mainLoop = "reading"
    /\ \/ stdin = <<>> /\ inputEnd
       \/ stdin # <<>> /\ Head(stdin) = BadFrame
       \/ writer = "failed"
    /\ mainLoop' = "draining"
    /\ UNCHANGED <<stdin, inputEnd, cancels, fired, jobs, worker, responses,
                   writer, arena, stdout, accepted, written>>

ServeReturns ==
    /\ mainLoop = "draining"
    /\ worker.at = "done"
    /\ writer \in {"done", "failed"}
    /\ mainLoop' = "returned"
    /\ UNCHANGED <<stdin, inputEnd, cancels, fired, jobs, worker, responses,
                   writer, arena, stdout, accepted, written>>

-----------------------------------------------------------------------------
(* The worker. *)

\* Mutants: every request clears the arena; a closed queue gives up no job.
WorkerPopsClearing ==
  /\ worker.at = "idle" /\ jobs # <<>>
  /\ worker' = [Idle EXCEPT !.at = "computing", !.request = Head(jobs)]
  /\ jobs' = Tail(jobs)
  /\ arena' = 0
  /\ UNCHANGED <<stdin, inputEnd, mainLoop, cancels, fired, responses,
                 writer, stdout, accepted, written>>
WorkerPopsWhileOpen ==
  /\ worker.at = "idle" /\ jobs # <<>> /\ mainLoop = "reading"
  /\ worker' = [Idle EXCEPT !.at = "computing", !.request = Head(jobs)]
  /\ jobs' = Tail(jobs)
  /\ arena' = IF UsesArena(Head(jobs)) THEN 0 ELSE arena
  /\ UNCHANGED <<stdin, inputEnd, mainLoop, cancels, fired, responses,
                 writer, stdout, accepted, written>>

\* Popping a job; an analyze or symbols request first clears the arena header.
WorkerPops ==
    /\ worker.at = "idle" /\ jobs # <<>>
    /\ worker' = [Idle EXCEPT !.at = "computing", !.request = Head(jobs)]
    /\ jobs' = Tail(jobs)
    /\ arena' = IF UsesArena(Head(jobs)) THEN 0 ELSE arena
    /\ UNCHANGED <<stdin, inputEnd, mainLoop, cancels, fired, responses,
                   writer, stdout, accepted, written>>

\* The answers a request may get: an analyze checks its context last thing
\* before it publishes, a symbols request only while it looks symbols up, an
\* update reports its cancelled context as a failed update.
Verdicts(request) ==
    LET dead == request.id \in fired IN
    {"error"}
        \union (IF dead /\ UsesArena(request) THEN {"cancelled"} ELSE {})
        \union (IF dead /\ request.op = "analyze" THEN {} ELSE {"ok"})

\* The session answers.  A transition may have been committed to the arena,
\* also when a later check fails the request; only an ok response names it.
WorkerComputes ==
    /\ worker.at = "computing"
    /\ \E verdict \in Verdicts(worker.request), committed \in BOOLEAN :
        /\ committed => UsesArena(worker.request)
        /\ arena' = IF committed THEN worker.request.id ELSE arena
        /\ worker' = [worker EXCEPT
            !.at = "computed",
            !.reply = [id |-> worker.request.id, verdict |-> verdict,
                       arena |-> committed /\ verdict = "ok"]]
    /\ UNCHANGED <<stdin, inputEnd, mainLoop, cancels, fired, jobs, responses,
                   writer, stdout, accepted, written>>

\* release: the request leaves the cancels map.  A cancel has no release.
WorkerReleases ==
    /\ worker.at = "computed"
    /\ worker' = [worker EXCEPT !.at = "released"]
    /\ cancels' = cancels \ {worker.request.id}
    /\ UNCHANGED <<stdin, inputEnd, mainLoop, fired, jobs, responses, writer,
                   arena, stdout, accepted, written>>

WorkerResponds ==
    /\ worker.at = "released"
    /\ responses' = Append(responses, worker.reply)
    /\ worker' = Idle
    /\ UNCHANGED <<stdin, inputEnd, mainLoop, cancels, fired, jobs, writer,
                   arena, stdout, accepted, written>>

\* Mutant: pop fails as soon as the queue is closed.
WorkerStopsWithJobs ==
  /\ worker.at = "idle" /\ mainLoop # "reading"
  /\ worker' = [Idle EXCEPT !.at = "done"]
  /\ UNCHANGED <<stdin, inputEnd, mainLoop, cancels, fired, jobs, responses,
                 writer, arena, stdout, accepted, written>>

\* pop fails only on a closed and empty queue.
WorkerStops ==
    /\ worker.at = "idle" /\ jobs = <<>> /\ mainLoop # "reading"
    /\ worker' = [Idle EXCEPT !.at = "done"]
    /\ UNCHANGED <<stdin, inputEnd, mainLoop, cancels, fired, jobs, responses,
                   writer, arena, stdout, accepted, written>>

-----------------------------------------------------------------------------
(* The writer. *)

WriterWrites ==
    /\ writer = "running" /\ responses # <<>>
    /\ stdout' = Append(stdout, Head(responses))
    /\ written' = Append(written, Head(responses))
    /\ responses' = Tail(responses)
    /\ UNCHANGED <<stdin, inputEnd, mainLoop, cancels, fired, jobs, worker,
                   writer, arena, accepted>>

WriterFails ==
    /\ WritesMayFail
    /\ writer = "running" /\ responses # <<>>
    /\ responses' = Tail(responses)
    /\ writer' = "failed"
    /\ UNCHANGED <<stdin, inputEnd, mainLoop, cancels, fired, jobs, worker,
                   arena, stdout, accepted, written>>

WriterStops ==
    /\ writer = "running" /\ responses = <<>> /\ worker.at = "done"
    /\ writer' = "done"
    /\ UNCHANGED <<stdin, inputEnd, mainLoop, cancels, fired, jobs, worker,
                   responses, arena, stdout, accepted, written>>

MainStep == AcceptRequest \/ AcceptCancel \/ StopReading \/ ServeReturns
WorkerStep == WorkerPops \/ WorkerComputes \/ WorkerReleases \/ WorkerResponds
                \/ WorkerStops
WriterStep == WriterWrites \/ WriterFails \/ WriterStops

-----------------------------------------------------------------------------
(* A client that pipelines: it writes requests with fresh identities, cancels *)
(* of any identity, or bytes that do not decode, and closes its end once.     *)

FramesSent == Len(accepted) + Len(stdin)

PipelineFrame ==
    /\ ~inputEnd
    /\ FramesSent < MaxFrames
    /\ \E op \in Operations \union {"malformed"}, target \in 0 .. MaxFrames :
        /\ (op = "cancel") = (target # 0)
        /\ stdin' = Append(stdin,
            IF op = "malformed" THEN BadFrame
            ELSE [id |-> FramesSent + 1, op |-> op, target |-> target])
    /\ UNCHANGED <<inputEnd, mainLoop, cancels, fired, jobs, worker, responses,
                   writer, arena, stdout, accepted, written>>

CloseInput ==
    /\ ~inputEnd
    /\ inputEnd' = TRUE
    /\ UNCHANGED <<stdin, mainLoop, cancels, fired, jobs, worker, responses,
                   writer, arena, stdout, accepted, written>>

ServeNext == MainStep \/ WorkerStep \/ WriterStep \/ PipelineFrame \/ CloseInput

ServeFairness ==
    WF_serveVars(MainStep) /\ WF_serveVars(WorkerStep) /\ WF_serveVars(WriterStep)

ServeSpec == ServeInit /\ [][ServeNext]_serveVars /\ ServeFairness

-----------------------------------------------------------------------------
(* Properties *)

\* Every variable of the pipeline keeps the shape serve gives it.
ServeTypeOK ==
    /\ stdin \in Seq(Requests \union {BadFrame})
    /\ inputEnd \in BOOLEAN
    /\ mainLoop \in {"reading", "draining", "returned"}
    /\ cancels \subseteq 1 .. MaxFrames /\ fired \subseteq 1 .. MaxFrames
    /\ jobs \in Seq(Requests)
    /\ worker \in [at : {"idle", "computing", "computed", "released", "done"},
                   request : Requests \union {NoRequest},
                   reply : Responses \union {NoReply}]
    /\ responses \in Seq(Responses)
    /\ writer \in {"running", "failed", "done"}
    /\ arena \in 0 .. MaxFrames
    /\ stdout \in Seq(Responses)
    /\ accepted \in Seq(Requests) /\ written \in Seq(Responses)

InWorker ==
    IF worker.at \in {"idle", "done"} THEN <<>> ELSE <<worker.request>>

\* "serve reads frames and dispatches them in arrival order through a single
\* worker" and "every request yields exactly one response frame": until a
\* write fails, the answers written, queued and being computed, followed by
\* the jobs still queued, are the accepted requests in arrival order; after a
\* failed write nothing else is written.
ArrivalOrder ==
    /\ IsPrefix(Ids(written), Ids(accepted))
    /\ writer # "failed" =>
        Ids(accepted) =
            Ids(written) \o Ids(responses) \o Ids(InWorker) \o Ids(jobs)

\* A request is answered "cancelled" only if the client sent a cancel naming
\* it, and sent it after the request itself.
OnlyTargetsCancelled ==
    \A i \in DOMAIN written : written[i].verdict = "cancelled" =>
        \E j \in DOMAIN accepted :
            /\ accepted[j].op = "cancel"
            /\ accepted[j].target = written[i].id
            /\ i < j

\* When serve returns without a write error it has answered every request it
\* accepted: closing the input drains the queues instead of dropping them.
DrainAnswersAll ==
    mainLoop = "returned" /\ writer = "done" => Len(written) = Len(accepted)

\* Every accepted request is eventually answered, or the writer has failed.
RequestsAnswered ==
    \A n \in 1 .. MaxFrames :
        Len(accepted) >= n ~> (Len(written) >= n \/ writer = "failed")

\* serve returns once its input ends or its writer fails; no goroutine is
\* left waiting for another.
ServeEnds == inputEnd \/ writer = "failed" ~> mainLoop = "returned"
=============================================================================
