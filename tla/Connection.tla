------------------------------ MODULE Connection ------------------------------
(***************************************************************************)
(* The client's half of the wire, composed with the producer's ServeLoop:   *)
(* Connection, Cancellation and Session::exchange of session.rs.  Three     *)
(* client threads meet here: the caller that sends a request and waits, the *)
(* reader thread that completes pending requests, and any thread holding a  *)
(* Cancellation handle.  The producer process may die at any step.          *)
(*                                                                          *)
(* Replaying the overlays after a restart is ReplayLog's subject; here a    *)
(* restart is a fresh connection on which the same request is sent again.   *)
(***************************************************************************)
EXTENDS ServeLoop

CONSTANTS
    MaxCalls,             \* bound: calls the session makes
    MaxCancels,           \* bound: calls of cancel_active
    MaxCrashes            \* bound: producer deaths

ASSUME ConnectionAssumption ==
    MaxCalls \in Nat /\ MaxCancels \in Nat /\ MaxCrashes \in Nat

VARIABLES
    alive,       \* the producer process exists and its end of the pipes is open
    epoch,       \* number of connections opened so far
    nextId,      \* next_request_id of the connection
    active,      \* active_request_id: the request a cancel would name, or 0
    pending,     \* the pending response map's keys
    readerUp,    \* the reader thread has not left its loop
    caller,      \* [at, request, restarts]: the call in progress
    inbox,       \* what the waiting caller's channel holds
    canceller,   \* [target, epoch]: cancel_active between its load and its write
    calls,       \* calls begun so far
    aimed,       \* history: the calls cancel_active found active
    cancelCalls, crashes,  \* bounded counters
    startup      \* [link, frame, thread, channel]: the connection being opened;
                 \* a link is "choked" once its reader met an undecodable frame

clientVars == <<alive, epoch, nextId, active, pending, readerUp, caller, inbox,
                canceller, calls, aimed, cancelCalls, crashes, startup>>
vars == <<serveVars, clientVars>>

NoMessage == [kind |-> "empty", id |-> 0]
Lost == [kind |-> "lost", id |-> 0]        \* fail_pending's Err
Message(r) == [kind |-> r.verdict, id |-> r.id]
NoCall == [at |-> "idle", request |-> NoRequest, restarts |-> FALSE]
NoCancel == [target |-> 0, epoch |-> 0]

Cancellable(op) == op \in {"analyze", "symbols"}

ConnectionInit ==
    /\ ServeInit
    /\ alive = TRUE /\ epoch = 1
    /\ nextId = 1 /\ active = 0 /\ pending = {} /\ readerUp = TRUE
    /\ caller = NoCall /\ inbox = NoMessage /\ canceller = NoCancel
    /\ calls = 0 /\ aimed = {} /\ cancelCalls = 0 /\ crashes = 0
    /\ startup = [link |-> "open", frame |-> "expected", thread |-> "done",
                  channel |-> "expected"]

-----------------------------------------------------------------------------
(* The caller. *)

\* send, up to the write: the identity, the active request and the pending
\* entry exist before a byte of the frame does.
Register(op, restarts) ==
    /\ nextId <= MaxFrames
    /\ nextId' = nextId + 1
    /\ active' = IF Cancellable(op) THEN nextId ELSE active
    /\ pending' = pending \union {nextId}
    /\ inbox' = NoMessage
    /\ caller' = [at |-> "registered", restarts |-> restarts,
                  request |-> [id |-> nextId, op |-> op, target |-> 0]]

\* A call of the session: updates and analyses go through exchange, which
\* restarts a dead producer once; symbols requests through exchange_once.
BeginCall ==
    /\ caller.at = "idle" /\ startup.link \in {"open", "choked"}
    /\ calls < MaxCalls
    /\ calls' = calls + 1
    /\ \E op \in {"update", "analyze", "symbols"} : Register(op, op # "symbols")
    /\ UNCHANGED <<serveVars, alive, epoch, readerUp, canceller, aimed, cancelCalls,
                   crashes, startup>>

\* After a failed restart there is no connection: Closed, at once.
CallClosed ==
    /\ caller.at = "idle" /\ startup.link = "none"
    /\ calls < MaxCalls
    /\ calls' = calls + 1
    /\ UNCHANGED <<serveVars, alive, epoch, nextId, active, pending, readerUp,
                   caller, inbox, canceller, aimed, cancelCalls, crashes, startup>>

WriteRequest ==
    /\ caller.at = "registered"
    /\ alive
    /\ stdin' = Append(stdin, caller.request)
    /\ caller' = [caller EXCEPT !.at = "waiting"]
    /\ UNCHANGED <<inputEnd, mainLoop, cancels, fired, jobs, worker, responses,
                   writer, arena, stdout, accepted, written, alive, epoch,
                   nextId, active, pending, readerUp, inbox, canceller, calls,
                   aimed, cancelCalls, crashes, startup>>

ClearActive == active' = IF active = caller.request.id THEN 0 ELSE active

\* The error path of a call: with a restart left, go on to restart; otherwise
\* return the error.
Fail ==
    caller' = IF caller.restarts THEN [caller EXCEPT !.at = "restarting"]
              ELSE NoCall

WriteFails ==
    /\ caller.at = "registered"
    /\ ~alive
    /\ pending' = pending \ {caller.request.id}
    /\ ClearActive
    /\ Fail
    /\ UNCHANGED <<serveVars, alive, epoch, nextId, readerUp, inbox, canceller,
                   calls, aimed, cancelCalls, crashes, startup>>

\* wait: any answer but a lost connection ends the call, whether the producer
\* reports success, an error or a cancellation.
Collect ==
    /\ caller.at = "waiting"
    /\ inbox # NoMessage
    /\ ClearActive
    /\ IF inbox = Lost THEN Fail ELSE caller' = NoCall
    /\ inbox' = NoMessage
    /\ UNCHANGED <<serveVars, alive, epoch, nextId, pending, readerUp,
                   canceller, calls, aimed, cancelCalls, crashes, startup>>

-----------------------------------------------------------------------------
(* restart_and_replay: Connection::terminate, Connection::spawn and its startup
   thread, which reads the one frame that precedes the protocol. *)

NoFrame == "none"

\* The child of the lost connection is killed and its reader joined; a new
\* child is running, and a thread waits for its startup frame.
Spawn ==
    /\ caller.at = "restarting"
    /\ epoch' = epoch + 1
    /\ alive' = TRUE /\ readerUp' = FALSE
    /\ nextId' = 1 /\ active' = 0 /\ pending' = {}
    /\ inbox' = NoMessage
    /\ caller' = [caller EXCEPT !.at = "handshaking"]
    /\ startup' = [link |-> "starting", frame |-> NoFrame, thread |-> "reading",
                   channel |-> NoFrame]
    /\ stdin' = <<>> /\ inputEnd' = FALSE
    /\ mainLoop' = "reading" /\ cancels' = {} /\ fired' = {}
    /\ jobs' = <<>> /\ worker' = Idle /\ responses' = <<>>
    /\ writer' = "running" /\ arena' = 0 /\ stdout' = <<>>
    /\ accepted' = <<>> /\ written' = <<>>
    /\ UNCHANGED <<canceller, calls, aimed, cancelCalls, crashes>>

\* Without a connection the call returns its error.
Abandon ==
    /\ caller' = NoCall
    /\ startup' = [startup EXCEPT !.link = "none"]

SpawnFails ==
    /\ caller.at = "restarting"
    /\ alive' = FALSE /\ readerUp' = FALSE /\ pending' = {}
    /\ Abandon
    /\ UNCHANGED <<serveVars, epoch, nextId, active, inbox, canceller, calls,
                   aimed, cancelCalls, crashes>>

\* The child writes its handshake: the expected one, another build's, or
\* bytes that are no handshake.
ChildReports ==
    /\ startup.link = "starting" /\ alive /\ startup.frame = NoFrame
    /\ \E frame \in {"expected", "incompatible", "garbled"} :
         startup' = [startup EXCEPT !.frame = frame]
    /\ UNCHANGED <<serveVars, alive, epoch, nextId, active, pending, readerUp,
                   caller, inbox, canceller, calls, aimed, cancelCalls, crashes>>

\* read_frame returns: the frame, or the end of a dead child's output.
HandshakeRead ==
    /\ startup.thread = "reading"
    /\ startup.frame # NoFrame \/ ~alive
    /\ startup' = [startup EXCEPT !.thread = "sending"]
    /\ UNCHANGED <<serveVars, alive, epoch, nextId, active, pending, readerUp,
                   caller, inbox, canceller, calls, aimed, cancelCalls, crashes>>

\* Mutant: a channel without a slot, so that sending needs a receiver.
HandshakeRendezvous ==
  /\ startup.thread = "sending"
  /\ caller.at = "handshaking"
  /\ startup' = [startup EXCEPT !.thread = "done",
       !.channel = IF startup.frame = NoFrame THEN "garbled" ELSE startup.frame]
  /\ UNCHANGED <<serveVars, alive, epoch, nextId, active, pending, readerUp,
                 caller, inbox, canceller, calls, aimed, cancelCalls, crashes>>

\* The channel has one slot: the send needs no receiver.
HandshakeSend ==
    /\ startup.thread = "sending"
    /\ startup.channel = NoFrame
    /\ startup' = [startup EXCEPT !.thread = "done",
         !.channel = IF startup.frame = NoFrame THEN "garbled" ELSE startup.frame]
    /\ UNCHANGED <<serveVars, alive, epoch, nextId, active, pending, readerUp,
                   caller, inbox, canceller, calls, aimed, cancelCalls, crashes>>

\* The handshake is in time.  The expected one opens the connection and sends
\* the request once more; an incompatible child is killed, while one whose
\* frame is invalid loses its input only.
RecvHandshake ==
    /\ caller.at = "handshaking"
    /\ startup.channel # NoFrame /\ startup.thread = "done"
    /\ IF startup.channel = "expected"
       THEN /\ startup' = [startup EXCEPT !.link = "open"]
            /\ readerUp' = TRUE
            /\ Register(caller.request.op, FALSE)
            /\ UNCHANGED <<alive, inputEnd>>
       ELSE /\ Abandon
            /\ alive' = (alive /\ startup.channel = "garbled")
            /\ inputEnd' = TRUE
            /\ UNCHANGED <<readerUp, nextId, active, pending, inbox>>
    /\ UNCHANGED <<stdin, mainLoop, cancels, fired, jobs, worker, responses,
                   writer, arena, stdout, accepted, written, epoch, canceller,
                   calls, aimed, cancelCalls, crashes>>

\* Five seconds without a handshake: the child is killed, then the thread joined.
HandshakeTimeout ==
    /\ caller.at = "handshaking"
    /\ startup.channel = NoFrame
    /\ alive' = FALSE
    /\ caller' = [caller EXCEPT !.at = "joining"]
    /\ UNCHANGED <<serveVars, epoch, nextId, active, pending, readerUp, inbox,
                   canceller, calls, aimed, cancelCalls, crashes, startup>>

JoinHandshake ==
    /\ caller.at = "joining"
    /\ startup.thread = "done"
    /\ Abandon
    /\ UNCHANGED <<serveVars, alive, epoch, nextId, active, pending, readerUp,
                   inbox, canceller, calls, aimed, cancelCalls, crashes>>

CallerStep ==
    \/ WriteRequest \/ WriteFails \/ Collect
    \/ Spawn \/ SpawnFails \/ RecvHandshake \/ HandshakeTimeout \/ JoinHandshake

HandshakeStep == HandshakeRead \/ HandshakeSend

-----------------------------------------------------------------------------
(* The reader thread. *)

\* Mutant: the loop is left without fail_pending.
ReaderLeavesSilently == readerUp' = FALSE /\ UNCHANGED <<pending, inbox>>

\* fail_pending: every pending request gets the error, and the loop is left.
ReaderLeaves ==
    /\ readerUp' = FALSE
    /\ pending' = {}
    /\ inbox' = IF caller.at \in {"registered", "waiting"}
                    /\ caller.request.id \in pending
                THEN Lost ELSE inbox

Attached(r) == r.arena => arena = r.id

\* Mutant: the response goes to whoever waits, without the pending lookup.
ReadAnyResponse ==
  /\ readerUp /\ stdout # <<>>
  /\ stdout' = Tail(stdout)
  /\ pending' = pending \ {Head(stdout).id}
  /\ inbox' = IF pending # {} THEN Message(Head(stdout)) ELSE inbox
  /\ UNCHANGED <<stdin, inputEnd, mainLoop, cancels, fired, jobs, worker,
                 responses, writer, arena, accepted, written, alive, epoch,
                 nextId, active, readerUp, caller, canceller, calls, aimed,
                 cancelCalls, crashes, startup>>

\* One response frame.  A descriptor that does not match the arena's header
\* ends the loop; an answer nobody waits for (a cancel's) is dropped.
ReadResponse ==
    /\ readerUp /\ stdout # <<>>
    /\ stdout' = Tail(stdout)
    /\ IF Attached(Head(stdout))
       THEN /\ readerUp' = readerUp
            /\ pending' = pending \ {Head(stdout).id}
            /\ inbox' = IF Head(stdout).id \in pending
                        THEN Message(Head(stdout)) ELSE inbox
       ELSE ReaderLeaves
    /\ UNCHANGED <<stdin, inputEnd, mainLoop, cancels, fired, jobs, worker,
                   responses, writer, arena, accepted, written, alive, epoch,
                   nextId, active, caller, canceller, calls, aimed, cancelCalls,
                   crashes, startup>>

\* A frame that cannot be decoded ends the loop while the producer lives on.
ReadMalformed ==
    /\ readerUp /\ stdout # <<>>
    /\ stdout' = Tail(stdout)
    /\ ReaderLeaves
    /\ startup' = [startup EXCEPT !.link = "choked"]
    /\ UNCHANGED <<stdin, inputEnd, mainLoop, cancels, fired, jobs, worker,
                   responses, writer, arena, accepted, written, alive, epoch,
                   nextId, active, caller, canceller, calls, aimed, cancelCalls,
                   crashes>>

ReadEnd ==
    /\ readerUp /\ stdout = <<>> /\ ~alive
    /\ ReaderLeaves
    /\ UNCHANGED <<serveVars, alive, epoch, nextId, active, caller, canceller,
                   calls, aimed, cancelCalls, crashes, startup>>

ReaderStep == ReadResponse \/ ReadMalformed \/ ReadEnd

-----------------------------------------------------------------------------
(* Cancellation::cancel_active, on any thread. *)

\* Loads the active request; with none, it returns false and changes nothing.
LoadActive ==
    /\ canceller = NoCancel
    /\ cancelCalls < MaxCancels
    /\ active # 0
    /\ canceller' = [target |-> active, epoch |-> epoch]
    /\ aimed' = aimed \union {calls}
    /\ cancelCalls' = cancelCalls + 1
    /\ UNCHANGED <<serveVars, alive, epoch, nextId, active, pending, readerUp,
                   caller, inbox, calls, crashes, startup>>

\* Mutant: the handle follows the session to its next connection.
WriteCancelAnyConnection ==
  /\ canceller # NoCancel
  /\ alive /\ nextId <= MaxFrames
  /\ stdin' = Append(stdin,
          [id |-> nextId, op |-> "cancel", target |-> canceller.target])
  /\ nextId' = nextId + 1
  /\ canceller' = NoCancel
  /\ UNCHANGED <<inputEnd, mainLoop, cancels, fired, jobs, worker, responses,
                 writer, arena, stdout, accepted, written, alive, epoch,
                 active, pending, readerUp, caller, inbox, calls, aimed,
                 cancelCalls, crashes, startup>>

WriteCancel ==
    /\ canceller # NoCancel
    /\ alive /\ canceller.epoch = epoch /\ nextId <= MaxFrames
    /\ stdin' = Append(stdin,
            [id |-> nextId, op |-> "cancel", target |-> canceller.target])
    /\ nextId' = nextId + 1
    /\ canceller' = NoCancel
    /\ UNCHANGED <<inputEnd, mainLoop, cancels, fired, jobs, worker, responses,
                   writer, arena, stdout, accepted, written, alive, epoch,
                   active, pending, readerUp, caller, inbox, calls, aimed, cancelCalls,
                   crashes, startup>>

\* The connection the handle was taken from is gone: its writer cannot be
\* upgraded, or the write fails.
CancelFails ==
    /\ canceller # NoCancel
    /\ ~alive \/ canceller.epoch # epoch
    /\ canceller' = NoCancel
    /\ UNCHANGED <<serveVars, alive, epoch, nextId, active, pending, readerUp,
                   caller, inbox, calls, aimed, cancelCalls, crashes, startup>>

CancelStep == WriteCancel \/ CancelFails

-----------------------------------------------------------------------------
(* The producer process. *)

\* The producer serves once it has written its handshake.
ProducerStep(step) == alive /\ startup.frame # NoFrame /\ step /\ UNCHANGED clientVars

\* serve returned: the process exits.
ProducerExits ==
    /\ alive /\ mainLoop = "returned"
    /\ alive' = FALSE
    /\ UNCHANGED <<serveVars, epoch, nextId, active, pending, readerUp, caller,
                   inbox, canceller, calls, aimed, cancelCalls, crashes, startup>>

\* The process dies; frames already in the output pipe can still be read.
Crash ==
    /\ alive /\ crashes < MaxCrashes
    /\ alive' = FALSE
    /\ crashes' = crashes + 1
    /\ UNCHANGED <<serveVars, epoch, nextId, active, pending, readerUp, caller,
                   inbox, canceller, calls, aimed, cancelCalls, startup>>

MainLoop == ProducerStep(MainStep)
Worker == ProducerStep(WorkerStep)
Writer == ProducerStep(WriterStep)

Next ==
    \/ BeginCall \/ CallClosed \/ CallerStep \/ ChildReports \/ HandshakeStep \/ ReaderStep \/ LoadActive \/ CancelStep
    \/ MainLoop \/ Worker \/ Writer \/ ProducerExits \/ Crash

Fairness ==
    /\ WF_vars(CallerStep) /\ WF_vars(HandshakeStep) /\ WF_vars(ReaderStep)
    /\ WF_vars(MainLoop) /\ WF_vars(Worker) /\ WF_vars(Writer)
    /\ WF_vars(ProducerExits)

Spec == ConnectionInit /\ [][Next]_vars /\ Fairness

-----------------------------------------------------------------------------
(* Properties *)

\* Every variable of the connection keeps the shape session.rs gives it.
TypeOK ==
    /\ ServeTypeOK
    /\ alive \in BOOLEAN /\ readerUp \in BOOLEAN
    /\ epoch \in 1 .. MaxCalls + 1
    /\ nextId \in 1 .. MaxFrames + 1
    /\ active \in 0 .. MaxFrames /\ pending \subseteq 1 .. MaxFrames
    /\ caller.at \in {"idle", "registered", "waiting", "restarting",
                   "handshaking", "joining"}
    /\ inbox.kind \in {"empty", "lost", "ok", "error", "cancelled"}
    /\ aimed \subseteq 1 .. MaxCalls
    /\ calls <= MaxCalls /\ cancelCalls <= MaxCancels /\ crashes <= MaxCrashes

\* A call is answered by the response to its own request, however many
\* cancellation acknowledgements share the pipe with it.
AnswersOwnRequest ==
    inbox.kind \in {"ok", "error", "cancelled"} =>
        /\ caller.at = "waiting"
        /\ inbox.id = caller.request.id

\* The shared transition arena still holds the rows of every response that
\* names it when the reader thread gets to read them: no later request
\* clears or overwrites it first.
ArenaIntact == readerUp => \A i \in DOMAIN stdout : Attached(stdout[i])

\* Unless the reader thread left on a frame it could not decode, a waiting
\* caller has somebody to wake it: its answer is in its channel, or it is
\* pending and the reader thread is in its loop.
WaiterHasReader ==
    caller.at = "waiting" /\ inbox = NoMessage /\ startup.link # "choked" =>
        readerUp /\ caller.request.id \in pending

\* A call comes back cancelled only if cancel_active was called while that
\* very call was active: a frame written late, or by a handle taken before a
\* restart, cannot cancel a later call, although request identities start
\* again at 1 on every connection.
CancelledOnlyIfAimed == inbox.kind = "cancelled" => calls \in aimed

\* Every call of the session returns, through producer deaths and restarts, as
\* long as the replies decode: a malformed reply on a live connection leaves the
\* next call without a reader, and that is the only way a call can hang.
CallsReturn == caller.at # "idle" ~> (caller.at = "idle" \/ startup.link = "choked")
=============================================================================
