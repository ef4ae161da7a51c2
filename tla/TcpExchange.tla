---------------------------- MODULE TcpExchange ----------------------------
(***************************************************************************)
(* The TCP transport end to end: a client session that writes one length-  *)
(* prefixed frame and reads one back, and the server's handler that owes   *)
(* exactly one response frame for every request frame.  Frames carry no    *)
(* request number, so an answer belongs to its request only by counting.   *)
(*                                                                         *)
(* The client is either the Linux session, whose exchange is dropped where *)
(* it stands when its caller gives up, or the Windows session, whose       *)
(* worker thread finishes the exchange it began.  A stream holds the parts *)
(* of frames, prefix and payload, because that is where an exchange can be *)
(* cut.                                                                    *)
(*                                                                         *)
(* Sources: cat-transport-tcp/src/session.rs, windows.rs, codec.rs;        *)
(* cat-server/src/tcp.rs, tcp_windows.rs.                                  *)
(***************************************************************************)
EXTENDS Naturals, Sequences

CONSTANTS
    Backends,      \* client builds looked at, a subset of {"linux", "windows"}
    MaxRequests,   \* calls of execute
    MaxCancels     \* calls their caller gives up on

VARIABLES
    backend,
    req,        \* calls made
    awaiting,   \* whether the caller awaits the current call
    cancels,    \* calls given up on
    jobs,       \* exchanges to do, the running one first: the calls they are for
    at,         \* where the running exchange is: "recv", "prefix", "payload" (writing), "read", "body"
    got,        \* the last answer delivered: the call and what it got
    up, down,   \* the two directions of the connection
    open,       \* the ends that are open, a subset of {"client", "server"}
    srv,        \* where the handler is
    serving,    \* the request it serves
    active      \* whether the client is registered

vars == <<backend, req, awaiting, cancels, jobs, at, got, up, down, open, srv,
          serving, active>>

Len4(r)  == [part |-> "len", of |-> r]
Body(r)  == [part |-> "body", of |-> r]

\* What a response carries: the answer to a request, the answer to a payload
\* that is no request, or the ERR frame before the server closes; and what a
\* call gets that fails.
Garbage == 97
Err     == 98
Failed  == 99

TypeOK ==
    /\ backend \in Backends /\ req \in 0..MaxRequests /\ awaiting \in BOOLEAN
    /\ cancels \in 0..MaxCancels /\ jobs \in Seq(1..MaxRequests)
    /\ at \in {"recv", "prefix", "payload", "read", "body"}
    /\ got \in [call : 0..MaxRequests, what : 0..MaxRequests \cup {Garbage, Err, Failed}]
    /\ \A s \in {up, down} :
          s \in Seq([part : {"len", "body"}, of : 1..MaxRequests \cup {Garbage, Err}])
    /\ open \subseteq {"client", "server"}
    /\ srv \in {"start", "prefix", "body", "submit", "write", "error", "done"}
    /\ serving \in 0..MaxRequests \cup {Garbage} /\ active \in BOOLEAN

Init ==
    /\ backend \in Backends
    /\ req = 0 /\ awaiting = FALSE /\ cancels = 0
    /\ jobs = <<>> /\ at = "recv"
    /\ got = [call |-> 0, what |-> 0]
    /\ up = <<>> /\ down = <<>> /\ open = {"client", "server"}
    /\ srv = "start" /\ serving = 0 /\ active = FALSE

ServerSide == <<srv, serving, active>>
ClientSide == <<req, awaiting, cancels, jobs, at, got>>

-----------------------------------------------------------------------------
(* The session. *)

\* `execute`: on Linux the exchange starts here, on Windows the worker gets a
\* request.
Execute ==
    /\ ~awaiting /\ req < MaxRequests /\ "client" \in open
    /\ req' = req + 1 /\ awaiting' = TRUE
    /\ jobs' = Append(jobs, req + 1)
    /\ UNCHANGED <<backend, cancels, at, got, up, down, open>> /\ UNCHANGED ServerSide

\* `worker_loop` takes the next request; a Linux exchange simply begins.
StartExchange ==
    /\ at = "recv" /\ jobs # <<>>
    /\ at' = "prefix"
    /\ UNCHANGED <<backend, req, awaiting, cancels, jobs, got, up, down, open>>
    /\ UNCHANGED ServerSide

\* The exchange of the head of `jobs` ends; its caller gets the result if it
\* still awaits it.
Deliver(what) ==
    /\ at' = "recv" /\ jobs' = Tail(jobs)
    /\ IF awaiting /\ Head(jobs) = req
       THEN awaiting' = FALSE /\ got' = [call |-> req, what |-> what]
       ELSE UNCHANGED <<awaiting, got>>

\* `write_frame`: `encode_frame` makes one buffer of prefix and payload,
\* `write_all` may be cut anywhere in it.
WritePart ==
    /\ at \in {"prefix", "payload"}
    /\ IF "server" \in open
       THEN /\ up' = Append(up, IF at = "prefix" THEN Len4(Head(jobs)) ELSE Body(Head(jobs)))
            /\ at' = IF at = "prefix" THEN "payload" ELSE "read"
            /\ UNCHANGED <<awaiting, jobs, got>>
       ELSE Deliver(Failed) /\ UNCHANGED up
    /\ UNCHANGED <<backend, req, cancels, down, open>> /\ UNCHANGED ServerSide

\* The prefix of the response.  Payload bytes in its place give a length
\* above MAX_FRAME_SIZE (text never starts with a zero byte): FrameTooLarge.
ReadPrefix ==
    /\ at = "read"
    /\ \/ /\ down # <<>>
          /\ down' = Tail(down)
          /\ IF Head(down).part = "len"
             THEN at' = "body" /\ UNCHANGED <<awaiting, jobs, got>>
             ELSE Deliver(Failed)
       \/ down = <<>> /\ "server" \notin open /\ Deliver(Failed) /\ UNCHANGED down
    /\ UNCHANGED <<backend, req, cancels, up, open>> /\ UNCHANGED ServerSide

\* The payload: whatever bytes come next are taken for it.
ReadBody ==
    /\ at = "body"
    /\ \/ /\ down # <<>>
          /\ down' = Tail(down)
          /\ Deliver(IF Head(down).part = "body" THEN Head(down).of ELSE Garbage)
       \/ down = <<>> /\ "server" \notin open /\ Deliver(Failed) /\ UNCHANGED down
    /\ UNCHANGED <<backend, req, cancels, up, open>> /\ UNCHANGED ServerSide

\* A mutant of Unfinished: the Windows worker drops an exchange whose caller is gone.
UnfinishedDropped == <<>>

\* What remains to be done when the caller gives up: nothing on Linux, the
\* worker's exchange on Windows.
Unfinished == IF backend = "linux" THEN <<>> ELSE jobs

GiveUp ==
    /\ awaiting /\ cancels < MaxCancels
    /\ awaiting' = FALSE /\ cancels' = cancels + 1
    /\ jobs' = Unfinished
    /\ at' = IF Unfinished = <<>> THEN "recv" ELSE at
    /\ UNCHANGED <<backend, req, got, up, down, open>> /\ UNCHANGED ServerSide

\* The session is dropped: on Windows the worker finishes and is joined first.
HangUp ==
    /\ ~awaiting /\ jobs = <<>> /\ "client" \in open
    /\ open' = open \ {"client"}
    /\ UNCHANGED <<backend, up, down>> /\ UNCHANGED ClientSide /\ UNCHANGED ServerSide

-----------------------------------------------------------------------------
(* The server's handler of this connection. *)

Register ==
    /\ srv = "start"
    /\ srv' = "prefix" /\ active' = TRUE
    /\ UNCHANGED <<backend, up, down, open, serving>> /\ UNCHANGED ClientSide

\* `read_frame_or_eof`: a clean end between frames is no error, a length out
\* of bounds is one.
ReadRequestPrefix ==
    /\ srv = "prefix"
    /\ \/ /\ up # <<>>
          /\ up' = Tail(up)
          /\ srv' = IF Head(up).part = "len" THEN "body" ELSE "error"
       \/ up = <<>> /\ "client" \notin open /\ srv' = "done" /\ UNCHANGED up
    /\ UNCHANGED <<backend, down, open, serving, active>> /\ UNCHANGED ClientSide

ReadRequestBody ==
    /\ srv = "body"
    /\ \/ /\ up # <<>>
          /\ up' = Tail(up)
          /\ serving' = IF Head(up).part = "body" THEN Head(up).of ELSE Garbage
          /\ srv' = "submit"
       \/ up = <<>> /\ "client" \notin open /\ srv' = "error" /\ UNCHANGED <<up, serving>>
    /\ UNCHANGED <<backend, down, open, active>> /\ UNCHANGED ClientSide

\* The broker answers, or is gone.
Submit ==
    /\ srv = "submit"
    /\ srv' \in {"write", "done"}
    /\ UNCHANGED <<backend, up, down, open, serving, active>> /\ UNCHANGED ClientSide

WriteResponse ==
    /\ srv = "write"
    /\ IF "client" \in open
       THEN down' = down \o <<Len4(serving), Body(serving)>> /\ srv' = "prefix"
       ELSE srv' = "done" /\ UNCHANGED down
    /\ UNCHANGED <<backend, up, open, serving, active>> /\ UNCHANGED ClientSide

\* The best-effort ERR frame before the connection is closed.
WriteErr ==
    /\ srv = "error"
    /\ srv' = "done"
    /\ down' = IF "client" \in open THEN down \o <<Len4(Err), Body(Err)>> ELSE down
    /\ UNCHANGED <<backend, up, open, serving, active>> /\ UNCHANGED ClientSide

Unregister ==
    /\ srv = "done" /\ active
    /\ active' = FALSE /\ open' = open \ {"server"}
    /\ UNCHANGED <<backend, up, down, srv, serving>> /\ UNCHANGED ClientSide

Next ==
    \/ Execute \/ StartExchange \/ WritePart \/ ReadPrefix \/ ReadBody \/ GiveUp \/ HangUp
    \/ Register \/ ReadRequestPrefix \/ ReadRequestBody \/ Submit \/ WriteResponse
    \/ WriteErr \/ Unregister

\* The executor and the threads go on whenever they can.
Fairness ==
    /\ WF_vars(StartExchange) /\ WF_vars(WritePart) /\ WF_vars(ReadPrefix) /\ WF_vars(ReadBody)
    /\ WF_vars(Register) /\ WF_vars(ReadRequestPrefix) /\ WF_vars(ReadRequestBody)
    /\ WF_vars(Submit) /\ WF_vars(WriteResponse) /\ WF_vars(WriteErr) /\ WF_vars(Unregister)

Spec == Init /\ [][Next]_vars /\ Fairness

-----------------------------------------------------------------------------
(* Properties. *)

\* An answer is the answer to the call it is delivered to.  On Linux this is
\* so until a call is given up; the Windows session keeps it for ever
\* (session.rs and windows.rs, execute).
TcpAnswersItsOwn ==
    got.what \in {got.call, Err, Failed} \/ (backend = "linux" /\ cancels > 0)

\* The handler's side of the bargain: a call that is not given up ends, with
\* an answer or an error, even against what a call cut in the middle of its
\* frame has left in the stream (tcp.rs, "every request frame gets exactly
\* one response frame back").
ExecuteEnds == awaiting ~> ~awaiting

\* A client that hangs up is unregistered, whatever the handler was doing
\* for it (tcp.rs, handle_connection).
HangUpUnregisters == "client" \notin open ~> ~active
=============================================================================
