------------------------------ MODULE LspHandler ------------------------------
(***************************************************************************)
(* One session of LanguageServerHandler                                    *)
(* (multilspy/lsp_protocol_handler/server.py): coroutines of one event     *)
(* loop that send requests to a language server and wait for the answers,  *)
(* a reader that makes a task of each message that arrives, and the        *)
(* shutdown sequence.  A step is what a coroutine does between two awaits  *)
(* at which it may lose control.  The server is the environment: it        *)
(* answers in any order, or with an id nobody waits for, asks requests of  *)
(* its own, and may die.                                                   *)
(***************************************************************************)
EXTENDS Naturals, Sequences

CONSTANTS
    Users,          \* the request ids that the body of the session uses
    Bye,            \* the request id of the shutdown request
    ServerRequests, \* the ids of requests the server makes
    MaxStray        \* bound: responses with an id nobody waits for (any more)

ASSUME IdsAssumption == Bye \notin Users
ASSUME StrayAssumption == MaxStray \in Nat

Ids == Users \cup {Bye}

VARIABLES
    session,    \* "serving", "bye", "exiting", "stopping", "stopped"
    process,    \* self.process: "set", or "None" after stop
    alive,      \* the server process is running
    reader,     \* run_forever has not ended
    call,       \* where each send_request is
    lock,       \* the requests whose condition variable is locked
    handlers,   \* _response_handlers: the ids that are registered
    answer,     \* Request.result or Request.error of each request
    task,       \* the task that handles the response to each request
    reply,      \* the task that handles each request of the server
    inbox,      \* what the server has been sent and not dealt with
    out,        \* the server's stdout
    stray       \* how many stray responses were sent

vars == <<session, process, alive, reader, call, lock, handlers, answer, task, reply,
          inbox, out, stray>>
client == <<session, process, reader, call, lock, handlers, answer, task, reply>>

Init ==
    /\ session = "serving" /\ process = "set"
    /\ alive = TRUE /\ reader = TRUE
    /\ call = [r \in Ids |-> "new"]
    /\ lock = {}
    /\ handlers = {}
    /\ answer = [r \in Ids |-> "none"]
    /\ task = [r \in Ids |-> "none"]
    /\ reply = [q \in ServerRequests |-> "none"]
    /\ inbox = {}
    /\ out = <<>>
    /\ stray = 0
-----------------------------------------------------------------------------
(***************************************************************************)
(* send_request.  The condition variable is locked from before the request *)
(* is sent until wait() releases it.                                       *)
(***************************************************************************)
SendRequest_Unlocked(r) ==
    /\ call' = [call EXCEPT ![r] = "draining"]
    /\ handlers' = handlers \cup {r}
    /\ inbox' = inbox \cup {r}
    /\ UNCHANGED lock

SendRequest(r) ==
    /\ call' = [call EXCEPT ![r] = "draining"]
    /\ handlers' = handlers \cup {r}
    /\ inbox' = inbox \cup {r}
    /\ lock' = lock \cup {r}

Ask(r) ==
    /\ session = "serving"
    /\ call[r] = "new"
    /\ SendRequest(r)
    /\ UNCHANGED <<session, process, alive, reader, answer, task, reply, out, stray>>

(* drain() returns, and cv.wait() gives up the lock ...                    *)
Wait(r) ==
    /\ call[r] = "draining"
    /\ call' = [call EXCEPT ![r] = "waiting"]
    /\ lock' = lock \ {r}
    /\ UNCHANGED <<session, process, alive, reader, handlers, answer, task, reply,
                   inbox, out, stray>>

(* ... or it raises, because the pipe to a dead server is broken           *)
DrainFails(r) ==
    /\ call[r] = "draining"
    /\ ~alive
    /\ call' = [call EXCEPT ![r] = "raised"]
    /\ lock' = lock \ {r}
    /\ UNCHANGED <<session, process, alive, reader, handlers, answer, task, reply,
                   inbox, out, stray>>

(* wait() has been notified and gets the lock back                         *)
Return(r) ==
    /\ call[r] = "notified"
    /\ r \notin lock
    /\ call' = [call EXCEPT ![r] = IF answer[r] = "result" THEN "returned" ELSE "raised"]
    /\ UNCHANGED <<session, process, alive, reader, lock, handlers, answer, task, reply,
                   inbox, out, stray>>
-----------------------------------------------------------------------------
(***************************************************************************)
(* run_forever reads a message and makes a task of it; the task runs up to *)
(* its first wait.                                                         *)
(***************************************************************************)
Message == Head(out)

\* _response_handler, which raises KeyError for an id that is not registered
ResponseHandler_Keeps(m) ==
    IF m.id \in handlers
      THEN /\ answer' = [answer EXCEPT ![m.id] = IF m.kind = "result" THEN "result" ELSE "error"]
           /\ task' = [task EXCEPT ![m.id] = "notifying"]
           /\ UNCHANGED handlers
      ELSE UNCHANGED <<handlers, answer, task>>

\* neither "result" alone nor "error" alone is not looked at
ResponseHandler(m) ==
    IF m.id \in handlers
      THEN /\ handlers' = handlers \ {m.id}
           /\ answer' = [answer EXCEPT ![m.id] = IF m.kind = "result" THEN "result" ELSE "error"]
           /\ task' = [task EXCEPT ![m.id] = "notifying"]
      ELSE UNCHANGED <<handlers, answer, task>>

Read ==
    /\ reader
    /\ out # <<>>
    /\ out' = Tail(out)
    /\ IF Message.kind = "request"
         THEN /\ reply' = [reply EXCEPT ![Message.id] = "handling"]
              /\ UNCHANGED <<handlers, answer, task>>
         ELSE ResponseHandler(Message) /\ UNCHANGED reply
    /\ UNCHANGED <<session, process, alive, reader, call, lock, inbox, stray>>

(* The pipe is at its end, or breaks off inside a message.                 *)
ReaderEnds ==
    /\ reader
    /\ ~alive
    /\ reader' = FALSE
    /\ out' = <<>>
    /\ UNCHANGED <<session, process, alive, call, lock, handlers, answer, task, reply,
                   inbox, stray>>

(* on_result and on_error: notify(), under the lock                        *)
Notify(r) ==
    /\ task[r] = "notifying"
    /\ r \notin lock
    /\ task' = [task EXCEPT ![r] = "done"]
    /\ call' = [call EXCEPT ![r] = IF @ = "waiting" THEN "notified" ELSE @]
    /\ UNCHANGED <<session, process, alive, reader, lock, handlers, answer, reply,
                   inbox, out, stray>>

(* _request_handler: the callback has returned a value or an error, or     *)
(* there is none; the response is written by a task of its own ...         *)
Handled(q) ==
    /\ reply[q] = "handling"
    /\ reply' = [reply EXCEPT ![q] = "replying"]
    /\ UNCHANGED <<session, process, alive, reader, call, lock, handlers, answer, task,
                   inbox, out, stray>>

(* ... unless the process is gone by then                                  *)
Reply(q) ==
    /\ reply[q] = "replying"
    /\ reply' = [reply EXCEPT ![q] = "replied"]
    /\ inbox' = IF process = "set" THEN inbox \cup {q} ELSE inbox
    /\ UNCHANGED <<session, process, alive, reader, call, lock, handlers, answer, task,
                   out, stray>>
-----------------------------------------------------------------------------
(***************************************************************************)
(* The end of the session, when its body has returned.                     *)
(***************************************************************************)
Finished(r) == call[r] \in {"new", "returned", "raised"}

Shutdown ==
    /\ session = "serving"
    /\ \A r \in Users : Finished(r)
    /\ SendRequest(Bye)
    /\ session' = "bye"
    /\ UNCHANGED <<process, alive, reader, answer, task, reply, out, stray>>

(* The answer to shutdown has come: the server is notified of exit, and the*)
(* readers are stopped by an exception.  An error leaves the session as    *)
(* it is.                                                                  *)
Exit ==
    /\ session = "bye"
    /\ call[Bye] = "returned"
    /\ session' = "exiting"
    /\ reader' = FALSE
    /\ UNCHANGED <<process, alive, call, lock, handlers, answer, task, reply, inbox, out, stray>>

(* stop: every task is cancelled, and process.wait() begins.               *)
Stop ==
    /\ session = "exiting"
    /\ session' = "stopping"
    /\ process' = "None"
    /\ task' = [r \in Ids |-> IF task[r] = "notifying" THEN "cancelled" ELSE task[r]]
    /\ reply' = [q \in ServerRequests |->
                   IF reply[q] \in {"handling", "replying"} THEN "cancelled" ELSE reply[q]]
    /\ UNCHANGED <<alive, reader, call, lock, handlers, answer, inbox, out, stray>>

Gone ==
    /\ session = "stopping"
    /\ ~alive
    /\ session' = "stopped"
    /\ UNCHANGED <<process, alive, reader, call, lock, handlers, answer, task, reply,
                   inbox, out, stray>>

(* 60 seconds have passed                                                  *)
Timeout ==
    /\ session = "stopping"
    /\ alive' = FALSE
    /\ session' = "stopped"
    /\ UNCHANGED <<process, reader, call, lock, handlers, answer, task, reply,
                   inbox, out, stray>>
-----------------------------------------------------------------------------
(***************************************************************************)
(* The language server.                                                    *)
(***************************************************************************)
Respond(r, kind) ==
    /\ alive
    /\ r \in inbox \cap Ids
    /\ inbox' = inbox \ {r}
    /\ out' = Append(out, [kind |-> kind, id |-> r])
    /\ UNCHANGED <<client, alive, stray>>

\* an id that was never sent, or one that was answered before
Stray(r) ==
    /\ alive
    /\ r \in Ids \ inbox
    /\ stray < MaxStray
    /\ call[r] \in {"new", "returned", "raised"}
    /\ stray' = stray + 1
    /\ out' = Append(out, [kind |-> "result", id |-> r])
    /\ UNCHANGED <<client, alive, inbox>>

ServerAsks(q) ==
    /\ alive
    /\ reply[q] = "none"
    /\ \A i \in DOMAIN out : out[i].id # q
    /\ out' = Append(out, [kind |-> "request", id |-> q])
    /\ UNCHANGED <<client, alive, inbox, stray>>

ServerGets(q) ==
    /\ alive
    /\ q \in inbox \cap ServerRequests
    /\ inbox' = inbox \ {q}
    /\ UNCHANGED <<client, alive, out, stray>>

Dies ==
    /\ alive
    /\ alive' = FALSE
    /\ UNCHANGED <<client, inbox, out, stray>>
-----------------------------------------------------------------------------
Client ==
    \/ \E r \in Ids : Wait(r) \/ DrainFails(r) \/ Return(r) \/ Notify(r)
    \/ Read \/ ReaderEnds
    \/ \E q \in ServerRequests : Handled(q) \/ Reply(q)
    \/ Exit \/ Stop \/ Gone \/ Timeout

Serve == \E r \in Ids, kind \in {"result", "error", "both"} : Respond(r, kind)

Next ==
    \/ Client
    \/ \E r \in Users : Ask(r)
    \/ Shutdown
    \/ Serve
    \/ \E r \in Ids : Stray(r)
    \/ \E q \in ServerRequests : ServerAsks(q) \/ ServerGets(q)
    \/ Dies

Spec == Init /\ [][Next]_vars

(* The event loop runs every coroutine that is ready, and the server gets  *)
(* round to each request as long as it lives.                              *)
FairSpec ==
    /\ Spec
    /\ WF_vars(Read)
    /\ \A r \in Ids : WF_vars(Wait(r)) /\ WF_vars(Return(r)) /\ WF_vars(Notify(r))
    /\ WF_vars(Exit) /\ WF_vars(Stop) /\ WF_vars(Timeout)
    /\ \A r \in Ids : WF_vars(\E kind \in {"result", "error", "both"} : Respond(r, kind))
-----------------------------------------------------------------------------
(***************************************************************************)
(* Properties.                                                             *)
(***************************************************************************)
Steps == {"new", "draining", "waiting", "notified", "returned", "raised"}
Kinds == {"result", "error", "both", "request"}

TypeOK ==
    /\ session \in {"serving", "bye", "exiting", "stopping", "stopped"}
    /\ process \in {"set", "None"}
    /\ alive \in BOOLEAN /\ reader \in BOOLEAN
    /\ call \in [Ids -> Steps]
    /\ lock \subseteq Ids
    /\ handlers \subseteq Ids
    /\ answer \in [Ids -> {"none", "result", "error"}]
    /\ task \in [Ids -> {"none", "notifying", "done", "cancelled"}]
    /\ reply \in [ServerRequests -> {"none", "handling", "replying", "replied", "cancelled"}]
    /\ inbox \subseteq Ids \cup ServerRequests
    /\ out \in Seq([kind: Kinds, id: Ids \cup ServerRequests])
    /\ stray \in 0 .. MaxStray

(* A wakeup is never lost: a request does not wait after the task that was *)
(* to notify it has run, although the answer may come before the request   *)
(* waits.                                                                  *)
NoLostWakeup == \A r \in Ids : task[r] = "done" => call[r] # "waiting"

(* What a request returns is what the server answered to it, once: its     *)
(* outcome is not changed by a later response with the same id.            *)
AnsweredOnce ==
    [][\A r \in Ids : answer[r] # "none" => answer'[r] = answer[r]]_vars

(* When stop has ended there is no server process left.                    *)
StoppedIsGone == session = "stopped" => ~alive

(* No request sleeps past its answer, and no process stays after stop      *)
(* (send_request, _response_handler, stop).                                *)
WakeupsAreKept == TypeOK /\ NoLostWakeup /\ StoppedIsGone

(* Every request returns or raises, unless the server dies.                *)
EveryCallReturns ==
    \A r \in Ids : call[r] = "draining" ~> (call[r] \in {"returned", "raised"} \/ ~alive)

(* A shutdown that the server agrees to ends, also when the server does    *)
(* not exit.                                                               *)
ShutdownEnds == call[Bye] = "returned" ~> session = "stopped"

(* Neither a request nor a shutdown waits for ever, except for a server    *)
(* that has died.                                                          *)
NobodyWaitsForever == EveryCallReturns /\ ShutdownEnds
=============================================================================
