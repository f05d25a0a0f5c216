--------------------------- MODULE LspHandlerProofs ---------------------------
(***************************************************************************)
(* Theorems about LspHandler, for any number of requests in either         *)
(* direction, answers in any order, stray responses and a server that may  *)
(* die in any step.                                                        *)
(***************************************************************************)
EXTENDS LspHandler, TLAPS

(***************************************************************************)
(* The wakeup is kept because the lock is held exactly while a request is  *)
(* being sent, so that its answer cannot be announced then; the answer is  *)
(* kept because a request is registered only until its first answer.       *)
(***************************************************************************)
LockCoversSending == lock = {r \in Ids : call[r] = "draining"}
RegisteredIsOpen == \A r \in handlers : answer[r] = "none" /\ task[r] = "none"
NewIsUntouched ==
    \A r \in Ids : call[r] = "new" => r \notin handlers /\ answer[r] = "none" /\ task[r] = "none"
DoneIsAwake == \A r \in Ids : task[r] = "done" => call[r] \notin {"draining", "waiting"}
ByeIsLast == session = "serving" => call[Bye] = "new"

IInv ==
    /\ LockCoversSending
    /\ RegisteredIsOpen
    /\ NewIsUntouched
    /\ DoneIsAwake
    /\ ByeIsLast
    /\ StoppedIsGone

(* What the server writes is typed, whatever it is.                        *)
LEMMA OutStep ==
    ASSUME TypeOK, NEW kind \in Kinds, NEW id \in Ids \cup ServerRequests,
           out' = Append(out, [kind |-> kind, id |-> id])
    PROVE  out' \in Seq([kind: Kinds, id: Ids \cup ServerRequests])
  BY DEF TypeOK

(* Type correctness, one step per action.                                  *)
LEMMA TypeStep == TypeOK /\ [Next]_vars => TypeOK'
<1> SUFFICES ASSUME TypeOK, [Next]_vars PROVE TypeOK'
  OBVIOUS
<1>a. Bye \in Ids /\ Users \subseteq Ids
  BY DEF Ids
<1>1. ASSUME NEW r \in Ids, Wait(r) \/ DrainFails(r) \/ Return(r) \/ Notify(r) PROVE TypeOK'
  <2>1. CASE Wait(r)
    BY <2>1 DEF TypeOK, Wait, Steps
  <2>2. CASE DrainFails(r)
    BY <2>2 DEF TypeOK, DrainFails, Steps
  <2>3. CASE Return(r)
    BY <2>3 DEF TypeOK, Return, Steps
  <2>4. CASE Notify(r)
    <3>1. call' \in [Ids -> Steps] /\ task' \in [Ids -> {"none", "notifying", "done", "cancelled"}]
      BY <2>4 DEF TypeOK, Notify, Steps
    <3> QED
      BY <2>4, <3>1 DEF TypeOK, Notify
  <2> QED
    BY <1>1, <2>1, <2>2, <2>3, <2>4
<1>2. CASE Read
  <2>1. out' \in Seq([kind: Kinds, id: Ids \cup ServerRequests])
    BY <1>2 DEF TypeOK, Read
  <2>2. CASE Message.kind = "request"
    <3>1. reply' \in [ServerRequests -> {"none", "handling", "replying", "replied", "cancelled"}]
      BY <1>2, <2>2 DEF TypeOK, Read
    <3> QED
      BY <1>2, <2>1, <2>2, <3>1 DEF TypeOK, Read
  <2>3. CASE Message.kind # "request"
    <3>1. /\ handlers' \subseteq Ids
          /\ answer' \in [Ids -> {"none", "result", "error"}]
          /\ task' \in [Ids -> {"none", "notifying", "done", "cancelled"}]
      BY <1>2, <2>3 DEF TypeOK, Read, ResponseHandler
    <3> QED
      BY <1>2, <2>1, <2>3, <3>1 DEF TypeOK, Read
  <2> QED
    BY <2>2, <2>3
<1>3. CASE ReaderEnds
  <2>1. \A S : <<>> \in Seq(S)
    OBVIOUS
  <2> QED
    BY <1>3, <2>1 DEF TypeOK, ReaderEnds
<1>4. ASSUME NEW q \in ServerRequests, Handled(q) \/ Reply(q) PROVE TypeOK'
  BY <1>4 DEF TypeOK, Handled, Reply
<1>5. CASE Exit \/ Gone \/ Timeout
  BY <1>5 DEF TypeOK, Exit, Gone, Timeout
<1>6. CASE Stop
  BY <1>6 DEF TypeOK, Stop
<1>7. ASSUME NEW r \in Users, Ask(r) PROVE TypeOK'
  BY <1>7, <1>a DEF TypeOK, Ask, SendRequest, Steps
<1>8. CASE Shutdown
  BY <1>8, <1>a DEF TypeOK, Shutdown, SendRequest, Steps
<1>9. ASSUME NEW r \in Ids, NEW kind \in {"result", "error", "both"}, Respond(r, kind) PROVE TypeOK'
  BY <1>9, OutStep DEF TypeOK, Respond, client, Kinds
<1>10. ASSUME NEW r \in Ids, Stray(r) PROVE TypeOK'
  <2>1. stray' \in 0 .. MaxStray
    BY <1>10, StrayAssumption DEF TypeOK, Stray
  <2> QED
    BY <1>10, <2>1, OutStep DEF TypeOK, Stray, client, Kinds
<1>11. ASSUME NEW q \in ServerRequests, ServerAsks(q) \/ ServerGets(q) PROVE TypeOK'
  BY <1>11, OutStep DEF TypeOK, ServerAsks, ServerGets, client, Kinds
<1>12. CASE Dies
  BY <1>12 DEF TypeOK, Dies, client
<1>13. CASE UNCHANGED vars
  BY <1>13 DEF TypeOK, vars
<1> QED
  BY <1>1, <1>2, <1>3, <1>4, <1>5, <1>6, <1>7, <1>8, <1>9, <1>10, <1>11, <1>12, <1>13
  DEF Next, Client, Serve

LEMMA Typing == Spec => []TypeOK
<1>1. Init => TypeOK
  BY StrayAssumption DEF Init, TypeOK, Steps
<1> QED
  BY <1>1, TypeStep, PTL DEF Spec
-----------------------------------------------------------------------------
(* Sending a request that is new keeps the invariant.                      *)
LEMMA SendStep ==
    ASSUME TypeOK, IInv, NEW r \in Ids, call[r] = "new", SendRequest(r), UNCHANGED <<answer, task>>
    PROVE  LockCoversSending' /\ RegisteredIsOpen' /\ NewIsUntouched' /\ DoneIsAwake'
<1>1. call' = [call EXCEPT ![r] = "draining"] /\ lock' = lock \cup {r} /\ handlers' = handlers \cup {r}
  BY DEF SendRequest
<1>2. LockCoversSending'
  BY <1>1 DEF TypeOK, IInv, LockCoversSending
<1>3. RegisteredIsOpen' /\ NewIsUntouched'
  BY <1>1 DEF TypeOK, IInv, RegisteredIsOpen, NewIsUntouched
<1>4. DoneIsAwake'
  BY <1>1 DEF TypeOK, IInv, DoneIsAwake, NewIsUntouched
<1> QED
  BY <1>2, <1>3, <1>4

(* A coroutine that goes on from one step of send_request to the next.     *)
LEMMA CallStep ==
    ASSUME TypeOK, IInv, NEW r \in Ids, NEW to \in Steps \ {"new", "draining"},
           call[r] # "new", to = "waiting" => call[r] = "draining",
           call' = [call EXCEPT ![r] = to], lock' = lock \ {r},
           UNCHANGED <<session, alive, handlers, answer, task>>
    PROVE  IInv'
<1>1. LockCoversSending'
  BY DEF TypeOK, IInv, LockCoversSending
<1>2. RegisteredIsOpen' /\ NewIsUntouched'
  BY DEF TypeOK, IInv, RegisteredIsOpen, NewIsUntouched
<1>3. DoneIsAwake'
  BY DEF TypeOK, IInv, DoneIsAwake
<1>4. ByeIsLast' /\ StoppedIsGone'
  BY DEF TypeOK, IInv, ByeIsLast, StoppedIsGone
<1> QED
  BY <1>1, <1>2, <1>3, <1>4 DEF IInv

(* The invariant is kept, one step per action.                             *)
LEMMA IInvStep == TypeOK /\ IInv /\ [Next]_vars => IInv'
<1> SUFFICES ASSUME TypeOK, IInv, [Next]_vars PROVE IInv'
  OBVIOUS
<1> USE DEF Ids
<1>1. ASSUME NEW r \in Ids, Wait(r) PROVE IInv'
  BY <1>1, CallStep DEF Wait, Steps
<1>2. ASSUME NEW r \in Ids, DrainFails(r) PROVE IInv'
  BY <1>2, CallStep DEF DrainFails, Steps
<1>3. ASSUME NEW r \in Ids, Return(r) PROVE IInv'
  <2>1. lock' = lock \ {r}
    BY <1>3 DEF Return
  <2> QED
    BY <1>3, <2>1, CallStep DEF Return, Steps
<1>4. ASSUME NEW r \in Ids, Notify(r) PROVE IInv'
  <2>0. /\ task[r] = "notifying" /\ r \notin lock
        /\ task' = [task EXCEPT ![r] = "done"]
        /\ call' = [call EXCEPT ![r] = IF call[r] = "waiting" THEN "notified" ELSE call[r]]
        /\ UNCHANGED <<session, alive, lock, handlers, answer>>
    BY <1>4 DEF Notify
  <2>1. LockCoversSending'
    BY <2>0 DEF TypeOK, IInv, LockCoversSending
  <2>2. RegisteredIsOpen' /\ NewIsUntouched'
    BY <2>0 DEF TypeOK, IInv, RegisteredIsOpen, NewIsUntouched
  <2>3. DoneIsAwake'
    BY <2>0 DEF TypeOK, IInv, DoneIsAwake, LockCoversSending
  <2>4. ByeIsLast' /\ StoppedIsGone'
    BY <2>0 DEF TypeOK, IInv, ByeIsLast, StoppedIsGone
  <2> QED
    BY <2>1, <2>2, <2>3, <2>4 DEF IInv
<1>5. CASE Read
  <2>0. UNCHANGED <<session, alive, call, lock>>
    BY <1>5 DEF Read
  <2>1. CASE UNCHANGED <<handlers, answer, task>>
    BY <2>0, <2>1 DEF IInv, LockCoversSending, RegisteredIsOpen, NewIsUntouched, DoneIsAwake,
                      ByeIsLast, StoppedIsGone
  <2>2. CASE ~UNCHANGED <<handlers, answer, task>>
    <3>1. ResponseHandler(Message) /\ Message.id \in handlers
      BY <1>5, <2>2 DEF Read, ResponseHandler
    <3>2. PICK r \in handlers : /\ handlers' = handlers \ {r}
                                /\ task' = [task EXCEPT ![r] = "notifying"]
                                /\ \E a \in {"result", "error"} : answer' = [answer EXCEPT ![r] = a]
      BY <3>1 DEF ResponseHandler
    <3>3. LockCoversSending' /\ ByeIsLast' /\ StoppedIsGone'
      BY <2>0 DEF IInv, LockCoversSending, ByeIsLast, StoppedIsGone
    <3>4. RegisteredIsOpen' /\ NewIsUntouched'
      BY <2>0, <3>2 DEF TypeOK, IInv, RegisteredIsOpen, NewIsUntouched
    <3>5. DoneIsAwake'
      BY <2>0, <3>2 DEF TypeOK, IInv, DoneIsAwake
    <3> QED
      BY <3>3, <3>4, <3>5 DEF IInv
  <2> QED
    BY <2>1, <2>2
<1>6. CASE Exit \/ Gone \/ Timeout
  BY <1>6 DEF Exit, Gone, Timeout, IInv, LockCoversSending, RegisteredIsOpen, NewIsUntouched,
              DoneIsAwake, ByeIsLast, StoppedIsGone
<1>7. CASE Stop
  <2>0. /\ session' = "stopping" /\ UNCHANGED <<alive, call, lock, handlers, answer>>
        /\ task' = [r \in Ids |-> IF task[r] = "notifying" THEN "cancelled" ELSE task[r]]
    BY <1>7 DEF Stop
  <2>1. LockCoversSending' /\ ByeIsLast' /\ StoppedIsGone'
    BY <2>0 DEF IInv, LockCoversSending, ByeIsLast, StoppedIsGone
  <2>2. RegisteredIsOpen' /\ NewIsUntouched' /\ DoneIsAwake'
    BY <2>0 DEF TypeOK, IInv, RegisteredIsOpen, NewIsUntouched, DoneIsAwake
  <2> QED
    BY <2>1, <2>2 DEF IInv
<1>8. ASSUME NEW r \in Users, Ask(r) PROVE IInv'
  <2>1. ByeIsLast' /\ StoppedIsGone'
    BY <1>8, IdsAssumption DEF Ask, SendRequest, TypeOK, IInv, ByeIsLast, StoppedIsGone
  <2> QED
    BY <1>8, <2>1, SendStep DEF Ask, IInv
<1>9. CASE Shutdown
  <2>1. call[Bye] = "new" /\ SendRequest(Bye) /\ UNCHANGED <<answer, task>>
    BY <1>9 DEF Shutdown, IInv, ByeIsLast
  <2>2. ByeIsLast' /\ StoppedIsGone'
    BY <1>9 DEF Shutdown, ByeIsLast, StoppedIsGone
  <2> QED
    BY <2>1, <2>2, SendStep DEF IInv
<1>10. ASSUME UNCHANGED <<session, call, lock, handlers, answer, task>>, alive' => alive
       PROVE  IInv'
  BY <1>10 DEF IInv, LockCoversSending, RegisteredIsOpen, NewIsUntouched, DoneIsAwake, ByeIsLast,
               StoppedIsGone, TypeOK
<1>11. CASE \/ ReaderEnds
            \/ \E q \in ServerRequests : Handled(q) \/ Reply(q) \/ ServerAsks(q) \/ ServerGets(q)
            \/ Serve \/ (\E r \in Ids : Stray(r)) \/ Dies \/ UNCHANGED vars
  <2>1. UNCHANGED <<session, call, lock, handlers, answer, task>>
    BY <1>11 DEF ReaderEnds, Handled, Reply, ServerAsks, ServerGets, Serve, Respond, Stray,
                 Dies, client, vars
  <2>2. alive' => alive
    BY <1>11 DEF ReaderEnds, Handled, Reply, ServerAsks, ServerGets, Serve, Respond, Stray,
                 Dies, vars
  <2> QED
    BY <1>10, <2>1, <2>2
<1> QED
  BY <1>1, <1>2, <1>3, <1>4, <1>5, <1>6, <1>7, <1>8, <1>9, <1>11 DEF Next, Client

LEMMA Invariance == Spec => []IInv
<1>1. Init => IInv
  BY DEF Init, IInv, LockCoversSending, RegisteredIsOpen, NewIsUntouched, DoneIsAwake, ByeIsLast,
         StoppedIsGone, Ids
<1> QED
  BY <1>1, IInvStep, Typing, PTL DEF Spec

(* With any number of requests under way no request sleeps past its answer,*)
(* in whatever order answers and waits come, and a session that has        *)
(* stopped has no server process (send_request, _response_handler, stop).  *)
THEOREM Wakeups == Spec => []WakeupsAreKept
<1>1. IInv => NoLostWakeup /\ StoppedIsGone
  BY DEF IInv, DoneIsAwake, NoLostWakeup
<1> QED
  BY <1>1, Typing, Invariance, PTL DEF WakeupsAreKept

(* A later response, stray or repeated, never changes the outcome of a     *)
(* request: the handler is removed with its first answer.                  *)
THEOREM Outcomes == Spec => AnsweredOnce
<1>1. TypeOK /\ IInv /\ [Next]_vars => [\A r \in Ids : answer[r] # "none" => answer'[r] = answer[r]]_vars
  <2> SUFFICES ASSUME TypeOK, IInv, Next, NEW r \in Ids, answer[r] # "none"
               PROVE  answer'[r] = answer[r]
    OBVIOUS
  <2>1. CASE Read
    BY <2>1 DEF Read, ResponseHandler, TypeOK, IInv, RegisteredIsOpen
  <2>2. CASE UNCHANGED answer
    BY <2>2
  <2>3. Read \/ UNCHANGED answer
    BY DEF Next, Client, Wait, DrainFails, Return, Notify, ReaderEnds, Handled, Reply, Exit, Stop,
           Gone, Timeout, Ask, Shutdown, Serve, Respond, Stray, ServerAsks, ServerGets, Dies, client
  <2> QED
    BY <2>1, <2>2, <2>3
<1> QED
  BY <1>1, Typing, Invariance, PTL DEF Spec, AnsweredOnce
=============================================================================
