------------------------------- MODULE Broker -------------------------------
(***************************************************************************)
(* internal/broker/broker.go: the goroutine that owns the TCP connection   *)
(* to the inverter, and the goroutines that call it.                       *)
(*                                                                         *)
(* Callers put commands on a bounded channel; Run takes one at a time and  *)
(* answers it on its own response channel.  A read or a write dials when   *)
(* there is no connection, retries on an error and reconnects with         *)
(* exponential backoff.  Disconnect first "aborts" the read in progress    *)
(* from the caller's goroutine, then queues its command.                   *)
(*                                                                         *)
(* Run changes the connection first and calls setState afterwards, and     *)
(* setState stores the state, which CurrentState reads from other          *)
(* goroutines, before it offers the event on a bounded channel that drops  *)
(* what does not fit.  These are three steps here: an action that calls    *)
(* setState leaves the new state in news, then Store, then Offer, and only *)
(* then does Run go on.                                                    *)
(*                                                                         *)
(* Each member of Call is ONE call of the API.  A transfer's payload is    *)
(* left out; what a transfer does (transmit, succeed, fail) is kept.  The  *)
(* unlocked store of conn in ensureConnected is one atomic step: an        *)
(* abortRead that misses it behaves like one that came before it.          *)
(***************************************************************************)
EXTENDS Integers, Sequences

CONSTANTS
  Call,          \* the API calls made during a behaviour, each made once
  Nobody,        \* no call: the Run loop is between two commands
  OpsOf,         \* OpsOf[c]: the operations call c may turn out to be
  QueueCap,      \* capacity of the commands channel
  EventCap,      \* capacity of the stateCh channel
  ReadAttempts,  \* maxAttempts of executeRead
  WriteAttempts, \* maxAttempts of executeWrite
  BatchSize,     \* number of reads in a ReadBatch
  BackoffBase,   \* first reconnection delay
  BackoffMax     \* largest reconnection delay

Transfer == {"read", "write", "batch"}
Op       == Transfer \cup {"reconfigure", "disconnect", "setdelay"}

ASSUME CallAssumption == /\ Nobody \notin Call
                         /\ OpsOf \in [Call -> SUBSET Op]
ASSUME LimitsAssumption == /\ QueueCap \in Nat \ {0}
                           /\ EventCap \in Nat \ {0}
                           /\ ReadAttempts \in Nat \ {0}
                           /\ WriteAttempts \in Nat \ {0}
                           /\ BatchSize \in Nat \ {0}
ASSUME BackoffAssumption == /\ BackoffBase \in Nat \ {0}
                            /\ BackoffMax \in Nat
                            /\ BackoffBase <= BackoffMax

VARIABLES
  \* the calling goroutines
  pc,        \* where call c is
  op,        \* what call c asks for
  reply,     \* content of call c's response channel (capacity 1)
  \* the channels
  commands,  \* queued commands, each named by its call
  stateCh,   \* queued state events
  \* the Run goroutine
  at,        \* its program counter
  current,   \* the command it executes
  attempt,   \* attempt of the current read or write
  left,      \* reads of the current command not finished yet
  failed,    \* some read of the current batch has failed
  conn,      \* b.conn # nil
  expired,   \* the deadline of the current conn has been forced into the past
  aborting,  \* b.aborting
  dormant,   \* b.dormant
  news,      \* the state that setState was called with and has not stored yet
  state,     \* b.state
  offering,  \* setState has stored the state and has not offered its event yet
  backoff,   \* b.backoff.current
  \* the surroundings
  runDone,   \* Run's context is cancelled
  closed,    \* Close was called: b.done is closed
  heard,     \* the last state event its consumer received
  \* history, for the properties only
  lost,      \* some state event was dropped
  sent       \* how often call c put a request on the wire

callVars  == <<pc, op>>
loopVars  == <<at, current, attempt, left, failed>>
linkVars  == <<conn, expired, dormant, backoff>>
eventVars == <<state, offering, stateCh, lost>>
envVars   == <<runDone, closed, heard>>
vars == <<callVars, reply, commands, loopVars, linkVars, aborting, news, eventVars,
          envVars, sent>>

States == {"dormant", "disconnected", "connecting", "connected", "reconnecting"}

Init ==
  /\ pc = [c \in Call |-> "idle"]
  /\ op = [c \in Call |-> "none"]
  /\ reply = [c \in Call |-> "none"]
  /\ commands = <<>>
  /\ stateCh = <<>>
  /\ at = "select"
  /\ current = Nobody
  /\ attempt = 0
  /\ left = 0
  /\ failed = FALSE
  /\ conn = FALSE
  /\ expired = FALSE
  /\ aborting = FALSE
  /\ dormant = TRUE
  /\ news = "none"
  /\ state = "dormant"
  /\ offering = FALSE
  /\ backoff = BackoffBase
  /\ runDone = FALSE
  /\ closed = FALSE
  /\ heard = "dormant"
  /\ lost = FALSE
  /\ sent = [c \in Call |-> 0]

-----------------------------------------------------------------------------
(* The callers. *)

\* A goroutine makes the call.  Disconnect sets the abort flag at once.
Start(c) ==
  /\ pc[c] = "idle"
  /\ \E o \in OpsOf[c] :
       /\ op' = [op EXCEPT ![c] = o]
       /\ pc' = [pc EXCEPT ![c] = IF o = "disconnect" THEN "aborting" ELSE "sending"]
       /\ aborting' = (aborting \/ o = "disconnect")
  /\ UNCHANGED <<reply, commands, loopVars, linkVars, news, eventVars, envVars, sent>>

\* The rest of abortRead: force the read deadline of the open connection.
AbortDeadline(c) ==
  /\ pc[c] = "aborting"
  /\ pc' = [pc EXCEPT ![c] = "sending"]
  /\ expired' = (expired \/ conn)
  /\ UNCHANGED <<op, reply, commands, loopVars, conn, dormant, backoff,
                 aborting, news, eventVars, envVars, sent>>

Enqueue(c) ==
  /\ pc[c] = "sending"
  /\ Len(commands) < QueueCap
  /\ commands' = Append(commands, c)
  /\ pc' = [pc EXCEPT ![c] = "waiting"]
  /\ UNCHANGED <<op, reply, loopVars, linkVars, aborting, news, eventVars, envVars, sent>>

Return(c) ==
  /\ pc' = [pc EXCEPT ![c] = "returned"]
  /\ UNCHANGED <<op, reply, commands, loopVars, linkVars, aborting, news, eventVars, envVars, sent>>

Receive(c)      == pc[c] = "waiting" /\ reply[c] # "none" /\ Return(c)
RefusedClosed(c) == pc[c] = "sending" /\ closed /\ Return(c)
\* The caller's own context ends; it may leave at either of its two selects.
GiveUp(c)       == pc[c] \in {"sending", "waiting"} /\ Return(c)

-----------------------------------------------------------------------------
(* The Run goroutine. *)

\* The Run goroutine is at p and not inside setState.
At(p) == at = p /\ news = "none" /\ ~offering

\* setState: store the state ...
Store ==
  /\ news # "none"
  /\ state' = news
  /\ news' = "none"
  /\ offering' = TRUE
  /\ UNCHANGED <<callVars, reply, commands, loopVars, linkVars, aborting, stateCh, lost,
                 envVars, sent>>

\* ... and offer its event, which is dropped when the channel is full.
Offer ==
  /\ offering
  /\ offering' = FALSE
  /\ IF Len(stateCh) < EventCap
       THEN stateCh' = Append(stateCh, state) /\ UNCHANGED lost
       ELSE lost' = TRUE /\ UNCHANGED stateCh
  /\ UNCHANGED <<callVars, reply, commands, loopVars, linkVars, aborting, news, state,
                 envVars, sent>>

\* execute sends the result and Run is back at its select.
Respond(result) ==
  /\ reply' = [reply EXCEPT ![current] = result]
  /\ current' = Nobody
  /\ at' = "select"
  /\ attempt' = 0
  /\ left' = 0
  /\ failed' = FALSE

\* One read or write is over; a batch goes on with its next read.
Finish(result) ==
  IF left > 1
    THEN /\ at' = "execute"
         /\ attempt' = 1
         /\ left' = left - 1
         /\ failed' = (failed \/ result = "err")
         /\ UNCHANGED <<reply, current>>
    ELSE Respond(IF failed THEN "err" ELSE result)

\* Run's select: with several ready cases Go picks any of them.
Take ==
  /\ At("select")
  /\ commands # <<>>
  /\ current' = Head(commands)
  /\ commands' = Tail(commands)
  /\ at' = "execute"
  /\ attempt' = 1
  /\ left' = IF op[current'] = "batch" THEN BatchSize ELSE 1
  /\ UNCHANGED <<callVars, reply, failed, linkVars, aborting, news, eventVars, envVars, sent>>

\* Mutant: cleanup stores the state and sends no event.
Cleanup_StoreOnly ==
  /\ At("select")
  /\ runDone \/ closed
  /\ at' = "stopped"
  /\ conn' = FALSE
  /\ expired' = FALSE
  /\ state' = "disconnected"
  /\ UNCHANGED <<callVars, reply, commands, current, attempt, left, failed, dormant,
                 backoff, aborting, news, offering, stateCh, lost, envVars, sent>>

Cleanup ==
  /\ At("select")
  /\ runDone \/ closed
  /\ at' = "stopped"
  /\ conn' = FALSE
  /\ expired' = FALSE
  /\ news' = "disconnected"
  /\ UNCHANGED <<callVars, reply, commands, current, attempt, left, failed, dormant,
                 backoff, aborting, eventVars, envVars, sent>>

Executing(ops) == At("execute") /\ op[current] \in ops

\* executeBatch looks at Run's context before each of its reads.
BatchCancelled == op[current] = "batch" /\ attempt = 1 /\ runDone

CancelBatch ==
  /\ Executing({"batch"})
  /\ BatchCancelled
  /\ Respond("err")
  /\ UNCHANGED <<callVars, commands, linkVars, aborting, news, eventVars, envVars, sent>>

\* ensureConnected finds a connection.
AlreadyConnected ==
  /\ Executing(Transfer) /\ ~BatchCancelled
  /\ conn
  /\ at' = "ready"
  /\ UNCHANGED <<callVars, reply, commands, current, attempt, left, failed, linkVars,
                 aborting, news, eventVars, envVars, sent>>

\* ensureConnected refuses: no inverter is configured.
RefuseDormant ==
  /\ Executing(Transfer) /\ ~BatchCancelled
  /\ ~conn /\ dormant
  /\ Finish("err")
  /\ UNCHANGED <<callVars, commands, linkVars, aborting, news, eventVars, envVars, sent>>

\* Mutant: ensureConnected forgets that the broker is dormant.
StartDial_Dormant ==
  /\ Executing(Transfer) /\ ~BatchCancelled
  /\ ~conn
  /\ at' = "dial"
  /\ news' = "connecting"
  /\ UNCHANGED <<callVars, reply, commands, current, attempt, left, failed, linkVars,
                 aborting, eventVars, envVars, sent>>

StartDial ==
  /\ Executing(Transfer) /\ ~BatchCancelled
  /\ ~conn /\ ~dormant
  /\ at' = "dial"
  /\ news' = "connecting"
  /\ UNCHANGED <<callVars, reply, commands, current, attempt, left, failed, linkVars,
                 aborting, eventVars, envVars, sent>>

\* Mutant: a successful dial does not reset the backoff.
DialOk_NoReset ==
  /\ At("dial")
  /\ at' = "ready"
  /\ conn' = TRUE
  /\ expired' = FALSE
  /\ news' = "connected"
  /\ UNCHANGED <<callVars, reply, commands, current, attempt, left, failed, dormant,
                 backoff, aborting, eventVars, envVars, sent>>

DialOk ==
  /\ At("dial")
  /\ at' = "ready"
  /\ conn' = TRUE
  /\ expired' = FALSE
  /\ backoff' = BackoffBase
  /\ news' = "connected"
  /\ UNCHANGED <<callVars, reply, commands, current, attempt, left, failed, dormant,
                 aborting, eventVars, envVars, sent>>

\* Mutant: the delay is not capped.
NextBackoff_NoCap(b) == 2 * b

\* Backoff.Next: the delay doubles up to the maximum.
NextBackoff(b) == IF 2 * b > BackoffMax THEN BackoffMax ELSE 2 * b

DialFail ==
  /\ At("dial")
  /\ at' = "backoff"
  /\ backoff' = NextBackoff(backoff)
  /\ news' = "reconnecting"
  /\ UNCHANGED <<callVars, reply, commands, current, attempt, left, failed, conn, expired,
                 dormant, aborting, eventVars, envVars, sent>>

\* The timer wins only while the context lives: a cancelled context is ready before any timer.
BackoffOver ==
  /\ At("backoff")
  /\ ~runDone
  /\ at' = "dial"
  /\ UNCHANGED <<callVars, reply, commands, current, attempt, left, failed, linkVars,
                 aborting, news, eventVars, envVars, sent>>

\* Run's context ends during the delay: setState, and then ensureConnected returns the error.
BackoffCancelled ==
  /\ At("backoff")
  /\ runDone
  /\ at' = "cancelled"
  /\ news' = "disconnected"
  /\ UNCHANGED <<callVars, reply, commands, current, attempt, left, failed, linkVars,
                 aborting, eventVars, envVars, sent>>

ReportCancelled ==
  /\ At("cancelled")
  /\ Finish("err")
  /\ UNCHANGED <<callVars, commands, linkVars, aborting, news, eventVars, envVars, sent>>

\* The delay between reads is over; the protocol code sets its own read deadline and transmits.
Transmit ==
  /\ At("ready")
  /\ at' = "io"
  /\ expired' = FALSE
  /\ sent' = [sent EXCEPT ![current] = @ + 1]
  /\ UNCHANGED <<callVars, reply, commands, current, attempt, left, failed, conn, dormant,
                 backoff, aborting, news, eventVars, envVars>>

TransferOk ==
  /\ At("io")
  /\ Finish("ok")
  /\ UNCHANGED <<callVars, commands, linkVars, aborting, news, eventVars, envVars, sent>>

\* A read answered with Modbus exception 0x02 keeps the connection and is not retried.
IllegalAddress ==
  /\ At("io")
  /\ op[current] # "write"
  /\ Finish("err")
  /\ UNCHANGED <<callVars, commands, linkVars, aborting, news, eventVars, envVars, sent>>

\* Any other error, a forced deadline included: handleError.
TransferFails ==
  /\ At("io")
  /\ at' = "failed"
  /\ conn' = FALSE
  /\ expired' = FALSE
  /\ news' = IF dormant THEN "disconnected" ELSE "reconnecting"
  /\ UNCHANGED <<callVars, reply, commands, current, attempt, left, failed, dormant,
                 backoff, aborting, eventVars, envVars, sent>>

\* Mutant: one attempt too many.
NoMoreAttempts_OffByOne ==
  IF op[current] = "write" THEN attempt > WriteAttempts
                           ELSE aborting \/ attempt > ReadAttempts

\* What executeRead and executeWrite look at before they try again.
NoMoreAttempts ==
  IF op[current] = "write" THEN attempt = WriteAttempts
                           ELSE aborting \/ attempt = ReadAttempts

Retry ==
  /\ At("failed")
  /\ ~NoMoreAttempts
  /\ at' = "execute"
  /\ attempt' = attempt + 1
  /\ UNCHANGED <<callVars, reply, commands, current, left, failed, linkVars, aborting,
                 news, eventVars, envVars, sent>>

\* Mutant: the last error ends the loop and is not sent to the caller.
ReportFailure_NoAnswer ==
  /\ At("failed")
  /\ NoMoreAttempts
  /\ at' = "select"
  /\ current' = Nobody
  /\ attempt' = 0
  /\ left' = 0
  /\ failed' = FALSE
  /\ UNCHANGED <<callVars, reply, commands, linkVars, aborting, news, eventVars, envVars, sent>>

ReportFailure ==
  /\ At("failed")
  /\ NoMoreAttempts
  /\ Finish("err")
  /\ UNCHANGED <<callVars, commands, linkVars, aborting, news, eventVars, envVars, sent>>

ExecuteReconfigure ==
  /\ Executing({"reconfigure"})
  /\ at' = "redial"
  /\ conn' = FALSE
  /\ expired' = FALSE
  /\ dormant' = FALSE
  /\ backoff' = BackoffBase
  /\ news' = "connecting"
  /\ UNCHANGED <<callVars, reply, commands, current, attempt, left, failed, aborting,
                 eventVars, envVars, sent>>

RedialOk ==
  /\ At("redial")
  /\ at' = "redialed"
  /\ conn' = TRUE
  /\ news' = "connected"
  /\ UNCHANGED <<callVars, reply, commands, current, attempt, left, failed, expired, dormant,
                 backoff, aborting, eventVars, envVars, sent>>

\* The dial failed: the broker is disconnected, but no longer dormant.
RedialFail ==
  /\ At("redial")
  /\ at' = "redialed"
  /\ news' = "disconnected"
  /\ UNCHANGED <<callVars, reply, commands, current, attempt, left, failed, linkVars,
                 aborting, eventVars, envVars, sent>>

\* Mutant: the dial error is not handed to the caller.
AnswerReconfigure_Ok ==
  /\ At("redialed")
  /\ Respond("ok")
  /\ UNCHANGED <<callVars, commands, linkVars, aborting, news, eventVars, envVars, sent>>

\* The caller of Reconfigure gets the dial error, if there was one.
AnswerReconfigure ==
  /\ At("redialed")
  /\ Respond(IF conn THEN "ok" ELSE "err")
  /\ UNCHANGED <<callVars, commands, linkVars, aborting, news, eventVars, envVars, sent>>

\* Mutant: the abort flag is not lowered.
ExecuteDisconnect_StillAborting ==
  /\ Executing({"disconnect"})
  /\ at' = "unlinked"
  /\ conn' = FALSE
  /\ expired' = FALSE
  /\ dormant' = TRUE
  /\ news' = "disconnected"
  /\ UNCHANGED <<callVars, reply, commands, current, attempt, left, failed, backoff,
                 aborting, eventVars, envVars, sent>>

\* Mutant: the caller is answered before the state is set.
ExecuteDisconnect_AnswersFirst ==
  /\ Executing({"disconnect"})
  /\ aborting' = FALSE
  /\ conn' = FALSE
  /\ expired' = FALSE
  /\ dormant' = TRUE
  /\ news' = "disconnected"
  /\ Respond("ok")
  /\ UNCHANGED <<callVars, commands, backoff, eventVars, envVars, sent>>

\* Close the connection and go dormant; setState follows.
ExecuteDisconnect ==
  /\ Executing({"disconnect"})
  /\ at' = "unlinked"
  /\ aborting' = FALSE
  /\ conn' = FALSE
  /\ expired' = FALSE
  /\ dormant' = TRUE
  /\ news' = "disconnected"
  /\ UNCHANGED <<callVars, reply, commands, current, attempt, left, failed, backoff,
                 eventVars, envVars, sent>>

\* Mutant: the command is executed and not answered.
AnswerDisconnect_Never ==
  /\ At("unlinked")
  /\ at' = "select"
  /\ current' = Nobody
  /\ UNCHANGED <<callVars, reply, commands, attempt, left, failed, linkVars, aborting, news,
                 eventVars, envVars, sent>>

AnswerDisconnect ==
  /\ At("unlinked")
  /\ Respond("ok")
  /\ UNCHANGED <<callVars, commands, linkVars, aborting, news, eventVars, envVars, sent>>

ExecuteSetDelay ==
  /\ Executing({"setdelay"})
  /\ Respond("ok")
  /\ UNCHANGED <<callVars, commands, linkVars, aborting, news, eventVars, envVars, sent>>

-----------------------------------------------------------------------------
(* The surroundings. *)

CancelRun ==
  /\ ~runDone
  /\ runDone' = TRUE
  /\ UNCHANGED <<callVars, reply, commands, loopVars, linkVars, aborting, news, eventVars,
                 closed, heard, sent>>

Close ==
  /\ ~closed
  /\ closed' = TRUE
  /\ UNCHANGED <<callVars, reply, commands, loopVars, linkVars, aborting, news, eventVars,
                 runDone, heard, sent>>

Hear ==
  /\ stateCh # <<>>
  /\ heard' = Head(stateCh)
  /\ stateCh' = Tail(stateCh)
  /\ UNCHANGED <<callVars, reply, commands, loopVars, linkVars, aborting, news, state, offering, lost,
                 runDone, closed, sent>>

-----------------------------------------------------------------------------
CallerStep(c) ==
  \/ Start(c) \/ AbortDeadline(c) \/ Enqueue(c)
  \/ Receive(c) \/ RefusedClosed(c) \/ GiveUp(c)

EndOfTransfer == TransferOk \/ IllegalAddress \/ TransferFails

RunStep ==
  \/ Store \/ Offer
  \/ Take \/ Cleanup
  \/ CancelBatch \/ AlreadyConnected \/ RefuseDormant \/ StartDial
  \/ DialOk \/ DialFail \/ BackoffOver \/ BackoffCancelled \/ ReportCancelled
  \/ Transmit \/ EndOfTransfer \/ Retry \/ ReportFailure
  \/ ExecuteReconfigure \/ RedialOk \/ RedialFail \/ AnswerReconfigure
  \/ ExecuteDisconnect \/ AnswerDisconnect \/ ExecuteSetDelay

Surroundings == CancelRun \/ Close \/ Hear

Next == (\E c \in Call : CallerStep(c)) \/ RunStep \/ Surroundings

Spec == Init /\ [][Next]_vars

-----------------------------------------------------------------------------
(* Properties. *)

TypeOK ==
  /\ pc \in [Call -> {"idle", "aborting", "sending", "waiting", "returned"}]
  /\ op \in [Call -> Op \cup {"none"}]
  /\ reply \in [Call -> {"none", "ok", "err"}]
  /\ commands \in Seq(Call) /\ Len(commands) <= QueueCap
  /\ stateCh \in Seq(States) /\ Len(stateCh) <= EventCap
  /\ at \in {"select", "execute", "dial", "backoff", "cancelled", "ready", "io", "failed",
            "redial", "redialed", "unlinked", "stopped"}
  /\ current \in Call \cup {Nobody}
  /\ attempt \in Nat
  /\ left \in 0..BatchSize
  /\ state \in States /\ heard \in States /\ news \in States \cup {"none"}
  /\ offering \in BOOLEAN
  /\ backoff \in BackoffBase..BackoffMax
  /\ failed \in BOOLEAN /\ conn \in BOOLEAN /\ expired \in BOOLEAN /\ aborting \in BOOLEAN
  /\ dormant \in BOOLEAN /\ runDone \in BOOLEAN /\ closed \in BOOLEAN /\ lost \in BOOLEAN
  /\ sent \in [Call -> Nat]

\* Once Disconnect was executed, and before the first Reconfigure, nothing touches the inverter: no
\* connection, no dial, no transfer, whatever commands were queued behind it (executeDisconnect,
\* ensureConnected's dormant check).
DormantIsQuiet ==
  dormant => /\ ~conn
             /\ at \notin {"dial", "backoff", "cancelled", "ready", "io", "failed", "redial",
                          "redialed"}
             /\ news = "disconnected" \/ (news = "none" /\ state \in {"dormant", "disconnected"})

\* CurrentState, read from another goroutine at any moment, may be behind the connection, but only while Run
\* is between the change and the store of the very setState call that reports it: "connected" without a
\* connection just before another state is stored, a connection without "connected" just before that is.
\* Whenever Run is between two commands, so for every caller who has its answer, the two agree.
StateMirrorsConn ==
  /\ state = "connected" /\ ~conn => news \notin {"none", "connected"}
  /\ state # "connected" /\ conn => news = "connected"
  /\ at = "select" => ((state = "connected") <=> conn)

\* A connection that works has reset the backoff: the first delay after it breaks is the base delay.
ConnectedResetsBackoff == conn => backoff = BackoffBase

Queued(c)   == \E i \in 1..Len(commands) : commands[i] = c
Accepted(c) == Queued(c) \/ c = current \/ reply[c] # "none"

\* An accepted command is in exactly one place: once in the queue, in execution, or answered.  None is lost,
\* executed twice or answered twice, also when its caller has gone.
ExactlyOnce ==
  /\ \A i, j \in 1..Len(commands) : commands[i] = commands[j] => i = j
  /\ \A c \in Call : Queued(c) => c # current /\ reply[c] = "none"
  /\ current # Nobody => reply[current] = "none"
  /\ \A c \in Call : pc[c] = "waiting" => Accepted(c)
  /\ \A c \in Call : pc[c] \in {"idle", "aborting", "sending"} => ~Accepted(c)

Budget(o) == CASE o = "read"  -> ReadAttempts
               [] o = "write" -> WriteAttempts
               [] o = "batch" -> BatchSize * ReadAttempts
               [] OTHER       -> 0

\* Retries are bounded per call and a success was really transmitted: a transfer goes on the wire at most its
\* number of attempts times, at least once per read when it is answered "ok", and never for another command.
TransmissionsInBudget ==
  \A c \in Call :
    /\ sent[c] <= Budget(op[c])
    /\ reply[c] = "ok" => sent[c] >= CASE op[c] = "batch" -> BatchSize
                                        [] op[c] \in {"read", "write"} -> 1
                                        [] OTHER -> 0

AbortPending(d) ==
  op[d] = "disconnect" /\ (pc[d] \in {"aborting", "sending"} \/ Queued(d) \/ d = current)

\* The abort flag, which takes a read's retries away, is up only for a Disconnect that is under way, or for one
\* that left before its command was accepted (b.done closed or its context over: nothing lowers the flag then).
AbortExplained ==
  aborting => \E d \in Call :
    \/ AbortPending(d)
    \/ op[d] = "disconnect" /\ pc[d] = "returned" /\ ~Accepted(d)

\* The consumer that has drained the channel knows the broker's state, unless an event was dropped or setState
\* has just stored the state and not offered it yet.
HeardIsCurrent ==
  ~lost /\ ~offering => (IF stateCh = <<>> THEN heard ELSE stateCh[Len(stateCh)]) = state

\* The broker implements the register service.
Pending == {c \in Call : Queued(c) \/ c = current}

Service == INSTANCE RegisterService WITH
             asked <- op, pending <- Pending, answer <- reply, armed <- ~dormant, link <- conn
ImplementsService == Service!Spec

-----------------------------------------------------------------------------
(* Fairness: the Run goroutine and a started caller keep running, and a sender blocked on the commands channel
   gets its turn (Go serves blocked senders first in, first out).  Nobody has to call, to cancel or to listen. *)

FairSpec ==
  /\ Spec
  /\ WF_vars(RunStep)
  /\ \A c \in Call : WF_vars(AbortDeadline(c)) /\ SF_vars(Enqueue(c)) /\ WF_vars(Receive(c))

\* The inverter is reachable again and again.
ReachableSpec == FairSpec /\ SF_vars(DialOk)

\* With a reachable inverter every accepted command is answered (or the broker has stopped).
CommandsAnswered ==
  \A c \in Call : pc[c] = "waiting" ~> pc[c] = "returned" \/ at = "stopped"

\* docs/API.md:113: "Closes the inverter connection. [...] The broker enters a dormant state".
DisconnectTakesEffect ==
  \A c \in Call : pc[c] = "waiting" /\ op[c] = "disconnect" ~> reply[c] = "ok" \/ at = "stopped"
=============================================================================
