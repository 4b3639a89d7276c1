---------------------------- MODULE BrokerProofs ----------------------------
(***************************************************************************)
(* Proofs about Broker for every set of calls, every capacity and every    *)
(* number of attempts: its types, the link and the reported state, each    *)
(* accepted command in one place, the abort flag, the register service it  *)
(* implements, what a listener knows and what a call puts on the wire.     *)
(***************************************************************************)
EXTENDS Broker, TLAPS

-----------------------------------------------------------------------------
(* Type correctness. *)

LEMMA OfferType ==
  ASSUME TypeOK, Offer
  PROVE  TypeOK'
<1>1. \/ Len(stateCh) < EventCap /\ stateCh' = Append(stateCh, state)
      \/ stateCh' = stateCh
  BY DEF Offer
<1>2. stateCh' \in Seq(States)
  <2>1. stateCh \in Seq(States) /\ state \in States
    BY DEF TypeOK
  <2>2. Append(stateCh, state) \in Seq(States)
    BY <2>1
  <2>3. QED BY <1>1, <2>1, <2>2
<1>3. Len(stateCh') <= EventCap
  BY <1>1, LimitsAssumption DEF LimitsAssumption, TypeOK
<1>4. lost' \in BOOLEAN /\ offering' \in BOOLEAN
  BY DEF TypeOK, Offer
<1>5. QED BY <1>2, <1>3, <1>4 DEF Offer, TypeOK, callVars, loopVars, linkVars, envVars

LEMMA RespondType ==
  ASSUME TypeOK, NEW r \in {"ok", "err"}, Respond(r)
  PROVE  /\ reply' \in [Call -> {"none", "ok", "err"}]
         /\ current' \in Call \cup {Nobody}
         /\ at' \in {"select", "execute"}
         /\ attempt' \in Nat
         /\ left' \in 0..BatchSize
         /\ failed' \in BOOLEAN
<1>1. reply' \in [Call -> {"none", "ok", "err"}]
  BY DEF TypeOK, Respond
<1>2. failed' \in BOOLEAN
  BY DEF Respond
<1>3. current' = Nobody /\ at' = "select" /\ attempt' = 0 /\ left' = 0
  BY DEF Respond
<1>4. QED BY <1>1, <1>2, <1>3, LimitsAssumption DEF LimitsAssumption

LEMMA FinishType ==
  ASSUME TypeOK, NEW r \in {"ok", "err"}, Finish(r)
  PROVE  /\ reply' \in [Call -> {"none", "ok", "err"}]
         /\ current' \in Call \cup {Nobody}
         /\ at' \in {"select", "execute"}
         /\ attempt' \in Nat
         /\ left' \in 0..BatchSize
         /\ failed' \in BOOLEAN
<1>1. CASE left > 1
  BY <1>1, LimitsAssumption DEF LimitsAssumption, TypeOK, Finish
<1>2. CASE ~(left > 1)
  BY <1>2, RespondType DEF TypeOK, Finish
<1>3. QED BY <1>1, <1>2

LEMMA CallerType ==
  ASSUME TypeOK, NEW c \in Call, CallerStep(c)
  PROVE  TypeOK'
<1> USE DEF TypeOK, callVars, loopVars, linkVars, eventVars, envVars
<1>1. CASE Start(c)
  <2>1. PICK o \in OpsOf[c] :
          /\ op' = [op EXCEPT ![c] = o]
          /\ pc' = [pc EXCEPT ![c] = IF o = "disconnect" THEN "aborting" ELSE "sending"]
          /\ aborting' = (aborting \/ o = "disconnect")
    BY <1>1 DEF Start
  <2>2. op' \in [Call -> Op \cup {"none"}]
    BY <2>1, CallAssumption DEF CallAssumption
  <2>3. pc' \in [Call -> {"idle", "aborting", "sending", "waiting", "returned"}]
    BY <2>1
  <2>4. aborting' \in BOOLEAN
    BY <2>1
  <2>5. QED BY <1>1, <2>2, <2>3, <2>4 DEF Start
<1>2. CASE AbortDeadline(c) BY <1>2 DEF AbortDeadline
<1>3. CASE Enqueue(c) BY <1>3, LimitsAssumption DEF LimitsAssumption, Enqueue
<1>4. CASE Receive(c) BY <1>4 DEF Receive, Return
<1>5. CASE RefusedClosed(c) BY <1>5 DEF RefusedClosed, Return
<1>6. CASE GiveUp(c) BY <1>6 DEF GiveUp, Return
<1>7. QED BY <1>1, <1>2, <1>3, <1>4, <1>5, <1>6 DEF CallerStep

LEMMA RunType ==
  ASSUME TypeOK, RunStep
  PROVE  TypeOK'
<1> USE DEF TypeOK, callVars, loopVars, linkVars, eventVars, envVars, States, At, Executing
<1>1. CASE Take BY <1>1, LimitsAssumption DEF LimitsAssumption, Take
<1>2. CASE Cleanup
  <2>1. conn' \in BOOLEAN /\ expired' \in BOOLEAN /\ news' \in States /\ at' = "stopped"
    BY <1>2 DEF Cleanup
  <2>2. QED BY <1>2, <2>1 DEF Cleanup
<1>3. CASE CancelBatch BY <1>3, RespondType DEF CancelBatch
<1>4. CASE AlreadyConnected BY <1>4 DEF AlreadyConnected
<1>5. CASE RefuseDormant BY <1>5, FinishType DEF RefuseDormant
<1>6. CASE StartDial BY <1>6 DEF StartDial
<1>7. CASE DialOk
  <2>1. backoff' \in BackoffBase..BackoffMax
    BY <1>7, BackoffAssumption DEF BackoffAssumption, DialOk
  <2>2. conn' \in BOOLEAN /\ expired' \in BOOLEAN
    BY <1>7 DEF DialOk
  <2>3. at' \in {"ready"}
    BY <1>7 DEF DialOk
  <2>4. QED BY <1>7, <2>1, <2>2, <2>3 DEF DialOk
<1>8. CASE DialFail
  BY <1>8, BackoffAssumption DEF BackoffAssumption, DialFail, NextBackoff
<1>9. CASE BackoffOver BY <1>9 DEF BackoffOver
<1>10. CASE BackoffCancelled BY <1>10 DEF BackoffCancelled
<1>11. CASE Transmit
  <2>1. sent' \in [Call -> Nat]
    <3>1. sent \in [Call -> Nat] /\ sent' = [sent EXCEPT ![current] = sent[current] + 1]
      BY <1>11 DEF Transmit
    <3>2. \A c \in Call : sent[c] + 1 \in Nat
      BY <3>1
    <3>3. ASSUME NEW c \in Call PROVE sent'[c] \in Nat
      BY <3>1, <3>2
    <3>4. QED BY <3>1, <3>3
  <2>2. expired' \in BOOLEAN
    BY <1>11 DEF Transmit
  <2>3. /\ at' = "io"
        /\ UNCHANGED <<callVars, reply, commands, current, attempt, left, failed, conn, dormant,
                       backoff, aborting, news, eventVars, envVars>>
    BY <1>11 DEF Transmit
  <2>4. QED BY <2>1, <2>2, <2>3
<1>12. CASE TransferOk BY <1>12, FinishType DEF TransferOk
<1>13. CASE IllegalAddress BY <1>13, FinishType DEF IllegalAddress
<1>14. CASE TransferFails
  <2>1. conn' \in BOOLEAN /\ expired' \in BOOLEAN /\ news' \in States /\ at' = "failed"
    BY <1>14 DEF TransferFails
  <2>2. QED BY <1>14, <2>1 DEF TransferFails
<1>15. CASE Retry BY <1>15 DEF Retry
<1>16. CASE ReportFailure BY <1>16, FinishType DEF ReportFailure
<1>17. CASE ExecuteReconfigure
  <2>1. backoff' \in BackoffBase..BackoffMax
    BY <1>17, BackoffAssumption DEF BackoffAssumption, ExecuteReconfigure
  <2>2. conn' \in BOOLEAN /\ expired' \in BOOLEAN /\ dormant' \in BOOLEAN
    BY <1>17 DEF ExecuteReconfigure
  <2>3. QED BY <1>17, <2>1, <2>2 DEF ExecuteReconfigure
<1>18. CASE RedialOk BY <1>18 DEF RedialOk
<1>19. CASE RedialFail BY <1>19 DEF RedialFail
<1>20. CASE ExecuteDisconnect BY <1>20 DEF ExecuteDisconnect
<1>21. CASE ExecuteSetDelay BY <1>21, RespondType DEF ExecuteSetDelay
<1>22. CASE Store BY <1>22 DEF Store
<1>23. CASE Offer BY <1>23, OfferType
<1>24. CASE ReportCancelled BY <1>24, FinishType DEF ReportCancelled
<1>25. CASE AnswerReconfigure BY <1>25, RespondType DEF AnswerReconfigure
<1>26. CASE AnswerDisconnect BY <1>26, RespondType DEF AnswerDisconnect
<1>27. QED
  BY <1>1, <1>2, <1>3, <1>4, <1>5, <1>6, <1>7, <1>8, <1>9, <1>10, <1>11, <1>12, <1>13, <1>14,
     <1>15, <1>16, <1>17, <1>18, <1>19, <1>20, <1>21, <1>22, <1>23, <1>24, <1>25, <1>26
  DEF RunStep, EndOfTransfer

LEMMA SurroundingsType ==
  ASSUME TypeOK, Surroundings
  PROVE  TypeOK'
<1> USE DEF TypeOK, callVars, loopVars, linkVars, eventVars, envVars
<1>1. CASE CancelRun BY <1>1 DEF CancelRun
<1>2. CASE Close BY <1>2 DEF Close
<1>3. CASE Hear
  <2>1. heard' \in States /\ stateCh' \in Seq(States)
    BY <1>3 DEF Hear
  <2>2. Len(stateCh') <= EventCap
    BY <1>3, LimitsAssumption DEF LimitsAssumption, Hear
  <2>3. QED BY <1>3, <2>1, <2>2 DEF Hear
<1>4. QED BY <1>1, <1>2, <1>3 DEF Surroundings

LEMMA TypeInit == Init => TypeOK
<1>1. SUFFICES ASSUME Init PROVE TypeOK
  OBVIOUS
<1>2. commands \in Seq(Call) /\ Len(commands) <= QueueCap
  BY <1>1, LimitsAssumption DEF LimitsAssumption, Init
<1>3. stateCh \in Seq(States) /\ Len(stateCh) <= EventCap
  BY <1>1, LimitsAssumption DEF LimitsAssumption, Init
<1>4. backoff \in BackoffBase..BackoffMax /\ attempt \in Nat /\ left \in 0..BatchSize
  BY <1>1, LimitsAssumption, BackoffAssumption DEF LimitsAssumption, BackoffAssumption, Init
<1>5. QED BY <1>1, <1>2, <1>3, <1>4 DEF Init, TypeOK, States

LEMMA TypeStep == TypeOK /\ [Next]_vars => TypeOK'
<1>1. SUFFICES ASSUME TypeOK, [Next]_vars PROVE TypeOK'
  OBVIOUS
<1>2. CASE Next
  BY <1>1, <1>2, CallerType, RunType, SurroundingsType DEF Next
<1>3. CASE UNCHANGED vars
  BY <1>1, <1>3 DEF TypeOK, vars, callVars, loopVars, linkVars, eventVars, envVars
<1>4. QED BY <1>1, <1>2, <1>3

\* Every variable keeps its type: among the rest, the two channels never hold more than their capacity and
\* the backoff delay stays between its base and its maximum.
THEOREM TypeCorrect == Spec => []TypeOK
BY TypeInit, TypeStep, PTL DEF Spec

-----------------------------------------------------------------------------
(* The link: dormancy, the connection and the reported state agree. *)

\* What the program counter says about the connection, and what setState was called with: news is "connected"
\* exactly for a connection, and when nothing is on its way the state and the connection agree.  Run is back
\* at its select only after setState.  With these the three properties are inductive.
LinkInv ==
  /\ DormantIsQuiet
  /\ StateMirrorsConn
  /\ ConnectedResetsBackoff
  /\ at \in {"ready", "io"} => conn
  /\ at \in {"dial", "backoff", "cancelled", "failed", "redial", "unlinked"} => ~conn
  /\ at = "redial" => backoff = BackoffBase
  /\ news # "none" => ((news = "connected") <=> conn)
  /\ at = "unlinked" => dormant
  /\ at = "select" => news = "none" /\ ~offering

LEMMA FinishAt ==
  ASSUME NEW r, Finish(r) \/ Respond(r)
  PROVE  at' \in {"select", "execute"}
BY DEF Finish, Respond

LEMMA LinkUnchanged ==
  ASSUME LinkInv, UNCHANGED <<conn, dormant, state, backoff, news, offering>>,
         \/ at' = at
         \/ at' \in {"select", "execute"} /\ news = "none" /\ ~offering
  PROVE  LinkInv'
BY DEF LinkInv, DormantIsQuiet, StateMirrorsConn, ConnectedResetsBackoff

LEMMA LinkStep ==
  ASSUME LinkInv, Next
  PROVE  LinkInv'
<1> USE DEF LinkInv, DormantIsQuiet, StateMirrorsConn, ConnectedResetsBackoff, At, Executing,
            callVars, loopVars, linkVars, eventVars, envVars
<1>1. CASE \E c \in Call : CallerStep(c)
  <2>1. UNCHANGED <<conn, dormant, state, backoff, news, offering, at>>
    BY <1>1 DEF CallerStep, Start, AbortDeadline, Enqueue, Receive, RefusedClosed, GiveUp, Return
  <2>2. QED BY <2>1
<1>2. CASE Take BY <1>2 DEF Take
<1>3. CASE Cleanup BY <1>3 DEF Cleanup
<1>4. CASE CancelBatch \/ RefuseDormant \/ ReportFailure \/ ExecuteSetDelay
  BY <1>4, FinishAt, LinkUnchanged DEF CancelBatch, RefuseDormant, ReportFailure, ExecuteSetDelay
<1>5. CASE TransferOk \/ IllegalAddress
  BY <1>5, FinishAt, LinkUnchanged DEF TransferOk, IllegalAddress
<1>6. CASE AlreadyConnected BY <1>6 DEF AlreadyConnected
<1>7. CASE StartDial BY <1>7 DEF StartDial
<1>8. CASE DialOk BY <1>8 DEF DialOk
<1>9. CASE DialFail BY <1>9 DEF DialFail
<1>10. CASE BackoffOver BY <1>10 DEF BackoffOver
<1>11. CASE BackoffCancelled BY <1>11 DEF BackoffCancelled
<1>12. CASE Transmit BY <1>12 DEF Transmit
<1>13. CASE TransferFails BY <1>13 DEF TransferFails
<1>14. CASE Retry BY <1>14 DEF Retry
<1>15. CASE ExecuteReconfigure BY <1>15 DEF ExecuteReconfigure
<1>16. CASE RedialOk BY <1>16 DEF RedialOk
<1>17. CASE RedialFail BY <1>17 DEF RedialFail
<1>18. CASE ExecuteDisconnect
  <2>1. /\ at = "execute" /\ at' = "unlinked" /\ news = "none" /\ news' = "disconnected"
        /\ conn' = FALSE /\ dormant' = TRUE /\ UNCHANGED <<state, backoff>>
    BY <1>18 DEF ExecuteDisconnect
  <2>2. DormantIsQuiet'
    BY <2>1
  <2>3. StateMirrorsConn'
    BY <2>1
  <2>4. QED BY <2>1, <2>2, <2>3
<1>19. CASE Surroundings BY <1>19 DEF Surroundings, CancelRun, Close, Hear
<1>20. CASE Store
  <2>1. news # "none" /\ state' = news /\ news' = "none" /\ UNCHANGED <<at, conn, dormant, backoff>>
    BY <1>20 DEF Store
  <2>2. at # "select" /\ ((news = "connected") <=> conn)
    BY <2>1
  <2>3. (state' = "connected") <=> conn'
    BY <2>1, <2>2
  <2>4. dormant' => state' \in {"dormant", "disconnected"}
    BY <2>1
  <2>5. DormantIsQuiet'
    BY <2>1, <2>4
  <2>6. StateMirrorsConn'
    BY <2>1, <2>2, <2>3
  <2>7. ConnectedResetsBackoff'
    BY <2>1
  <2>8. QED BY <2>1, <2>2, <2>5, <2>6, <2>7
<1>21. CASE Offer BY <1>21 DEF Offer
<1>22. CASE ReportCancelled \/ AnswerReconfigure \/ AnswerDisconnect
  BY <1>22, FinishAt, LinkUnchanged DEF ReportCancelled, AnswerReconfigure, AnswerDisconnect
<1>23. QED
  BY <1>1, <1>2, <1>3, <1>4, <1>5, <1>6, <1>7, <1>8, <1>9, <1>10, <1>11, <1>12, <1>13, <1>14,
     <1>15, <1>16, <1>17, <1>18, <1>19, <1>20, <1>21, <1>22
  DEF Next, RunStep, EndOfTransfer

\* The strengthening holds in every reachable state.
THEOREM LinkCorrect == Spec => []LinkInv
<1>1. Init => LinkInv
  BY DEF Init, LinkInv, DormantIsQuiet, StateMirrorsConn, ConnectedResetsBackoff
<1>2. LinkInv /\ UNCHANGED vars => LinkInv'
  BY DEF LinkInv, DormantIsQuiet, StateMirrorsConn, ConnectedResetsBackoff,
         vars, callVars, loopVars, linkVars, eventVars, envVars
<1>3. LinkInv /\ [Next]_vars => LinkInv'
  BY <1>2, LinkStep
<1>4. QED BY <1>1, <1>3, PTL DEF Spec

\* After Disconnect, and before the first Reconfigure, the broker does nothing to the inverter.
THEOREM DormantStaysQuiet == Spec => []DormantIsQuiet
<1>1. LinkInv => DormantIsQuiet
  BY DEF LinkInv
<1>2. QED BY <1>1, LinkCorrect, PTL

\* CurrentState lags behind the connection only inside the setState call that reports the change, and never
\* between two commands.
THEOREM StateIsTruthful == Spec => []StateMirrorsConn
<1>1. LinkInv => StateMirrorsConn
  BY DEF LinkInv
<1>2. QED BY <1>1, LinkCorrect, PTL

\* A working connection means a backoff that starts again from its base.
THEOREM BackoffIsReset == Spec => []ConnectedResetsBackoff
<1>1. LinkInv => ConnectedResetsBackoff
  BY DEF LinkInv
<1>2. QED BY <1>1, LinkCorrect, PTL

-----------------------------------------------------------------------------
(* Every accepted command is in exactly one place. *)

Between == at \in {"select", "stopped"}

OnceInv ==
  /\ TypeOK
  /\ ExactlyOnce
  /\ Between <=> current = Nobody

LEMMA AppendQueued ==
  ASSUME TypeOK, NEW c \in Call, commands' = Append(commands, c)
  PROVE  /\ \A d \in Call : Queued(d)' <=> Queued(d) \/ d = c
         /\ Len(commands') = Len(commands) + 1
         /\ commands'[Len(commands) + 1] = c
         /\ \A i \in 1..Len(commands) : commands'[i] = commands[i]
<1>1. commands \in Seq(Call)
  BY DEF TypeOK
<1>2. /\ Len(commands') = Len(commands) + 1
      /\ commands'[Len(commands) + 1] = c
      /\ \A i \in 1..Len(commands) : commands'[i] = commands[i]
  BY <1>1
<1>3. \A d \in Call : Queued(d)' <=> Queued(d) \/ d = c
  <2>1. SUFFICES ASSUME NEW d \in Call PROVE Queued(d)' <=> Queued(d) \/ d = c
    OBVIOUS
  <2>2. Len(commands) \in Nat
    BY <1>1
  <2>3. Queued(d)' => Queued(d) \/ d = c
    BY <1>2, <2>2 DEF Queued
  <2>4. Queued(d) \/ d = c => Queued(d)'
    BY <1>2, <2>2 DEF Queued
  <2>5. QED BY <2>3, <2>4
<1>4. QED BY <1>2, <1>3

LEMMA TailQueued ==
  ASSUME TypeOK, ExactlyOnce, commands # <<>>, commands' = Tail(commands)
  PROVE  /\ Head(commands) \in Call
         /\ Queued(Head(commands))
         /\ \A d \in Call : Queued(d)' <=> Queued(d) /\ d # Head(commands)
         /\ \A i, j \in 1..Len(commands') : commands'[i] = commands'[j] => i = j
<1>1. commands \in Seq(Call) /\ Len(commands) \in Nat \ {0}
  BY DEF TypeOK
<1>2. /\ Len(commands') = Len(commands) - 1
      /\ \A i \in 1..Len(commands') : commands'[i] = commands[i + 1]
      /\ Head(commands) = commands[1]
  BY <1>1
<1>3. \A i, j \in 1..Len(commands) : commands[i] = commands[j] => i = j
  BY DEF ExactlyOnce
<1>4. Head(commands) \in Call /\ Queued(Head(commands))
  BY <1>1, <1>2 DEF Queued
<1>5. \A i, j \in 1..Len(commands') : commands'[i] = commands'[j] => i = j
  BY <1>1, <1>2, <1>3
<1>6. ASSUME NEW d \in Call, Queued(d)' PROVE Queued(d) /\ d # Head(commands)
  <2>1. PICK i \in 1..Len(commands') : commands'[i] = d
    BY <1>6 DEF Queued
  <2>2. i + 1 \in 1..Len(commands) /\ commands[i + 1] = d /\ i + 1 # 1
    BY <1>1, <1>2, <2>1
  <2>3. QED BY <1>1, <1>2, <1>3, <2>2 DEF Queued
<1>7. ASSUME NEW d \in Call, Queued(d), d # Head(commands) PROVE Queued(d)'
  <2>1. PICK i \in 1..Len(commands) : commands[i] = d
    BY <1>7 DEF Queued
  <2>2. i - 1 \in 1..Len(commands') /\ commands'[i - 1] = d
    BY <1>1, <1>2, <1>7, <2>1
  <2>3. QED BY <2>2 DEF Queued
<1>8. QED BY <1>4, <1>5, <1>6, <1>7

\* A step that moves no command: it changes no queue, no response and not which command is executed.
LEMMA OnceQuiet ==
  ASSUME ExactlyOnce, Between <=> current = Nobody,
         UNCHANGED <<pc, reply, commands, current>>, Between' <=> Between
  PROVE  ExactlyOnce' /\ (Between' <=> current' = Nobody)
BY DEF ExactlyOnce, Queued, Accepted

LEMMA OnceRespond ==
  ASSUME OnceInv, ~Between, NEW r \in {"ok", "err"}, Respond(r), UNCHANGED <<pc, commands>>
  PROVE  ExactlyOnce' /\ (Between' <=> current' = Nobody)
<1>1. current \in Call
  BY DEF OnceInv, TypeOK
<1>2. /\ reply' = [reply EXCEPT ![current] = r]
      /\ current' = Nobody /\ at' = "select"
  BY DEF Respond
<1>3. \A c \in Call : Queued(c)' <=> Queued(c)
  BY DEF Queued
<1>4. \A c \in Call : reply'[c] = IF c = current THEN r ELSE reply[c]
  BY <1>1, <1>2 DEF OnceInv, TypeOK
<1>5. \A c \in Call : Accepted(c)' <=> Accepted(c)
  BY <1>2, <1>3, <1>4, CallAssumption DEF CallAssumption, Accepted, OnceInv, ExactlyOnce
<1>6. \A c \in Call : Queued(c)' => c # current' /\ reply'[c] = "none"
  BY <1>2, <1>3, <1>4, CallAssumption DEF CallAssumption, OnceInv, ExactlyOnce
<1>7. QED BY <1>2, <1>5, <1>6 DEF OnceInv, ExactlyOnce, Between

LEMMA OnceFinish ==
  ASSUME OnceInv, ~Between, NEW r \in {"ok", "err"}, Finish(r), UNCHANGED <<pc, commands>>
  PROVE  ExactlyOnce' /\ (Between' <=> current' = Nobody)
<1>1. CASE left > 1
  <2>1. UNCHANGED <<reply, current>> /\ at' = "execute"
    BY <1>1 DEF Finish
  <2>2. QED BY <2>1, OnceQuiet DEF OnceInv, Between
<1>2. CASE ~(left > 1)
  <2>1. PICK q \in {"ok", "err"} : Respond(q)
    BY <1>2 DEF Finish
  <2>2. QED BY <2>1, OnceRespond
<1>3. QED BY <1>1, <1>2

LEMMA OnceCaller ==
  ASSUME OnceInv, NEW c \in Call, CallerStep(c)
  PROVE  ExactlyOnce' /\ (Between' <=> current' = Nobody)
<1> USE DEF callVars, loopVars
<1>1. CASE Enqueue(c)
  <2>1. /\ pc[c] = "sending" /\ commands' = Append(commands, c)
        /\ pc' = [pc EXCEPT ![c] = "waiting"]
        /\ UNCHANGED <<reply, current, at>>
    BY <1>1 DEF Enqueue
  <2>2. ~Accepted(c)
    BY <2>1 DEF OnceInv, ExactlyOnce
  <2>3. commands \in Seq(Call) /\ Len(commands) \in Nat
    BY DEF OnceInv, TypeOK
  <2>4. /\ \A d \in Call : Queued(d)' <=> Queued(d) \/ d = c
        /\ Len(commands') = Len(commands) + 1
        /\ commands'[Len(commands) + 1] = c
        /\ \A i \in 1..Len(commands) : commands'[i] = commands[i]
    BY <2>1, AppendQueued DEF OnceInv
  <2>5. \A i, j \in 1..Len(commands') : commands'[i] = commands'[j] => i = j
    <3>1. \A i \in 1..Len(commands) : commands[i] # c
      BY <2>2 DEF Accepted, Queued
    <3>2. \A i \in 1..Len(commands') : i \in 1..Len(commands) \/ i = Len(commands) + 1
      BY <2>3, <2>4
    <3>3. \A i, j \in 1..Len(commands) : commands[i] = commands[j] => i = j
      BY DEF OnceInv, ExactlyOnce
    <3>4. QED BY <2>4, <3>1, <3>2, <3>3
  <2>6. \A d \in Call : Queued(d)' => d # current' /\ reply'[d] = "none"
    BY <2>1, <2>2, <2>4 DEF OnceInv, ExactlyOnce, Accepted
  <2>7. \A d \in Call : Accepted(d)' <=> Accepted(d) \/ d = c
    BY <2>1, <2>4 DEF Accepted
  <2>8. \A d \in Call : pc'[d] = IF d = c THEN "waiting" ELSE pc[d]
    BY <2>1 DEF OnceInv, TypeOK
  <2>9. QED BY <2>1, <2>5, <2>6, <2>7, <2>8 DEF OnceInv, ExactlyOnce, Between
<1>2. CASE Start(c) \/ AbortDeadline(c) \/ Receive(c) \/ RefusedClosed(c) \/ GiveUp(c)
  <2>1. /\ UNCHANGED <<reply, commands, current, at>>
        /\ \A d \in Call : d # c => pc'[d] = pc[d]
    BY <1>2 DEF Start, AbortDeadline, Receive, RefusedClosed, GiveUp, Return, OnceInv, TypeOK
  <2>2. \A d \in Call : Queued(d)' <=> Queued(d)
    BY <2>1 DEF Queued
  <2>3. \A d \in Call : Accepted(d)' <=> Accepted(d)
    BY <2>1, <2>2 DEF Accepted
  <2>4. \/ /\ pc[c] \in {"idle", "aborting"}
           /\ pc'[c] \in {"aborting", "sending"}
        \/ pc'[c] = "returned"
    BY <1>2 DEF Start, AbortDeadline, Receive, RefusedClosed, GiveUp, Return, OnceInv, TypeOK
  <2>5. QED BY <2>1, <2>2, <2>3, <2>4 DEF OnceInv, ExactlyOnce, Between
<1>3. QED BY <1>1, <1>2 DEF CallerStep

LEMMA OnceTake ==
  ASSUME OnceInv, Take
  PROVE  ExactlyOnce' /\ (Between' <=> current' = Nobody)
<1>1. /\ at = "select" /\ at' = "execute" /\ commands # <<>>
      /\ current' = Head(commands) /\ commands' = Tail(commands)
      /\ UNCHANGED <<pc, reply>>
  BY DEF Take, At, callVars
<1>2. /\ Head(commands) \in Call
      /\ Queued(Head(commands))
      /\ \A d \in Call : Queued(d)' <=> Queued(d) /\ d # Head(commands)
      /\ \A i, j \in 1..Len(commands') : commands'[i] = commands'[j] => i = j
  BY <1>1, TailQueued DEF OnceInv
<1>3. current = Nobody
  BY <1>1 DEF OnceInv, Between
<1>4. \A d \in Call : Accepted(d)' <=> Accepted(d)
  BY <1>1, <1>2, <1>3, CallAssumption DEF CallAssumption, Accepted
<1>5. QED BY <1>1, <1>2, <1>4 DEF OnceInv, ExactlyOnce, Between

LEMMA OnceRun ==
  ASSUME OnceInv, RunStep
  PROVE  ExactlyOnce' /\ (Between' <=> current' = Nobody)
<1> USE DEF callVars, Between, At
<1>1. CASE Take BY <1>1, OnceTake
<1>2. CASE Cleanup BY <1>2, OnceQuiet DEF Cleanup, OnceInv
<1>3. CASE CancelBatch \/ ExecuteSetDelay
  BY <1>3, OnceRespond DEF CancelBatch, ExecuteSetDelay, Executing
<1>4. CASE AlreadyConnected \/ StartDial
  BY <1>4, OnceQuiet DEF AlreadyConnected, StartDial, Executing, OnceInv
<1>5. CASE RefuseDormant BY <1>5, OnceFinish DEF RefuseDormant, Executing
<1>6. CASE DialOk \/ DialFail \/ BackoffOver
  BY <1>6, OnceQuiet DEF DialOk, DialFail, BackoffOver, OnceInv
<1>7. CASE ReportCancelled BY <1>7, OnceFinish DEF ReportCancelled
<1>8. CASE Transmit BY <1>8, OnceQuiet DEF Transmit, OnceInv
<1>9. CASE TransferOk \/ IllegalAddress
  BY <1>9, OnceFinish DEF TransferOk, IllegalAddress
<1>10. CASE TransferFails \/ Retry
  BY <1>10, OnceQuiet DEF TransferFails, Retry, OnceInv
<1>11. CASE ReportFailure BY <1>11, OnceFinish DEF ReportFailure
<1>12. CASE ExecuteReconfigure BY <1>12, OnceQuiet DEF ExecuteReconfigure, Executing, OnceInv
<1>13. CASE RedialOk \/ RedialFail \/ BackoffCancelled
  BY <1>13, OnceQuiet DEF RedialOk, RedialFail, BackoffCancelled, OnceInv
<1>14. CASE ExecuteDisconnect BY <1>14, OnceQuiet DEF ExecuteDisconnect, Executing, OnceInv
<1>15. CASE AnswerReconfigure \/ AnswerDisconnect
  BY <1>15, OnceRespond DEF AnswerReconfigure, AnswerDisconnect
<1>16. CASE Store \/ Offer
  BY <1>16, OnceQuiet DEF Store, Offer, loopVars, OnceInv
<1>17. QED
  BY <1>1, <1>2, <1>3, <1>4, <1>5, <1>6, <1>7, <1>8, <1>9, <1>10, <1>11, <1>12, <1>13, <1>14,
     <1>15, <1>16
  DEF RunStep, EndOfTransfer

\* The queue, the command in execution and the response channels together hold each accepted call once.
THEOREM OnceCorrect == Spec => []OnceInv
<1>1. Init => OnceInv
  <2>1. SUFFICES ASSUME Init PROVE ExactlyOnce /\ (Between <=> current = Nobody)
    BY TypeInit DEF OnceInv
  <2>2. QED BY <2>1, CallAssumption DEF CallAssumption, Init, ExactlyOnce, Queued, Accepted, Between
<1>2. OnceInv /\ [Next]_vars => OnceInv'
  <2>1. SUFFICES ASSUME OnceInv, [Next]_vars PROVE OnceInv'
    OBVIOUS
  <2>2. TypeOK'
    BY <2>1, TypeStep DEF OnceInv
  <2>3. CASE \E c \in Call : CallerStep(c)
    BY <2>1, <2>2, <2>3, OnceCaller DEF OnceInv
  <2>4. CASE RunStep
    BY <2>1, <2>2, <2>4, OnceRun DEF OnceInv
  <2>5. CASE Surroundings \/ UNCHANGED vars
    <3>1. UNCHANGED <<pc, reply, commands, current, at>>
      BY <2>5 DEF Surroundings, CancelRun, Close, Hear, vars, callVars, loopVars
    <3>2. QED BY <2>1, <2>2, <3>1, OnceQuiet DEF OnceInv, Between
  <2>6. QED BY <2>1, <2>3, <2>4, <2>5 DEF Next
<1>3. QED BY <1>1, <1>2, PTL DEF Spec

\* No accepted command is lost, executed twice or answered twice.
THEOREM CommandsOnce == Spec => []ExactlyOnce
<1>1. OnceInv => ExactlyOnce
  BY DEF OnceInv
<1>2. QED BY <1>1, OnceCorrect, PTL

-----------------------------------------------------------------------------
(* Which operation is executed at which point of the Run goroutine. *)

JobInv ==
  /\ \A c \in Call : pc[c] = "idle" <=> op[c] = "none"
  /\ at \in {"dial", "backoff", "cancelled", "ready", "io", "failed"} => op[current] \in Transfer
  /\ at \in {"redial", "redialed"} => op[current] = "reconfigure"
  /\ at = "unlinked" => op[current] = "disconnect"

LEMMA JobFinish ==
  ASSUME JobInv, NEW r, Finish(r) \/ Respond(r), UNCHANGED callVars
  PROVE  JobInv'
BY FinishAt DEF JobInv, callVars

LEMMA JobCaller ==
  ASSUME OnceInv, JobInv, NEW c \in Call, CallerStep(c)
  PROVE  JobInv'
<1> USE DEF loopVars
<1>1. UNCHANGED <<at, current>>
  BY DEF CallerStep, Start, AbortDeadline, Enqueue, Receive, RefusedClosed, GiveUp, Return
<1>2. CASE Start(c)
  <2>1. pc[c] = "idle"
    BY <1>2 DEF Start
  <2>2. PICK o \in OpsOf[c] :
          /\ op' = [op EXCEPT ![c] = o]
          /\ pc' = [pc EXCEPT ![c] = IF o = "disconnect" THEN "aborting" ELSE "sending"]
    BY <1>2 DEF Start
  <2>3. o # "none"
    BY CallAssumption DEF CallAssumption, Op, Transfer
  <2>4. /\ \A d \in Call : op'[d] = IF d = c THEN o ELSE op[d]
        /\ pc'[c] # "idle"
        /\ \A d \in Call : d # c => pc'[d] = pc[d]
    BY <2>2 DEF OnceInv, TypeOK
  <2>5. current # c
    BY <2>1 DEF OnceInv, ExactlyOnce, Accepted
  <2>6. ~Between => op'[current] = op[current]
    BY <2>4, <2>5 DEF OnceInv, TypeOK
  <2>7. QED BY <1>1, <2>3, <2>4, <2>6 DEF JobInv, Between
<1>3. CASE AbortDeadline(c) \/ Enqueue(c) \/ Receive(c) \/ RefusedClosed(c) \/ GiveUp(c)
  <2>1. UNCHANGED op
    BY <1>3 DEF AbortDeadline, Enqueue, Receive, RefusedClosed, GiveUp, Return
  <2>2. pc[c] # "idle" /\ pc'[c] # "idle" /\ \A d \in Call : d # c => pc'[d] = pc[d]
    BY <1>3 DEF AbortDeadline, Enqueue, Receive, RefusedClosed, GiveUp, Return, OnceInv, TypeOK
  <2>3. QED BY <1>1, <2>1, <2>2 DEF JobInv
<1>4. QED BY <1>2, <1>3 DEF CallerStep

LEMMA JobRun ==
  ASSUME JobInv, RunStep
  PROVE  JobInv'
<1> USE DEF JobInv, callVars, Executing, At
<1>1. CASE Take \/ Cleanup BY <1>1 DEF Take, Cleanup
<1>2. CASE CancelBatch \/ RefuseDormant \/ ReportCancelled
  BY <1>2, JobFinish DEF CancelBatch, RefuseDormant, ReportCancelled
<1>3. CASE AlreadyConnected \/ StartDial BY <1>3 DEF AlreadyConnected, StartDial
<1>4. CASE DialOk \/ DialFail \/ BackoffOver BY <1>4 DEF DialOk, DialFail, BackoffOver
<1>5. CASE Transmit \/ TransferFails \/ Retry BY <1>5 DEF Transmit, TransferFails, Retry
<1>6. CASE TransferOk \/ IllegalAddress \/ ReportFailure
  BY <1>6, JobFinish DEF TransferOk, IllegalAddress, ReportFailure
<1>7. CASE ExecuteReconfigure BY <1>7 DEF ExecuteReconfigure
<1>8. CASE RedialOk \/ RedialFail \/ BackoffCancelled \/ ExecuteDisconnect
  BY <1>8 DEF RedialOk, RedialFail, BackoffCancelled, ExecuteDisconnect
<1>9. CASE AnswerReconfigure \/ AnswerDisconnect \/ ExecuteSetDelay
  BY <1>9, JobFinish DEF AnswerReconfigure, AnswerDisconnect, ExecuteSetDelay
<1>10. CASE Store \/ Offer BY <1>10 DEF Store, Offer, loopVars
<1>11. QED
  BY <1>1, <1>2, <1>3, <1>4, <1>5, <1>6, <1>7, <1>8, <1>9, <1>10 DEF RunStep, EndOfTransfer

LEMMA JobStep == OnceInv /\ JobInv /\ [Next]_vars => JobInv'
<1>1. SUFFICES ASSUME OnceInv, JobInv, [Next]_vars PROVE JobInv'
  OBVIOUS
<1>2. CASE Surroundings \/ UNCHANGED vars
  BY <1>1, <1>2 DEF JobInv, Surroundings, CancelRun, Close, Hear, vars, callVars, loopVars
<1>3. QED BY <1>1, <1>2, JobCaller, JobRun DEF Next

LEMMA JobInit == Init => JobInv
BY DEF Init, JobInv

THEOREM JobCorrect == Spec => []JobInv
BY JobInit, JobStep, OnceCorrect, PTL DEF Spec

-----------------------------------------------------------------------------
(* The abort flag. *)

LeftUnaccepted(d) == op[d] = "disconnect" /\ pc[d] = "returned" /\ ~Accepted(d)

\* The Disconnect in execution has lowered the flag once it is at "unlinked": it explains the flag no more.
Explains(d) ==
  \/ AbortPending(d) /\ ~(at = "unlinked" /\ d = current)
  \/ LeftUnaccepted(d)

AbortInv == aborting => \E d \in Call : Explains(d)

LEMMA AbortKept ==
  ASSUME AbortInv, aborting' => aborting,
         \A d \in Call : Explains(d) => Explains(d)'
  PROVE  AbortInv'
BY DEF AbortInv

LEMMA AbortQuiet ==
  ASSUME AbortInv, UNCHANGED <<pc, op, reply, commands, current, aborting>>,
         at' = "unlinked" => at = "unlinked"
  PROVE  AbortInv'
<1>1. \A d \in Call : Explains(d) => Explains(d)'
  BY DEF Explains, AbortPending, LeftUnaccepted, Accepted, Queued
<1>2. QED BY <1>1, AbortKept

LEMMA AbortRespond ==
  ASSUME OnceInv, AbortInv, NEW r, Respond(r),
         op[current] # "disconnect" \/ at = "unlinked",
         UNCHANGED <<pc, op, commands, aborting>>
  PROVE  AbortInv'
<1>1. ASSUME NEW d \in Call, Explains(d) PROVE Explains(d)'
  <2>1. d # current
    <3>1. CASE op[current] # "disconnect"
      BY <1>1, <3>1 DEF Explains, AbortPending, LeftUnaccepted
    <3>2. CASE at = "unlinked"
      BY <1>1, <3>2 DEF Explains, LeftUnaccepted, Accepted
    <3>3. QED BY <3>1, <3>2
  <2>2. reply'[d] = reply[d]
    BY <2>1 DEF Respond, OnceInv, TypeOK
  <2>3. Queued(d)' <=> Queued(d)
    BY DEF Queued
  <2>4. d # current' /\ at' = "select"
    BY CallAssumption DEF Respond, CallAssumption
  <2>5. QED BY <1>1, <2>1, <2>2, <2>3, <2>4 DEF Explains, AbortPending, LeftUnaccepted, Accepted
<1>2. QED BY <1>1, AbortKept

LEMMA AbortFinish ==
  ASSUME OnceInv, AbortInv, NEW r, Finish(r), op[current] # "disconnect",
         UNCHANGED <<pc, op, commands, aborting>>
  PROVE  AbortInv'
<1>1. CASE left > 1
  <2>1. UNCHANGED <<reply, current>> /\ at' = "execute"
    BY <1>1 DEF Finish
  <2>2. QED BY <2>1, AbortQuiet
<1>2. CASE ~(left > 1) BY <1>2, AbortRespond DEF Finish
<1>3. QED BY <1>1, <1>2

LEMMA AbortCaller ==
  ASSUME OnceInv, JobInv, AbortInv, NEW c \in Call, CallerStep(c)
  PROVE  AbortInv'
<1> USE DEF loopVars
<1>1. CASE Start(c)
  <2>1. PICK o \in OpsOf[c] :
          /\ op' = [op EXCEPT ![c] = o]
          /\ pc' = [pc EXCEPT ![c] = IF o = "disconnect" THEN "aborting" ELSE "sending"]
          /\ aborting' = (aborting \/ o = "disconnect")
    BY <1>1 DEF Start
  <2>2. /\ pc[c] = "idle"
        /\ UNCHANGED <<commands, current, reply, at>>
    BY <1>1 DEF Start
  <2>3. /\ op'[c] = o /\ pc'[c] = (IF o = "disconnect" THEN "aborting" ELSE "sending")
        /\ \A d \in Call : d # c => op'[d] = op[d] /\ pc'[d] = pc[d]
    BY <2>1 DEF OnceInv, TypeOK
  <2>4. CASE o = "disconnect"
    <3>1. c # current
      BY <2>2 DEF OnceInv, ExactlyOnce, Accepted
    <3>2. Explains(c)'
      BY <2>2, <2>3, <2>4, <3>1 DEF Explains, AbortPending
    <3>3. QED BY <3>2 DEF AbortInv
  <2>5. CASE o # "disconnect"
    <3>1. ASSUME NEW d \in Call, Explains(d) PROVE Explains(d)'
      <4>1. d # c
        BY <2>2, <3>1 DEF Explains, AbortPending, LeftUnaccepted, JobInv
      <4>2. QED BY <2>2, <2>3, <3>1, <4>1 DEF Explains, AbortPending, LeftUnaccepted, Accepted, Queued
    <3>2. aborting' => aborting
      BY <2>1, <2>5
    <3>3. QED BY <3>1, <3>2, AbortKept
  <2>6. QED BY <2>4, <2>5
<1>2. CASE Enqueue(c)
  <2>1. /\ pc' = [pc EXCEPT ![c] = "waiting"] /\ pc[c] = "sending"
        /\ commands' = Append(commands, c)
        /\ UNCHANGED <<op, current, reply, aborting, at>>
    BY <1>2 DEF Enqueue, callVars
  <2>2. \A d \in Call : Queued(d)' <=> Queued(d) \/ d = c
    BY <2>1, AppendQueued DEF OnceInv
  <2>3. \A d \in Call : d # c => pc'[d] = pc[d]
    BY <2>1 DEF OnceInv, TypeOK
  <2>4. ASSUME NEW d \in Call, Explains(d) PROVE Explains(d)'
    BY <2>1, <2>2, <2>3, <2>4 DEF Explains, AbortPending, LeftUnaccepted, Accepted
  <2>5. QED BY <2>1, <2>4, AbortKept
<1>3. CASE AbortDeadline(c) \/ Receive(c) \/ RefusedClosed(c) \/ GiveUp(c)
  <2>1. /\ UNCHANGED <<op, commands, current, reply, aborting, at>>
        /\ \A d \in Call : d # c => pc'[d] = pc[d]
    BY <1>3 DEF AbortDeadline, Receive, RefusedClosed, GiveUp, Return, OnceInv, TypeOK
  <2>2. \/ pc[c] = "aborting" /\ pc'[c] = "sending"
        \/ pc[c] \in {"sending", "waiting"} /\ pc'[c] = "returned"
    BY <1>3 DEF AbortDeadline, Receive, RefusedClosed, GiveUp, Return, OnceInv, TypeOK
  <2>3. pc[c] = "sending" => ~Accepted(c)
    BY DEF OnceInv, ExactlyOnce
  <2>4. ASSUME NEW d \in Call, Explains(d) PROVE Explains(d)'
    <3>1. (Queued(d)' <=> Queued(d)) /\ (Accepted(d)' <=> Accepted(d))
      BY <2>1 DEF Queued, Accepted
    <3>2. CASE d # c
      BY <2>1, <2>4, <3>1, <3>2 DEF Explains, AbortPending, LeftUnaccepted
    <3>3. CASE d = c
      BY <2>1, <2>2, <2>3, <2>4, <3>1, <3>3 DEF Explains, AbortPending, LeftUnaccepted
    <3>4. QED BY <3>2, <3>3
  <2>5. QED BY <2>1, <2>4, AbortKept
<1>4. QED BY <1>1, <1>2, <1>3 DEF CallerStep

LEMMA AbortTake ==
  ASSUME OnceInv, AbortInv, Take
  PROVE  AbortInv'
<1>1. /\ commands # <<>> /\ current' = Head(commands) /\ commands' = Tail(commands)
      /\ at' = "execute"
      /\ UNCHANGED <<pc, op, reply, aborting>>
  BY DEF Take, callVars
<1>2. /\ Head(commands) \in Call /\ Queued(Head(commands))
      /\ \A d \in Call : Queued(d)' <=> Queued(d) /\ d # Head(commands)
  BY <1>1, TailQueued DEF OnceInv
<1>3. \A d \in Call : d # current
  BY CallAssumption DEF CallAssumption, OnceInv, Between, Take, At
<1>4. ASSUME NEW d \in Call, Explains(d) PROVE Explains(d)'
  BY <1>1, <1>2, <1>3, <1>4 DEF Explains, AbortPending, LeftUnaccepted, Accepted
<1>5. QED BY <1>1, <1>4, AbortKept

LEMMA AbortRun ==
  ASSUME OnceInv, JobInv, AbortInv, RunStep
  PROVE  AbortInv'
<1> USE DEF callVars, Executing, At, JobInv, Transfer
<1>1. CASE Take BY <1>1, AbortTake
<1>2. CASE Cleanup \/ AlreadyConnected \/ StartDial \/ DialOk \/ DialFail \/ BackoffOver
  BY <1>2, AbortQuiet DEF Cleanup, AlreadyConnected, StartDial, DialOk, DialFail, BackoffOver
<1>3. CASE Transmit \/ TransferFails \/ Retry \/ ExecuteReconfigure
  BY <1>3, AbortQuiet DEF Transmit, TransferFails, Retry, ExecuteReconfigure
<1>4. CASE CancelBatch \/ ExecuteSetDelay \/ AnswerReconfigure
  BY <1>4, AbortRespond DEF CancelBatch, ExecuteSetDelay, AnswerReconfigure
<1>5. CASE RefuseDormant \/ ReportCancelled \/ TransferOk \/ IllegalAddress \/ ReportFailure
  BY <1>5, AbortFinish DEF RefuseDormant, ReportCancelled, TransferOk, IllegalAddress, ReportFailure
<1>6. CASE ExecuteDisconnect BY <1>6 DEF ExecuteDisconnect, AbortInv
<1>7. CASE BackoffCancelled \/ RedialOk \/ RedialFail
  BY <1>7, AbortQuiet DEF BackoffCancelled, RedialOk, RedialFail
<1>8. CASE Store \/ Offer BY <1>8, AbortQuiet DEF Store, Offer, loopVars
<1>9. CASE AnswerDisconnect BY <1>9, AbortRespond DEF AnswerDisconnect
<1>10. QED
  BY <1>1, <1>2, <1>3, <1>4, <1>5, <1>6, <1>7, <1>8, <1>9 DEF RunStep, EndOfTransfer

LEMMA AbortStep == OnceInv /\ JobInv /\ AbortInv /\ [Next]_vars => AbortInv'
<1>1. SUFFICES ASSUME OnceInv, JobInv, AbortInv, [Next]_vars PROVE AbortInv'
  OBVIOUS
<1>2. CASE Surroundings \/ UNCHANGED vars
  BY <1>1, <1>2, AbortQuiet
  DEF Surroundings, CancelRun, Close, Hear, vars, callVars, loopVars
<1>3. QED BY <1>1, <1>2, AbortCaller, AbortRun DEF Next

\* A read loses its retries only to a Disconnect that is under way or that left before it was accepted.
THEOREM AbortCorrect == Spec => []AbortExplained
<1>1. Init => AbortInv
  BY DEF Init, AbortInv
<1>2. AbortInv => AbortExplained
  BY DEF AbortInv, AbortExplained, Explains, LeftUnaccepted
<1>3. QED BY <1>1, <1>2, AbortStep, OnceCorrect, JobCorrect, PTL DEF Spec

-----------------------------------------------------------------------------
(* The broker implements the register service. *)

LEMMA PendingRespond ==
  ASSUME OnceInv, ~Between, NEW r, Respond(r), UNCHANGED <<op, commands>>
  PROVE  /\ current \in Call
         /\ Service!Reply(current, r)
<1>1. current \in Call
  BY DEF OnceInv, TypeOK
<1>2. reply' = [reply EXCEPT ![current] = r] /\ current' = Nobody
  BY DEF Respond
<1>3. \A c \in Call : Queued(c)' <=> Queued(c)
  BY DEF Queued
<1>4. current \in Pending
  BY <1>1 DEF Pending
<1>5. ~Queued(current)
  BY <1>1 DEF OnceInv, ExactlyOnce
<1>6. Pending' = Pending \ {current}
  BY <1>1, <1>2, <1>3, <1>5, CallAssumption DEF Pending, CallAssumption
<1>7. QED BY <1>1, <1>2, <1>4, <1>6 DEF Service!Reply

LEMMA PendingUnchanged ==
  ASSUME UNCHANGED <<commands, current>>
  PROVE  Pending' = Pending
BY DEF Pending, Queued

LEMMA ServiceStutter ==
  ASSUME UNCHANGED <<op, reply, commands, current, dormant, conn>>
  PROVE  UNCHANGED Service!vars
BY PendingUnchanged DEF Service!vars

\* The end of a read or write: the batch goes on, or the call is answered.
LEMMA ServiceFinish ==
  ASSUME OnceInv, ~Between, NEW r \in {"ok", "err"}, Finish(r) \/ Respond(r), r = "ok" => conn,
         op[current] \in Transfer, UNCHANGED <<op, commands, conn, dormant>>
  PROVE  Service!Next \/ UNCHANGED Service!vars
<1>1. CASE Finish(r) /\ left > 1
  <2>1. UNCHANGED <<reply, current>>
    BY <1>1 DEF Finish
  <2>2. QED BY <2>1, ServiceStutter
<1>2. CASE Respond(r) \/ ~(left > 1)
  <2>1. PICK q \in {"ok", "err"} : Respond(q) /\ (q = "ok" => conn)
    BY <1>2 DEF Finish
  <2>2. current \in Call /\ Service!Reply(current, q)
    BY <2>1, PendingRespond
  <2>3. Service!ReplyTransfer(current)
    BY <2>1, <2>2 DEF Service!ReplyTransfer, Transfer
  <2>4. QED BY <2>2, <2>3 DEF Service!Next
<1>3. QED BY <1>1, <1>2

LEMMA ServiceCaller ==
  ASSUME OnceInv, JobInv, NEW c \in Call, CallerStep(c)
  PROVE  Service!Next \/ UNCHANGED Service!vars
<1> USE DEF loopVars, linkVars
<1>1. CASE Start(c)
  <2>1. /\ op[c] = "none"
        /\ \E o \in OpsOf[c] : op' = [op EXCEPT ![c] = o]
        /\ UNCHANGED <<reply, commands, current, dormant, conn>>
    BY <1>1 DEF Start, JobInv
  <2>2. Service!Issue(c)
    BY <2>1, PendingUnchanged DEF Service!Issue
  <2>3. QED BY <2>2 DEF Service!Next
<1>2. CASE Enqueue(c)
  <2>1. /\ pc[c] = "sending" /\ commands' = Append(commands, c)
        /\ UNCHANGED <<op, reply, current, dormant, conn>>
    BY <1>2 DEF Enqueue, callVars
  <2>2. \A d \in Call : Queued(d)' <=> Queued(d) \/ d = c
    BY <2>1, AppendQueued DEF OnceInv
  <2>3. Pending' = Pending \cup {c}
    BY <2>1, <2>2 DEF Pending
  <2>4. ~Accepted(c) /\ op[c] # "none"
    BY <2>1 DEF OnceInv, ExactlyOnce, JobInv
  <2>5. c \notin Pending /\ reply[c] = "none"
    BY <2>4 DEF Accepted, Pending
  <2>6. Service!Accept(c)
    BY <2>1, <2>3, <2>4, <2>5 DEF Service!Accept
  <2>7. QED BY <2>6 DEF Service!Next
<1>3. CASE AbortDeadline(c) \/ Receive(c) \/ RefusedClosed(c) \/ GiveUp(c)
  BY <1>3, ServiceStutter DEF AbortDeadline, Receive, RefusedClosed, GiveUp, Return
<1>4. QED BY <1>1, <1>2, <1>3 DEF CallerStep

LEMMA ServiceTake ==
  ASSUME OnceInv, Take
  PROVE  UNCHANGED Service!vars
<1>1. /\ commands # <<>> /\ current' = Head(commands) /\ commands' = Tail(commands)
      /\ UNCHANGED <<op, reply, dormant, conn>>
  BY DEF Take, callVars, linkVars
<1>2. /\ Head(commands) \in Call /\ Queued(Head(commands))
      /\ \A d \in Call : Queued(d)' <=> Queued(d) /\ d # Head(commands)
  BY <1>1, TailQueued DEF OnceInv
<1>3. \A d \in Call : d # current
  BY CallAssumption DEF CallAssumption, OnceInv, Between, Take, At
<1>4. Pending' = Pending
  BY <1>1, <1>2, <1>3 DEF Pending
<1>5. QED BY <1>1, <1>4 DEF Service!vars

LEMMA ServiceRun ==
  ASSUME OnceInv, JobInv, LinkInv, RunStep
  PROVE  Service!Next \/ UNCHANGED Service!vars
<1> USE DEF callVars, linkVars, Executing, At, Between
<1>1. CASE Take BY <1>1, ServiceTake
<1>2. CASE Cleanup
  <2>1. Service!LinkDown
    BY <1>2, PendingUnchanged DEF Cleanup, Service!LinkDown
  <2>2. QED BY <2>1 DEF Service!Next
<1>3. CASE \/ AlreadyConnected \/ StartDial \/ DialFail \/ BackoffOver \/ BackoffCancelled
           \/ Transmit \/ Retry \/ RedialFail
  BY <1>3, ServiceStutter DEF AlreadyConnected, StartDial, DialFail, BackoffOver,
     BackoffCancelled, Transmit, Retry, RedialFail
<1>4. CASE CancelBatch \/ RefuseDormant
  BY <1>4, ServiceFinish DEF CancelBatch, RefuseDormant, Transfer
<1>5. CASE ReportCancelled \/ IllegalAddress \/ ReportFailure
  BY <1>5, ServiceFinish DEF ReportCancelled, IllegalAddress, ReportFailure, JobInv
<1>6. CASE TransferOk
  BY <1>6, ServiceFinish DEF TransferOk, JobInv, LinkInv
<1>7. CASE DialOk
  <2>1. ~dormant
    BY <1>7 DEF DialOk, LinkInv, DormantIsQuiet
  <2>2. current \in Pending
    BY <1>7 DEF DialOk, OnceInv, TypeOK, Pending
  <2>3. Service!LinkUp
    BY <1>7, <2>1, <2>2, PendingUnchanged DEF DialOk, Service!LinkUp
  <2>4. QED BY <2>3 DEF Service!Next
<1>8. CASE TransferFails
  <2>1. Service!LinkDown
    BY <1>8, PendingUnchanged DEF TransferFails, Service!LinkDown
  <2>2. QED BY <2>1 DEF Service!Next
<1>9. CASE ExecuteReconfigure
  <2>1. current \in Call /\ current \in Pending /\ op[current] = "reconfigure"
    BY <1>9 DEF ExecuteReconfigure, OnceInv, TypeOK, Pending
  <2>2. Service!Arm(current)
    BY <1>9, <2>1, PendingUnchanged DEF ExecuteReconfigure, Service!Arm
  <2>3. QED BY <2>1, <2>2 DEF Service!Next
<1>10. CASE RedialOk
  <2>1. ~dormant
    BY <1>10 DEF RedialOk, LinkInv, DormantIsQuiet
  <2>2. current \in Pending
    BY <1>10 DEF RedialOk, OnceInv, TypeOK, Pending
  <2>3. Service!LinkUp
    BY <1>10, <2>1, <2>2, PendingUnchanged DEF RedialOk, Service!LinkUp
  <2>4. QED BY <2>3 DEF Service!Next
<1>11. CASE AnswerReconfigure
  <2>1. PICK r \in {"ok", "err"} : Respond(r) /\ ((r = "ok") <=> conn)
    BY <1>11 DEF AnswerReconfigure
  <2>2. current \in Call /\ Service!Reply(current, r)
    BY <1>11, <2>1, PendingRespond DEF AnswerReconfigure
  <2>3. op[current] = "reconfigure" /\ ~dormant
    BY <1>11 DEF AnswerReconfigure, JobInv, LinkInv, DormantIsQuiet
  <2>4. UNCHANGED <<dormant, conn>>
    BY <1>11 DEF AnswerReconfigure
  <2>5. Service!ReplyReconfigure(current)
    BY <2>1, <2>2, <2>3, <2>4 DEF Service!ReplyReconfigure
  <2>6. QED BY <2>2, <2>5 DEF Service!Next
<1>12. CASE ExecuteDisconnect
  <2>1. current \in Call /\ current \in Pending /\ op[current] = "disconnect"
    BY <1>12 DEF ExecuteDisconnect, OnceInv, TypeOK, Pending
  <2>2. Service!Disarm(current)
    BY <1>12, <2>1, PendingUnchanged DEF ExecuteDisconnect, Service!Disarm
  <2>3. QED BY <2>1, <2>2 DEF Service!Next
<1>14. CASE AnswerDisconnect
  <2>1. current \in Call /\ Service!Reply(current, "ok")
    BY <1>14, PendingRespond DEF AnswerDisconnect
  <2>2. op[current] = "disconnect" /\ dormant /\ ~conn
    BY <1>14 DEF AnswerDisconnect, JobInv, LinkInv
  <2>3. Service!ReplyDisconnect(current)
    BY <1>14, <2>1, <2>2 DEF AnswerDisconnect, Service!ReplyDisconnect
  <2>4. QED BY <2>1, <2>3 DEF Service!Next
<1>15. CASE Store \/ Offer
  BY <1>15, ServiceStutter DEF Store, Offer, loopVars
<1>13. CASE ExecuteSetDelay
  <2>1. current \in Call /\ Service!Reply(current, "ok")
    BY <1>13, PendingRespond DEF ExecuteSetDelay
  <2>2. Service!ReplySetDelay(current)
    BY <1>13, <2>1 DEF ExecuteSetDelay, Service!ReplySetDelay
  <2>3. QED BY <2>1, <2>2 DEF Service!Next
<1>16. QED
  BY <1>1, <1>2, <1>3, <1>4, <1>5, <1>6, <1>7, <1>8, <1>9, <1>10, <1>11, <1>12, <1>13, <1>14,
     <1>15
  DEF RunStep, EndOfTransfer

LEMMA ServiceInit == Init => Service!Init
<1>1. Init => Pending = {}
  BY CallAssumption DEF Init, Pending, Queued, CallAssumption
<1>2. QED BY <1>1 DEF Init, Service!Init

LEMMA ServiceStep ==
  OnceInv /\ JobInv /\ LinkInv /\ [Next]_vars => [Service!Next]_(Service!vars)
<1>1. SUFFICES ASSUME OnceInv, JobInv, LinkInv, [Next]_vars
               PROVE  Service!Next \/ UNCHANGED Service!vars
  OBVIOUS
<1>2. CASE Surroundings \/ UNCHANGED vars
  BY <1>2, ServiceStutter
  DEF Surroundings, CancelRun, Close, Hear, vars, callVars, loopVars, linkVars
<1>3. QED BY <1>1, <1>2, ServiceCaller, ServiceRun DEF Next

\* Whatever the number of calls, the queue and event capacities and the attempts: the broker with its queue,
\* retries, reconnection and cancellation behaves like the register service.
THEOREM Refinement == Spec => ImplementsService
<1>1. Spec => Service!Init /\ [][Service!Next]_(Service!vars)
  BY ServiceInit, ServiceStep, OnceCorrect, JobCorrect, LinkCorrect, PTL DEF Spec
<1>2. QED BY <1>1 DEF ImplementsService, Service!Spec

-----------------------------------------------------------------------------
(* What the consumer of the state events knows. *)

LEMMA HeardKept ==
  ASSUME HeardIsCurrent, UNCHANGED <<stateCh, state, heard, lost, offering>>
  PROVE  HeardIsCurrent'
BY DEF HeardIsCurrent

\* An event that fits is the last one in the channel; one that does not fit is lost.
LEMMA HeardOffer ==
  ASSUME TypeOK, HeardIsCurrent, Offer
  PROVE  HeardIsCurrent'
<1>1. CASE Len(stateCh) < EventCap
  <2>1. stateCh' = Append(stateCh, state) /\ state' = state
    BY <1>1 DEF Offer
  <2>2. stateCh \in Seq(States)
    BY DEF TypeOK
  <2>3. stateCh' # <<>> /\ stateCh'[Len(stateCh')] = state
    BY <2>1, <2>2
  <2>4. QED BY <2>1, <2>3 DEF HeardIsCurrent
<1>2. CASE ~(Len(stateCh) < EventCap)
  BY <1>2 DEF Offer, HeardIsCurrent
<1>3. QED BY <1>1, <1>2

\* The last element of a tail is the last of the sequence.
LEMMA TailFacts ==
  ASSUME NEW S, NEW q \in Seq(S), q # <<>>
  PROVE  /\ Len(q) = 1 => Tail(q) = <<>> /\ Head(q) = q[Len(q)]
         /\ Len(q) # 1 => Tail(q) # <<>> /\ Tail(q)[Len(Tail(q))] = q[Len(q)]
<1>1. Len(q) \in Nat \ {0} /\ Tail(q) \in Seq(S) /\ Head(q) = q[1]
  OBVIOUS
<1>2. Len(Tail(q)) = Len(q) - 1
  OBVIOUS
<1>3. \A i \in 1..(Len(q) - 1) : Tail(q)[i] = q[i + 1]
  OBVIOUS
<1>4. \A t \in Seq(S) : t = <<>> <=> Len(t) = 0
  OBVIOUS
<1>5. CASE Len(q) = 1
  <2>1. Len(Tail(q)) = 0
    BY <1>2, <1>5
  <2>2. Tail(q) = <<>>
    BY <1>1, <1>4, <2>1
  <2>3. QED BY <1>1, <1>5, <2>2
<1>6. CASE Len(q) # 1
  <2>1. Len(Tail(q)) \in 1..(Len(q) - 1) /\ Len(Tail(q)) + 1 = Len(q) /\ Len(Tail(q)) # 0
    BY <1>1, <1>2, <1>6
  <2>2. Tail(q) # <<>>
    BY <1>1, <1>4, <2>1
  <2>3. QED BY <1>3, <1>6, <2>1, <2>2
<1>7. QED BY <1>5, <1>6

LEMMA HeardHear ==
  ASSUME TypeOK, HeardIsCurrent, Hear
  PROVE  HeardIsCurrent'
<1>1. /\ stateCh # <<>> /\ heard' = Head(stateCh) /\ stateCh' = Tail(stateCh)
      /\ UNCHANGED <<state, lost, offering>>
  BY DEF Hear
<1>2. stateCh \in Seq(States) /\ Len(stateCh) \in Nat \ {0}
  BY <1>1 DEF TypeOK
<1>3. ~lost /\ ~offering => stateCh[Len(stateCh)] = state
  BY <1>1 DEF HeardIsCurrent
<1>4. CASE Len(stateCh) = 1
  <2>1. Tail(stateCh) = <<>> /\ Head(stateCh) = stateCh[Len(stateCh)]
    BY <1>2, <1>4, TailFacts
  <2>2. QED BY <1>1, <1>3, <2>1 DEF HeardIsCurrent
<1>5. CASE Len(stateCh) # 1
  <2>1. Tail(stateCh) # <<>> /\ Tail(stateCh)[Len(Tail(stateCh))] = stateCh[Len(stateCh)]
    BY <1>2, <1>5, TailFacts
  <2>2. QED BY <1>1, <1>3, <2>1 DEF HeardIsCurrent
<1>6. QED BY <1>4, <1>5

LEMMA HeardRun ==
  ASSUME TypeOK, HeardIsCurrent, RunStep
  PROVE  HeardIsCurrent'
<1> USE DEF eventVars, envVars, States
<1>1. CASE Take \/ CancelBatch \/ AlreadyConnected \/ RefuseDormant \/ BackoffOver \/ Transmit
  BY <1>1, HeardKept
  DEF Take, CancelBatch, AlreadyConnected, RefuseDormant, BackoffOver, Transmit
<1>2. CASE TransferOk \/ IllegalAddress \/ Retry \/ ReportFailure \/ ExecuteSetDelay
  BY <1>2, HeardKept DEF TransferOk, IllegalAddress, Retry, ReportFailure, ExecuteSetDelay
<1>3. CASE Cleanup \/ StartDial \/ DialOk \/ DialFail \/ BackoffCancelled \/ ReportCancelled
  BY <1>3, HeardKept
  DEF Cleanup, StartDial, DialOk, DialFail, BackoffCancelled, ReportCancelled
<1>4. CASE TransferFails
  BY <1>4, HeardKept DEF TransferFails
<1>5. CASE ExecuteReconfigure \/ RedialOk \/ RedialFail \/ ExecuteDisconnect
  BY <1>5, HeardKept DEF ExecuteReconfigure, RedialOk, RedialFail, ExecuteDisconnect
<1>6. CASE AnswerReconfigure \/ AnswerDisconnect
  BY <1>6, HeardKept DEF AnswerReconfigure, AnswerDisconnect
<1>7. CASE Store BY <1>7 DEF Store, HeardIsCurrent
<1>8. CASE Offer BY <1>8, HeardOffer
<1>9. QED BY <1>1, <1>2, <1>3, <1>4, <1>5, <1>6, <1>7, <1>8 DEF RunStep, EndOfTransfer

\* A consumer that has drained the channel knows the broker's state unless an event was dropped, however the
\* retries, redials and disconnects of Run interleave with its receives.
THEOREM HeardCorrect == Spec => []HeardIsCurrent
<1>1. Init => HeardIsCurrent
  BY DEF Init, HeardIsCurrent
<1>2. TypeOK /\ HeardIsCurrent /\ [Next]_vars => HeardIsCurrent'
  <2>1. SUFFICES ASSUME TypeOK, HeardIsCurrent, [Next]_vars PROVE HeardIsCurrent'
    OBVIOUS
  <2>2. CASE \E c \in Call : CallerStep(c)
    <3>1. UNCHANGED <<news, eventVars, envVars>>
      BY <2>2 DEF CallerStep, Start, AbortDeadline, Enqueue, Receive, RefusedClosed, GiveUp, Return
    <3>2. QED BY <2>1, <3>1, HeardKept DEF eventVars, envVars
  <2>3. CASE CancelRun \/ Close \/ UNCHANGED vars
    BY <2>1, <2>3, HeardKept DEF CancelRun, Close, vars, eventVars, envVars
  <2>4. QED BY <2>1, <2>2, <2>3, HeardRun, HeardHear DEF Next, Surroundings
<1>3. QED BY <1>1, <1>2, TypeCorrect, PTL DEF Spec

-----------------------------------------------------------------------------
(* What a call puts on the wire. *)

\* The reads or writes of an operation, and the attempts each of them has.
Parts(o)    == IF o = "batch" THEN BatchSize ELSE 1
Attempts(o) == IF o = "write" THEN WriteAttempts ELSE ReadAttempts

\* The attempts the transfer in execution has made: those of the parts that are over, and those of this part.
Used ==
  (Parts(op[current]) - left) * Attempts(op[current])
    + (IF at \in {"io", "failed"} THEN attempt ELSE attempt - 1)

\* Each attempt transmits at most once, and a part that did not fail has transmitted.
Progress ==
  /\ left \in 1..Parts(op[current])
  /\ attempt \in 1..Attempts(op[current])
  /\ sent[current] <= Used
  /\ ~failed => sent[current] >= (Parts(op[current]) - left) + (IF at = "io" THEN 1 ELSE 0)

Least(o) == IF o \in Transfer THEN Parts(o) ELSE 0

Within(c) == sent[c] <= Budget(op[c]) /\ (reply[c] = "ok" => sent[c] >= Least(op[c]))

WireInv ==
  /\ \A c \in Call : c # current /\ reply[c] = "none" => sent[c] = 0
  /\ \A c \in Call : c # current => Within(c)
  /\ ~Between => IF op[current] \in Transfer THEN Progress ELSE sent[current] = 0

LEMMA PartsAttempts ==
  ASSUME NEW o \in Op
  PROVE  /\ Parts(o) \in Nat \ {0} /\ Parts(o) <= BatchSize
         /\ Attempts(o) \in Nat \ {0}
         /\ o \in Transfer => Budget(o) = Parts(o) * Attempts(o)
         /\ o \notin Transfer => Budget(o) = 0
<1>1. Parts(o) \in Nat \ {0} /\ Parts(o) <= BatchSize /\ Attempts(o) \in Nat \ {0}
  BY LimitsAssumption DEF LimitsAssumption, Parts, Attempts
<1>2. CASE o = "read" BY <1>1, <1>2 DEF Parts, Attempts, Budget, Transfer
<1>3. CASE o = "write" BY <1>1, <1>3 DEF Parts, Attempts, Budget, Transfer
<1>4. CASE o = "batch" BY <1>1, <1>4 DEF Parts, Attempts, Budget, Transfer
<1>5. CASE o \notin Transfer
  <2>1. Budget(o) = 0
    BY <1>5 DEF Budget, Transfer
  <2>2. QED BY <1>1, <1>5, <2>1
<1>6. QED BY <1>2, <1>3, <1>4, <1>5 DEF Transfer

LEMMA UnusedWithin ==
  ASSUME NEW c \in Call, op[c] \in Op \cup {"none"}, sent[c] = 0, reply[c] # "ok"
  PROVE  Within(c)
<1>1. Budget("none") = 0
  BY DEF Budget
<1>2. Budget(op[c]) \in Nat
  <2>1. CASE op[c] = "none" BY <2>1, <1>1
  <2>2. CASE op[c] \in Op
    <3>1. \A a, b \in Nat : a * b \in Nat
      OBVIOUS
    <3>2. QED BY <2>2, <3>1, PartsAttempts
  <2>3. QED BY <2>1, <2>2
<1>3. QED BY <1>2 DEF Within

\* A step that touches neither the transfer in execution, nor a counter, nor a response.
LEMMA WireQuiet ==
  ASSUME WireInv, UNCHANGED <<op, reply, current, attempt, left, failed, sent>>,
         Between' <=> Between,
         at' = at \/ (at' \notin {"io", "failed"} /\ at \notin {"io", "failed"})
  PROVE  WireInv'
BY DEF WireInv, Within, Progress, Used

\* The bound at the end of a part, where the current attempt has been counted.
LEMMA PartOver ==
  ASSUME OnceInv, JobInv, WireInv, ~Between, op[current] \in Transfer
  PROVE  /\ current \in Call
         /\ op[current] \in Op
         /\ left \in 1..Parts(op[current])
         /\ sent[current] \in Nat
         /\ sent[current] <= (Parts(op[current]) - left + 1) * Attempts(op[current])
<1>1. current \in Call /\ op[current] \in Op /\ sent[current] \in Nat
  BY DEF OnceInv, TypeOK, Op
<1>2. Parts(op[current]) \in Nat \ {0} /\ Attempts(op[current]) \in Nat \ {0}
  BY <1>1, PartsAttempts
<1>3. Progress
  BY DEF WireInv
<1>4. left \in 1..Parts(op[current]) /\ attempt \in 1..Attempts(op[current])
  BY <1>3 DEF Progress
<1>5. PICK k \in Nat : k = Parts(op[current]) - left
  BY <1>2, <1>4
<1>6. k * Attempts(op[current]) \in Nat
      /\ (k + 1) * Attempts(op[current]) = k * Attempts(op[current]) + Attempts(op[current])
  BY <1>2
<1>7. sent[current] <= k * Attempts(op[current]) + attempt
  BY <1>1, <1>3, <1>4, <1>5, <1>6 DEF Progress, Used
<1>8. QED BY <1>1, <1>2, <1>4, <1>5, <1>6, <1>7

LEMMA WithinOver ==
  ASSUME OnceInv, JobInv, WireInv, ~Between, op[current] \in Transfer
  PROVE  sent[current] <= Budget(op[current])
<1>1. PICK p \in Nat \ {0}, a \in Nat \ {0} :
        p = Parts(op[current]) /\ a = Attempts(op[current])
  BY PartOver, PartsAttempts
<1>2. Budget(op[current]) = p * a
  BY <1>1, PartOver, PartsAttempts
<1>3. PICK k \in 1..p : k = p - left + 1 /\ sent[current] <= k * a
  BY <1>1, PartOver
<1>4. k * a <= p * a
  <2>1. PICK d \in Nat : p = k + d
    <3>1. p - k \in Nat /\ p = k + (p - k)
      BY <1>1, <1>3
    <3>2. QED BY <3>1
  <2>2. p * a = k * a + d * a /\ d * a \in Nat /\ k * a \in Nat
    BY <2>1, <1>1, <1>3
  <2>3. QED BY <2>2
<1>5. sent[current] \in Nat /\ k * a \in Nat /\ p * a \in Nat
  BY <1>1, <1>3, PartOver
<1>6. QED BY <1>2, <1>3, <1>4, <1>5

\* The command is answered: what it sent is within its budget, and a success has been transmitted.
LEMMA WireRespond ==
  ASSUME OnceInv, JobInv, WireInv, ~Between, NEW r \in {"ok", "err"}, Respond(r),
         UNCHANGED <<op, sent>>,
         r = "ok" => sent[current] >= Least(op[current])
  PROVE  WireInv'
<1>1. current \in Call /\ op[current] \in Op \cup {"none"} /\ sent[current] \in Nat
  BY DEF OnceInv, TypeOK
<1>2. /\ reply' = [reply EXCEPT ![current] = r]
      /\ current' = Nobody /\ at' = "select"
  BY DEF Respond
<1>3. \A c \in Call : reply'[c] = IF c = current THEN r ELSE reply[c]
  BY <1>1, <1>2 DEF OnceInv, TypeOK
<1>4. sent[current] <= Budget(op[current])
  <2>1. CASE op[current] \in Transfer BY <2>1, WithinOver
  <2>2. CASE op[current] \notin Transfer
    <3>1. sent[current] = 0
      BY <2>2 DEF WireInv
    <3>2. Budget(op[current]) = 0
      BY <2>2 DEF Budget, Transfer
    <3>3. QED BY <3>1, <3>2
  <2>3. QED BY <2>1, <2>2
<1>5. ASSUME NEW c \in Call PROVE Within(c)'
  <2>1. CASE c = current BY <1>3, <1>4, <2>1 DEF Within
  <2>2. CASE c # current BY <1>3, <2>2 DEF Within, WireInv
  <2>3. QED BY <2>1, <2>2
<1>6. \A c \in Call : reply'[c] = "none" => sent'[c] = 0
  BY <1>3 DEF WireInv
<1>7. QED BY <1>2, <1>5, <1>6 DEF WireInv, Between

\* One read or write is over: a batch goes on with a full number of attempts for its next part.
LEMMA WireFinish ==
  ASSUME OnceInv, JobInv, WireInv, ~Between, op[current] \in Transfer,
         NEW r \in {"ok", "err"}, Finish(r), UNCHANGED <<op, sent>>,
         r = "ok" => at = "io"
  PROVE  WireInv'
<1>1. /\ current \in Call /\ op[current] \in Op
      /\ left \in 1..Parts(op[current]) /\ sent[current] \in Nat
      /\ sent[current] <= (Parts(op[current]) - left + 1) * Attempts(op[current])
  BY PartOver
<1>2. /\ Parts(op[current]) \in Nat \ {0}
      /\ Attempts(op[current]) \in Nat \ {0}
  BY <1>1, PartsAttempts
<1>3. ~failed => sent[current] >= (Parts(op[current]) - left) + (IF at = "io" THEN 1 ELSE 0)
  BY DEF WireInv, Progress
<1>4. CASE left > 1
  <2>1. /\ UNCHANGED <<reply, current>> /\ at' = "execute"
        /\ attempt' = 1 /\ left' = left - 1
        /\ failed' = (failed \/ r = "err")
    BY <1>4 DEF Finish
  <2>2. left' \in 1..Parts(op[current]) /\ attempt' \in 1..Attempts(op[current])
    BY <1>1, <1>2, <1>4, <2>1
  <2>3. sent[current] <= (Parts(op[current]) - left') * Attempts(op[current]) + (attempt' - 1)
    <3>1. Parts(op[current]) - left' = Parts(op[current]) - left + 1 /\ attempt' - 1 = 0
      BY <1>1, <1>2, <2>1
    <3>2. (Parts(op[current]) - left + 1) * Attempts(op[current]) \in Int
      BY <1>1, <1>2
    <3>3. QED BY <1>1, <3>1, <3>2
  <2>4. ~failed' => sent[current] >= (Parts(op[current]) - left')
    <3>1. ~failed' => ~failed /\ r = "ok"
      BY <2>1
    <3>2. ~failed' => sent[current] >= (Parts(op[current]) - left) + 1
      BY <1>3, <3>1
    <3>3. QED BY <1>1, <1>2, <2>1, <3>2
  <2>5. Progress'
    BY <1>1, <1>2, <2>1, <2>2, <2>3, <2>4 DEF Progress, Used
  <2>6. QED BY <2>1, <2>5 DEF WireInv, Within, Between
<1>5. CASE ~(left > 1)
  <2>1. left = 1
    BY <1>1, <1>2, <1>5
  <2>2. Respond(IF failed THEN "err" ELSE r)
    BY <1>5 DEF Finish
  <2>3. ~failed /\ r = "ok" => sent[current] >= Least(op[current])
    BY <1>1, <1>2, <1>3, <2>1 DEF Least
  <2>4. CASE failed BY <2>2, <2>4, WireRespond
  <2>5. CASE ~failed BY <2>2, <2>3, <2>5, WireRespond
  <2>6. QED BY <2>4, <2>5
<1>6. QED BY <1>4, <1>5

LEMMA WireCaller ==
  ASSUME OnceInv, JobInv, WireInv, NEW c \in Call, CallerStep(c)
  PROVE  WireInv'
<1> USE DEF loopVars
<1>1. CASE Start(c)
  <2>1. pc[c] = "idle" /\ UNCHANGED <<reply, loopVars, sent>>
    BY <1>1 DEF Start
  <2>2. ~Accepted(c)
    BY <2>1 DEF OnceInv, ExactlyOnce
  <2>3. c # current /\ reply[c] = "none" /\ sent[c] = 0
    BY <2>2 DEF Accepted, WireInv
  <2>4. PICK o \in OpsOf[c] : op' = [op EXCEPT ![c] = o]
    BY <1>1 DEF Start
  <2>5. o \in Op /\ \A d \in Call : op'[d] = IF d = c THEN o ELSE op[d]
    BY <2>4, CallAssumption DEF CallAssumption, OnceInv, TypeOK
  <2>6. Within(c)'
    <3>1. Budget(o) \in Nat
      <4>1. \A a, b \in Nat : a * b \in Nat
        OBVIOUS
      <4>2. QED BY <2>5, <4>1, PartsAttempts
    <3>2. QED BY <2>1, <2>3, <2>5, <3>1 DEF Within
  <2>7. \A d \in Call : d # c /\ d # current => Within(d)'
    BY <2>1, <2>5 DEF Within, WireInv
  <2>8. ~Between => op'[current] = op[current]
    BY <2>3, <2>5 DEF OnceInv, TypeOK
  <2>9. ~Between' => IF op'[current'] \in Transfer THEN Progress' ELSE sent'[current'] = 0
    BY <2>1, <2>8 DEF WireInv, Progress, Used, Between
  <2>10. \A d \in Call : d # current' /\ reply'[d] = "none" => sent'[d] = 0
    BY <2>1 DEF WireInv
  <2>11. \A d \in Call : d # current' => Within(d)'
    BY <2>1, <2>6, <2>7
  <2>12. QED BY <2>9, <2>10, <2>11 DEF WireInv
<1>2. CASE AbortDeadline(c) \/ Enqueue(c) \/ Receive(c) \/ RefusedClosed(c) \/ GiveUp(c)
  <2>1. UNCHANGED <<op, reply, loopVars, sent>>
    BY <1>2 DEF AbortDeadline, Enqueue, Receive, RefusedClosed, GiveUp, Return
  <2>2. QED BY <2>1, WireQuiet DEF Between
<1>3. QED BY <1>1, <1>2 DEF CallerStep

LEMMA WireTake ==
  ASSUME OnceInv, JobInv, WireInv, Take
  PROVE  WireInv'
<1>1. /\ at = "select" /\ at' = "execute" /\ commands # <<>>
      /\ current' = Head(commands) /\ commands' = Tail(commands)
      /\ attempt' = 1
      /\ left' = IF op[current'] = "batch" THEN BatchSize ELSE 1
      /\ UNCHANGED <<op, reply, sent>>
  BY DEF Take, At, callVars
<1>2. Head(commands) \in Call /\ Queued(Head(commands))
  BY <1>1, TailQueued DEF OnceInv
<1>3. PICK c \in Call : c = current' /\ Queued(c)
  BY <1>1, <1>2
<1>4. \A d \in Call : d # current
  BY <1>1, CallAssumption DEF CallAssumption, OnceInv, Between
<1>5. reply[c] = "none" /\ sent[c] = 0
  BY <1>3, <1>4 DEF OnceInv, ExactlyOnce, WireInv
<1>6. ASSUME op[c] \in Transfer PROVE Progress'
  <2>1. op[c] \in Op
    BY <1>6 DEF Op
  <2>2. Parts(op[c]) \in Nat \ {0} /\ Attempts(op[c]) \in Nat \ {0}
    BY <2>1, PartsAttempts
  <2>3. left' = Parts(op[c])
    BY <1>1, <1>3 DEF Parts
  <2>4. (Parts(op[c]) - left') * Attempts(op[c]) = 0
    <3>1. Parts(op[c]) - left' = 0
      BY <2>2, <2>3
    <3>2. 0 * Attempts(op[c]) = 0
      BY <2>2
    <3>3. QED BY <3>1, <3>2
  <2>5. QED BY <1>1, <1>3, <1>5, <2>2, <2>3, <2>4 DEF Progress, Used
<1>7. QED BY <1>1, <1>3, <1>4, <1>5, <1>6 DEF WireInv, Within

\* Between two attempts: the attempt is on the wire, and the next one starts only within the limit.
LEMMA WireTransmit ==
  ASSUME OnceInv, JobInv, WireInv, Transmit
  PROVE  WireInv'
<1>1. /\ at = "ready" /\ at' = "io"
      /\ sent' = [sent EXCEPT ![current] = sent[current] + 1]
      /\ UNCHANGED <<op, reply, current, attempt, left, failed>>
  BY DEF Transmit, At, callVars
<1>2. op[current] \in Transfer /\ current \in Call
  BY <1>1 DEF JobInv, OnceInv, TypeOK, Between
<1>3. /\ sent'[current] = sent[current] + 1 /\ sent[current] \in Nat
      /\ \A c \in Call : c # current => sent'[c] = sent[c]
  BY <1>1, <1>2 DEF OnceInv, TypeOK
<1>4. /\ Parts(op[current]) \in Nat \ {0}
      /\ Attempts(op[current]) \in Nat \ {0}
  BY <1>2, PartsAttempts DEF Op
<1>5. Progress
  BY <1>1, <1>2 DEF WireInv, Between
<1>6. left \in 1..Parts(op[current]) /\ attempt \in 1..Attempts(op[current])
  BY <1>5 DEF Progress
<1>7. PICK m \in Int : m = (Parts(op[current]) - left) * Attempts(op[current])
  BY <1>4, <1>6
<1>8. sent[current] <= m + (attempt - 1)
  BY <1>1, <1>5, <1>7 DEF Progress, Used
<1>9. sent'[current] <= m + attempt
  BY <1>3, <1>6, <1>7, <1>8
<1>10. ~failed => sent'[current] >= (Parts(op[current]) - left) + 1
  BY <1>1, <1>3, <1>4, <1>5, <1>6 DEF Progress
<1>11. Progress'
  BY <1>1, <1>6, <1>7, <1>9, <1>10 DEF Progress, Used
<1>12. QED BY <1>1, <1>2, <1>3, <1>11 DEF WireInv, Within, Between

LEMMA WireRetry ==
  ASSUME OnceInv, JobInv, WireInv, Retry
  PROVE  WireInv'
<1>1. /\ at = "failed" /\ at' = "execute" /\ ~NoMoreAttempts
      /\ attempt' = attempt + 1
      /\ UNCHANGED <<op, reply, current, left, failed, sent>>
  BY DEF Retry, At, callVars
<1>2. op[current] \in Transfer /\ current \in Call
  BY <1>1 DEF JobInv, OnceInv, TypeOK, Between
<1>3. Attempts(op[current]) \in Nat \ {0} /\ Parts(op[current]) \in Nat \ {0}
  BY <1>2, PartsAttempts DEF Op
<1>4. Progress
  BY <1>1, <1>2 DEF WireInv, Between
<1>5. left \in 1..Parts(op[current]) /\ attempt \in 1..Attempts(op[current])
  BY <1>4 DEF Progress
<1>6. attempt # Attempts(op[current])
  BY <1>1, <1>2 DEF NoMoreAttempts, Attempts
<1>7. attempt' \in 1..Attempts(op[current]) /\ attempt' - 1 = attempt
  BY <1>1, <1>3, <1>5, <1>6
<1>8. sent[current] <= (Parts(op[current]) - left) * Attempts(op[current]) + (attempt' - 1)
  BY <1>1, <1>4, <1>7 DEF Progress, Used
<1>9. ~failed => sent[current] >= (Parts(op[current]) - left) + 0
  BY <1>1, <1>4 DEF Progress
<1>10. Progress'
  BY <1>1, <1>5, <1>7, <1>8, <1>9 DEF Progress, Used
<1>11. QED BY <1>1, <1>2, <1>10 DEF WireInv, Within, Between

\* The failed attempt stays counted.
LEMMA WireFails ==
  ASSUME OnceInv, JobInv, WireInv, TransferFails
  PROVE  WireInv'
<1>1. /\ at = "io" /\ at' = "failed"
      /\ UNCHANGED <<op, reply, current, attempt, left, failed, sent>>
  BY DEF TransferFails, At, callVars
<1>2. op[current] \in Transfer /\ current \in Call /\ sent[current] \in Nat
  BY <1>1 DEF JobInv, OnceInv, TypeOK, Between
<1>3. Parts(op[current]) \in Nat \ {0}
  BY <1>2, PartsAttempts DEF Op
<1>4. Progress
  BY <1>1, <1>2 DEF WireInv, Between
<1>5. left \in 1..Parts(op[current])
  BY <1>4 DEF Progress
<1>6. Progress'
  BY <1>1, <1>2, <1>3, <1>4, <1>5 DEF Progress, Used
<1>7. QED BY <1>1, <1>2, <1>6 DEF WireInv, Within, Between

\* A command that transmits nothing is answered.
LEMMA WireOther ==
  ASSUME OnceInv, JobInv, WireInv, ~Between, op[current] \notin Transfer,
         NEW r \in {"ok", "err"}, Respond(r), UNCHANGED <<op, sent>>
  PROVE  WireInv'
<1>1. sent[current] = 0 /\ Least(op[current]) = 0
  BY DEF WireInv, Least
<1>2. QED BY <1>1, WireRespond

LEMMA WireRun ==
  ASSUME OnceInv, JobInv, WireInv, RunStep
  PROVE  WireInv'
<1> USE DEF callVars, Executing, At, Between, Transfer
<1>1. CASE Take BY <1>1, WireTake
<1>2. CASE Cleanup \/ AlreadyConnected \/ StartDial \/ DialOk \/ DialFail \/ BackoffOver
  BY <1>2, WireQuiet DEF Cleanup, AlreadyConnected, StartDial, DialOk, DialFail, BackoffOver
<1>3. CASE CancelBatch
  BY <1>3, WireRespond DEF CancelBatch
<1>4. CASE RefuseDormant BY <1>4, WireFinish DEF RefuseDormant
<1>5. CASE ReportCancelled BY <1>5, WireFinish DEF ReportCancelled, JobInv
<1>6. CASE Transmit BY <1>6, WireTransmit
<1>7. CASE TransferOk \/ IllegalAddress
  BY <1>7, WireFinish DEF TransferOk, IllegalAddress, JobInv
<1>8. CASE TransferFails BY <1>8, WireFails
<1>9. CASE Retry BY <1>9, WireRetry
<1>10. CASE ReportFailure BY <1>10, WireFinish DEF ReportFailure, JobInv
<1>11. CASE ExecuteReconfigure BY <1>11, WireQuiet DEF ExecuteReconfigure
<1>12. CASE BackoffCancelled \/ RedialOk \/ RedialFail \/ ExecuteDisconnect
  BY <1>12, WireQuiet DEF BackoffCancelled, RedialOk, RedialFail, ExecuteDisconnect
<1>13. CASE AnswerReconfigure \/ AnswerDisconnect \/ ExecuteSetDelay
  BY <1>13, WireOther DEF AnswerReconfigure, AnswerDisconnect, ExecuteSetDelay, JobInv
<1>14. CASE Store \/ Offer BY <1>14, WireQuiet DEF Store, Offer, loopVars
<1>15. QED
  BY <1>1, <1>2, <1>3, <1>4, <1>5, <1>6, <1>7, <1>8, <1>9, <1>10, <1>11, <1>12, <1>13, <1>14
  DEF RunStep, EndOfTransfer

LEMMA WireInit == Init => WireInv
<1>1. SUFFICES ASSUME Init PROVE WireInv
  OBVIOUS
<1>2. \A c \in Call : sent[c] = 0 /\ reply[c] = "none" /\ op[c] = "none"
  BY <1>1 DEF Init
<1>3. \A c \in Call : Within(c)
  BY <1>2, UnusedWithin
<1>4. QED BY <1>1, <1>2, <1>3 DEF Init, WireInv, Between

LEMMA WireStep == OnceInv /\ JobInv /\ WireInv /\ [Next]_vars => WireInv'
<1>1. SUFFICES ASSUME OnceInv, JobInv, WireInv, [Next]_vars PROVE WireInv'
  OBVIOUS
<1>2. CASE Surroundings \/ UNCHANGED vars
  BY <1>1, <1>2, WireQuiet
  DEF Surroundings, CancelRun, Close, Hear, vars, callVars, loopVars, Between
<1>3. QED BY <1>1, <1>2, WireCaller, WireRun DEF Next

\* In every reachable state the transfer in execution has used no more attempts than it had.
THEOREM WireCorrect == Spec => []WireInv
BY WireInit, WireStep, OnceCorrect, JobCorrect, PTL DEF Spec

\* A call goes on the wire at most as often as its attempts allow, whatever the sizes of a batch and the limits
\* of the retries; one answered "ok" was transmitted for each of its reads; no other command transmits.
THEOREM BudgetKept == Spec => []TransmissionsInBudget
<1>1. OnceInv /\ JobInv /\ WireInv => TransmissionsInBudget
  <2>1. SUFFICES ASSUME OnceInv, JobInv, WireInv, NEW c \in Call PROVE
          /\ sent[c] <= Budget(op[c])
          /\ reply[c] = "ok" => sent[c] >= Least(op[c])
    BY DEF TransmissionsInBudget, Least, Parts, Transfer
  <2>2. CASE c # current
    BY <2>1, <2>2 DEF WireInv, Within
  <2>3. CASE c = current
    <3>1. ~Between /\ reply[c] = "none"
      BY <2>1, <2>3, CallAssumption DEF CallAssumption, OnceInv, ExactlyOnce
    <3>2. CASE op[c] \in Transfer BY <2>1, <2>3, <3>1, <3>2, WithinOver
    <3>3. CASE op[c] \notin Transfer
      <4>1. sent[c] = 0 /\ Budget(op[c]) = 0
        BY <2>1, <2>3, <3>1, <3>3 DEF WireInv, Budget, Transfer
      <4>2. QED BY <3>1, <4>1
    <3>4. QED BY <3>2, <3>3
  <2>4. QED BY <2>2, <2>3
<1>2. QED BY <1>1, WireCorrect, OnceCorrect, JobCorrect, PTL
=============================================================================
