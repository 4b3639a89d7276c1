--------------------------- MODULE RegisterService ---------------------------
(***************************************************************************)
(* What internal/broker promises to the rest of the program, without its   *)
(* queue, its retries and its goroutine.                                   *)
(*                                                                         *)
(* A call is issued, accepted, and answered at most once.  The link to the *)
(* inverter may be up only while the service is armed: Reconfigure arms    *)
(* it, Disconnect disarms it and takes the link down, and both only answer *)
(* when that has happened.  A transfer succeeds only over a link that is   *)
(* up, and Reconfigure succeeds exactly when it leaves the link up.        *)
(***************************************************************************)
CONSTANTS Call, OpsOf

VARIABLES
  asked,    \* the operation each issued call asks for
  pending,  \* calls accepted and not answered yet
  answer,   \* the answer of each call
  armed,    \* the link may be (re-)established
  link      \* the link is up

vars == <<asked, pending, answer, armed, link>>

Init ==
  /\ asked = [c \in Call |-> "none"]
  /\ pending = {}
  /\ answer = [c \in Call |-> "none"]
  /\ armed = FALSE
  /\ link = FALSE

Issue(c) ==
  /\ asked[c] = "none"
  /\ \E o \in OpsOf[c] : asked' = [asked EXCEPT ![c] = o]
  /\ UNCHANGED <<pending, answer, armed, link>>

Accept(c) ==
  /\ asked[c] # "none"
  /\ c \notin pending
  /\ answer[c] = "none"
  /\ pending' = pending \cup {c}
  /\ UNCHANGED <<asked, answer, armed, link>>

LinkUp   == armed /\ pending # {} /\ link' = TRUE  /\ UNCHANGED <<asked, pending, answer, armed>>
LinkDown == link' = FALSE /\ UNCHANGED <<asked, pending, answer, armed>>

\* Reconfigure begins: from now on the link may come up.
Arm(c) ==
  /\ c \in pending /\ asked[c] = "reconfigure"
  /\ armed' = TRUE
  /\ link' = FALSE
  /\ UNCHANGED <<asked, pending, answer>>

\* Disconnect begins: the link is down, and stays down until the next Reconfigure.
Disarm(c) ==
  /\ c \in pending /\ asked[c] = "disconnect"
  /\ armed' = FALSE
  /\ link' = FALSE
  /\ UNCHANGED <<asked, pending, answer>>

Reply(c, result) ==
  /\ c \in pending
  /\ pending' = pending \ {c}
  /\ answer' = [answer EXCEPT ![c] = result]
  /\ UNCHANGED asked

ReplyTransfer(c) ==
  /\ asked[c] \in {"read", "write", "batch"}
  /\ \/ Reply(c, "ok") /\ link
     \/ Reply(c, "err")
  /\ UNCHANGED <<armed, link>>

ReplyReconfigure(c) ==
  /\ asked[c] = "reconfigure" /\ armed
  /\ \/ Reply(c, "ok") /\ link
     \/ Reply(c, "err") /\ ~link
  /\ UNCHANGED <<armed, link>>

ReplyDisconnect(c) ==
  /\ asked[c] = "disconnect" /\ ~armed /\ ~link
  /\ Reply(c, "ok")
  /\ UNCHANGED <<armed, link>>

ReplySetDelay(c) ==
  /\ asked[c] = "setdelay"
  /\ Reply(c, "ok")
  /\ UNCHANGED <<armed, link>>

Next ==
  \/ LinkUp \/ LinkDown
  \/ \E c \in Call : \/ Issue(c) \/ Accept(c) \/ Arm(c) \/ Disarm(c)
                     \/ ReplyTransfer(c) \/ ReplyReconfigure(c)
                     \/ ReplyDisconnect(c) \/ ReplySetDelay(c)

Spec == Init /\ [][Next]_vars
=============================================================================
