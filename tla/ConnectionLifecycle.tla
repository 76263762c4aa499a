------------------------ MODULE ConnectionLifecycle ------------------------
(***************************************************************************)
(* What a connection promises to the application that asked for it         *)
(* (silcclient.h, SilcClientConnectCallback and the operation returned by  *)
(* silc_client_connect_to_server): the callback is called at most once     *)
(* with a success, and then once more, or instead, when the connection is  *)
(* closed, never with a success; after the application has aborted the     *)
(* connecting it is not called at all; a connection is deleted only after  *)
(* the application has been told; and one that is asked to close does.     *)
(* Nothing is promised of a connection whose event thread was disturbed.   *)
(***************************************************************************)
EXTENDS Sequences

CONSTANTS Successes, Failures   \* statuses the callback may be given

VARIABLES phase,   \* connecting, aborted, up, closed, gone, undefined
          closing, \* the connection has been asked to close
          told     \* the statuses given to the callback so far

lifecycle == <<phase, closing, told>>

Init == phase = "connecting" /\ closing = FALSE /\ told = <<>>

(* The application aborts an attempt it has not been told the outcome of. *)
Abort ==
  /\ phase = "connecting"
  /\ phase' = "aborted" /\ closing' = TRUE
  /\ UNCHANGED told

(* The remote, the application or a failure asks for the close. *)
AskClose ==
  /\ phase \in {"connecting", "up"} /\ ~closing
  /\ closing' = TRUE
  /\ UNCHANGED <<phase, told>>

(* The connection is established; the callback itself may ask to close it. *)
Succeed ==
  /\ phase = "connecting" /\ ~closing
  /\ phase' = "up"
  /\ closing' \in BOOLEAN
  /\ \E s \in Successes : told' = Append(told, s)

Close ==
  /\ closing
  /\ \/ phase = "aborted" /\ UNCHANGED told
     \/ phase \in {"connecting", "up"} /\ \E s \in Failures : told' = Append(told, s)
  /\ phase' = "closed"
  /\ UNCHANGED closing

Delete ==
  /\ phase = "closed"
  /\ phase' = "gone"
  /\ UNCHANGED <<closing, told>>

(* All promises end: a wakeup or a rekey the event thread is not ready for. *)
Disturb == phase' = "undefined"

Next == Abort \/ AskClose \/ Succeed \/ Close \/ Delete \/ Disturb

Spec == Init /\ [][Next]_lifecycle

FairSpec == Spec /\ WF_lifecycle(Close) /\ WF_lifecycle(Delete)
=============================================================================
