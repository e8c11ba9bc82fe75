------------------------------- MODULE Notifier -------------------------------
(***************************************************************************)
(* Dispatcher.Dispatch and WebhookNotifier.Send (internal/notify): what    *)
(* Scheduler takes as one step, Deliver. The channels that want the event  *)
(* are served by goroutines of their own, each with up to three attempts.  *)
(*                                                                         *)
(* A request may be lost, take effect without its answer coming back, or   *)
(* take effect long after the sender has given up on it. The context is    *)
(* the caller's: notifyDeliveryTimeout, or the end of a restore.           *)
(***************************************************************************)
EXTENDS Naturals, FiniteSets

CONSTANTS Channels,     \* the channels of notifications.yaml
          Wants,        \* what each of them wants to hear of
          MaxAttempts   \* maxAttempts

ASSUME NotifierAssumption ==
   /\ Wants \in [Channels -> {"always", "success", "failure"}]
   /\ MaxAttempts \in Nat \ {0}
   /\ IsFiniteSet(Channels)

Attempts == 1 .. MaxAttempts

VARIABLES event,      \* the status of the run and its Untracked flag
          caller,     \* the goroutine that called Dispatch
          send,       \* send[c]: the goroutine of channel c
          attempt,    \* the number of its attempt
          request,    \* request[c][k]: what became of request k at the receiver
          answer,     \* answer[c][k]: what the sender was told of request k
          errors,     \* the channels whose Send returned an error
          ctx         \* the context is done

dispatch == <<event, caller, send, attempt, request, answer, errors, ctx>>

Events == [status : {"success", "failed", "partial", "canceled"}, untracked : BOOLEAN]

InitDispatch == /\ event \in Events
                /\ caller = "list"
                /\ send = [c \in Channels |-> "none"]
                /\ attempt = [c \in Channels |-> 1]
                /\ request = [c \in Channels |-> [k \in Attempts |-> "unsent"]]
                /\ answer = [c \in Channels |-> [k \in Attempts |-> "none"]]
                /\ errors = {}
                /\ ctx = FALSE

(* shouldNotify: what did not end well, or not on record, is a failure.    *)
ShouldNotify(trigger) ==
   LET succeeded == event.status = "success" /\ ~ event.untracked
   IN  trigger = "always" \/ (trigger = "success" <=> succeeded)

Matching == {c \in Channels : ShouldNotify(Wants[c])}

(* A store that cannot be read is reported as an error of its own.         *)
ListFails == /\ caller = "list"
             /\ caller' = "unread"
             /\ UNCHANGED <<event, send, attempt, request, answer, errors, ctx>>

Fork == /\ caller = "list"
        /\ caller' = "wait"
        /\ send' = [c \in Channels |-> IF c \in Matching THEN "check" ELSE "none"]
        /\ UNCHANGED <<event, attempt, request, answer, errors, ctx>>

-----------------------------------------------------------------------------
Returns(c, ok) == /\ send' = [send EXCEPT ![c] = "returned"]
                  /\ errors' = IF ok THEN errors ELSE errors \union {c}

(* The context is looked at before an attempt.                             *)
Check(c) ==
   /\ send[c] = "check"
   /\ \/ ctx /\ Returns(c, FALSE) /\ UNCHANGED request
      \/ /\ ~ ctx
         /\ send' = [send EXCEPT ![c] = "await"]
         /\ request' = [request EXCEPT ![c][attempt[c]] = "sent"]
         /\ UNCHANGED errors
   /\ UNCHANGED <<event, caller, attempt, answer, ctx>>

(* Faulty: a client error is retried too.                                  *)
AnsweredRetrying(c) ==
   /\ send[c] = "await"
   /\ answer' = [answer EXCEPT ![c][attempt[c]] = request[c][attempt[c]]]
   /\ \/ request[c][attempt[c]] = "taken" /\ Returns(c, TRUE)
      \/ /\ request[c][attempt[c]] \in {"rejected", "failed"}
         /\ send' = [send EXCEPT ![c] = "backoff"]
         /\ UNCHANGED errors
   /\ UNCHANGED <<event, caller, attempt, request, ctx>>

(* client.Do has the answer: 2xx ends it well, any other below 500 for     *)
(* good, and a server error may be transient.                              *)
Answered(c) ==
   /\ send[c] = "await"
   /\ answer' = [answer EXCEPT ![c][attempt[c]] = request[c][attempt[c]]]
   /\ \/ request[c][attempt[c]] = "taken" /\ Returns(c, TRUE)
      \/ request[c][attempt[c]] = "rejected" /\ Returns(c, FALSE)
      \/ /\ request[c][attempt[c]] = "failed"
         /\ send' = [send EXCEPT ![c] = "backoff"]
         /\ UNCHANGED errors
   /\ UNCHANGED <<event, caller, attempt, request, ctx>>

(* Faulty: the client has no timeout.                                      *)
TransportWaits(c) ==
   /\ send[c] = "await"
   /\ request[c][attempt[c]] = "failed"
   /\ send' = [send EXCEPT ![c] = "backoff"]
   /\ UNCHANGED <<event, caller, attempt, request, answer, errors, ctx>>

(* client.Do fails: the connection, its ten seconds, or the context. The   *)
(* receiver may have the request nevertheless, or get it later.            *)
TransportFails(c) ==
   /\ send[c] = "await"
   /\ send' = [send EXCEPT ![c] = "backoff"]
   /\ UNCHANGED <<event, caller, attempt, request, answer, errors, ctx>>

(* Faulty: the attempts run out without an error.                          *)
BackoffForgets(c) ==
   /\ send[c] = "backoff"
   /\ \/ attempt[c] = MaxAttempts /\ Returns(c, TRUE) /\ UNCHANGED attempt
      \/ attempt[c] < MaxAttempts /\ ctx /\ Returns(c, FALSE) /\ UNCHANGED attempt
      \/ /\ attempt[c] < MaxAttempts
         /\ attempt' = [attempt EXCEPT ![c] = @ + 1]
         /\ send' = [send EXCEPT ![c] = "check"]
         /\ UNCHANGED errors
   /\ UNCHANGED <<event, caller, request, answer, ctx>>

(* After the last attempt its error is the answer; otherwise the pause     *)
(* ends, or the context does.                                              *)
Backoff(c) ==
   /\ send[c] = "backoff"
   /\ \/ attempt[c] = MaxAttempts /\ Returns(c, FALSE) /\ UNCHANGED attempt
      \/ attempt[c] < MaxAttempts /\ ctx /\ Returns(c, FALSE) /\ UNCHANGED attempt
      \/ /\ attempt[c] < MaxAttempts
         /\ attempt' = [attempt EXCEPT ![c] = @ + 1]
         /\ send' = [send EXCEPT ![c] = "check"]
         /\ UNCHANGED errors
   /\ UNCHANGED <<event, caller, request, answer, ctx>>

SendStep(c) == Check(c) \/ Answered(c) \/ TransportFails(c) \/ Backoff(c)

(* wg.Wait.                                                                *)
Join == /\ caller = "wait"
        /\ \A c \in Matching : send[c] = "returned"
        /\ caller' = "done"
        /\ UNCHANGED <<event, send, attempt, request, answer, errors, ctx>>

-----------------------------------------------------------------------------
(* The receiver. A request that it never sees remains sent. How it answers *)
(* one that the sender has given up on matters to nobody.                  *)
Receive(c, k) ==
   /\ request[c][k] = "sent"
   /\ \E fate \in {"taken", "rejected", "failed"} :
         /\ fate = "taken" \/ (send[c] = "await" /\ attempt[c] = k)
         /\ request' = [request EXCEPT ![c][k] = fate]
   /\ UNCHANGED <<event, caller, send, attempt, answer, errors, ctx>>

Cancel == /\ ~ ctx
          /\ caller = "wait"
          /\ ctx' = TRUE
          /\ UNCHANGED <<event, caller, send, attempt, request, answer, errors>>

Done == /\ caller \in {"done", "unread"}
        /\ UNCHANGED dispatch

NextDispatch == \/ ListFails \/ Fork \/ Join \/ Cancel \/ Done
                \/ \E c \in Channels : SendStep(c) \/ \E k \in Attempts : Receive(c, k)

DispatchSpec == InitDispatch /\ [][NextDispatch]_dispatch

(* Goroutines are scheduled, and the timers of the client and the pauses   *)
(* end. Nothing is assumed of the receivers, nor that the context ends.    *)
DispatchFairness == /\ WF_dispatch(Fork \/ ListFails)
                    /\ WF_dispatch(Join)
                    /\ \A c \in Channels : WF_dispatch(SendStep(c))

FairDispatch == DispatchSpec /\ DispatchFairness

-----------------------------------------------------------------------------
(* The end of Dispatch hides no loss and no trouble. A channel that wants  *)
(* the event has it, or its error is returned: the context, the last       *)
(* attempt and the other channels' errors conceal nothing. And a failure,  *)
(* a partial or canceled run, and a success that is not on record reach    *)
(* all but those that asked for successes, which get nothing.              *)
Heard(c) == c \in errors \/ \E k \in Attempts : request[c][k] = "taken"
Silent(c) == c \notin errors /\ request[c] = [k \in Attempts |-> "unsent"]
Promised(c) ==
   LET success == [status |-> "success", untracked |-> FALSE]
   IN  CASE Wants[c] = "always" -> TRUE
         [] Wants[c] = "success" -> event = success
         [] Wants[c] = "failure" -> event # success
EveryoneHeard ==
   caller = "done" => \A c \in Channels : IF Promised(c) THEN Heard(c) ELSE Silent(c)

(* The receiver sees a second copy only if the sender could not know that  *)
(* the first one arrived: once an answer says that it was taken or that it *)
(* never will be, nothing more is sent.                                    *)
NoNeedlessCopy ==
   \A c \in Channels : \A k \in Attempts :
      answer[c][k] \in {"taken", "rejected"} =>
         \A m \in Attempts : m > k => request[c][m] = "unsent"

(* Dispatch ends, with receivers that never answer and without the help of *)
(* the context.                                                            *)
DispatchEnds == caller = "wait" ~> caller = "done"
=============================================================================
