----------------------------- MODULE Invocations ----------------------------
(***************************************************************************)
(* Lambda invocations fed by SQS (infra/queue.tf, infra/lambda.tf): what is*)
(* common to every handler, whatever it does.                              *)
(*                                                                         *)
(* A worker is one running invocation.  It holds one message (batch_size is*)
(* 1) and takes one step per call to a service that changes shared state,  *)
(* so the steps of two workers interleave wherever the real ones can.  A   *)
(* message has a field "receives", the number of its deliveries so far.  A *)
(* delivery that does not end well makes the message visible again, or     *)
(* moves it to the dead-letter queue once it has been received             *)
(* MaxReceives times.  The queues are standard ones: messages in no order. *)
(* (A Lambda stops before the visibility timeout of its message ends, so a *)
(* message is not delivered again while a worker still holds it.)          *)
(***************************************************************************)
EXTENDS Integers

CONSTANTS
    Workers,            \* invocations that can run at the same time
    MaxReceives,        \* maxReceiveCount of the queues
    MaxFailures         \* bound: failures of invocations

ASSUME InvocationsAssumption ==
    /\ MaxReceives \in Nat \ {0}
    /\ MaxFailures \in Nat

VARIABLES
    queue,              \* the messages waiting in the queues
    dead,               \* the messages in the dead-letter queues
    failures,           \* the number of failures so far
    pc,                 \* the call each worker makes next
    job                 \* the message each worker holds

NoMessage == [kind |-> "none"]

InvocationsInit ==
    /\ queue = {}
    /\ dead = {}
    /\ failures = 0
    /\ pc = [w \in Workers |-> "idle"]
    /\ job = [w \in Workers |-> NoMessage]

\* The event source mapping hands a message to an idle worker.
Deliver(w, m, entry) ==
    /\ pc[w] = "idle"
    /\ m \in queue
    /\ queue' = queue \ {m}
    /\ pc' = [pc EXCEPT ![w] = entry]
    /\ job' = [job EXCEPT ![w] = [m EXCEPT !.receives = @ + 1]]

\* The worker is idle again.
Rest(w) ==
    /\ pc' = [pc EXCEPT ![w] = "idle"]
    /\ job' = [job EXCEPT ![w] = NoMessage]

\* Variant, for mutation: a queue without redelivery.
ReturnDropped(w) ==
    /\ Rest(w)
    /\ UNCHANGED <<queue, dead>>

(***************************************************************************)
(* The message of an invocation that did not return nil becomes visible    *)
(* again, unless it has been received as often as the redrive policy says. *)
(***************************************************************************)
Return(w) ==
    LET m == job[w] IN
    /\ IF m.receives < MaxReceives
       THEN queue' = queue \cup {m} /\ UNCHANGED dead
       ELSE dead' = dead \cup {m} /\ UNCHANGED queue
    /\ Rest(w)

\* The worker at one step goes on to another.
Advance(w, from, to) ==
    /\ pc[w] = from
    /\ pc' = [pc EXCEPT ![w] = to]
    /\ UNCHANGED <<job, failures>>
=============================================================================
