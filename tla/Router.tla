------------------------------- MODULE Router -------------------------------
(***************************************************************************)
(* One RabbitMQ queue of the VM service and the Watermill consumers that   *)
(* vm/queue/router.go hangs on it.  The library parts (the broker, the     *)
(* AMQP subscription, the Retry and PoisonQueue middlewares) are modelled  *)
(* from the way router.go and config.go configure them:                    *)
(*                                                                         *)
(*   - every consumer has a connection of its own and a prefetch of one,   *)
(*     and is given no message before it has answered the previous one;    *)
(*   - the poison middleware is a middleware of the handler, so it sits    *)
(*     inside Retry: a handler error becomes a dead letter and a nil, and  *)
(*     Retry acts only when the dead letter could not be published;        *)
(*   - a nil is an Ack, an error a Nack that puts the message back;        *)
(*   - a lost connection puts the message back at once, while the handler  *)
(*     that was given it runs on; its own answer is then void.             *)
(*                                                                         *)
(* The module is instantiated once per queue.  Its operators constrain     *)
(* only its own variables: what a handler does between Deliver and its     *)
(* return belongs to the module of the service.                            *)
(***************************************************************************)
EXTENDS Naturals, FiniteSets, Functions

CONSTANTS
    Jobs,           \* what a message of the queue is about
    Consumers,      \* the consumers of router.go's loop
    NoJob,          \* the job of an idle consumer, not in Jobs
    MaxRetries,     \* Retry{MaxRetries}, a natural number
    MaxLength       \* x-max-length of the queue, positive

VARIABLES
    queue,          \* how many ready messages the broker holds for each job
    pc,             \* where a consumer is, see Stages
    job,            \* the job of the message a consumer is at work on
    owned,          \* does the broker still wait for this consumer's answer?
    tries           \* how often Retry has called the handler again

routerVars == <<queue, pc, job, owned, tries>>

(***************************************************************************)
(* idle:   waiting for a message                                           *)
(* handle: in the service's handler                                        *)
(* poison: the handler failed; the status of its job is being set          *)
(* dlq:    the dead letter is being published                              *)
(* settle: the chain of middlewares returned nil, the Ack is on its way    *)
(***************************************************************************)
Stages == {"idle", "handle", "poison", "dlq", "settle"}

TypeOK ==
    /\ queue \in [Jobs -> Nat]
    /\ pc \in [Consumers -> Stages]
    /\ job \in [Consumers -> Jobs \cup {NoJob}]
    /\ \A c \in Consumers : (pc[c] = "idle") <=> (job[c] = NoJob)
    /\ owned \in [Consumers -> BOOLEAN]
    /\ \A c \in Consumers : owned[c] => job[c] \in Jobs
    /\ tries \in [Consumers -> 0 .. MaxRetries]

Init ==
    /\ queue = [j \in Jobs |-> 0]
    /\ pc = [c \in Consumers |-> "idle"]
    /\ job = [c \in Consumers |-> NoJob]
    /\ owned = [c \in Consumers |-> FALSE]
    /\ tries = [c \in Consumers |-> 0]

Move(c, from, to) ==
    /\ pc[c] = from
    /\ pc' = [pc EXCEPT ![c] = to]

\* Copies of c's message that go back to the broker when c gives it up.
Returned(c) == IF owned[c] THEN 1 ELSE 0

Enqueue(j) ==
    /\ queue' = [queue EXCEPT ![j] = @ + 1]
    /\ UNCHANGED <<pc, job, owned, tries>>

(***************************************************************************)
(* A publish to a queue with a length limit.  The queue rejects what would *)
(* exceed it (x-overflow), and no publisher asks for confirms, so the      *)
(* publisher is told of success either way.                                *)
(***************************************************************************)
PublishLimited(j) ==
    \/ SumFunction(queue) < MaxLength /\ Enqueue(j)
    \/ SumFunction(queue) >= MaxLength /\ UNCHANGED routerVars

Deliver(c, j) ==
    /\ Move(c, "idle", "handle")
    /\ queue[j] > 0
    /\ queue' = [queue EXCEPT ![j] = @ - 1]
    /\ job' = [job EXCEPT ![c] = j]
    /\ owned' = [owned EXCEPT ![c] = TRUE]
    /\ UNCHANGED tries

ReturnNil(c) ==
    /\ Move(c, "handle", "settle")
    /\ UNCHANGED <<queue, job, owned, tries>>

ReturnError(c) ==
    /\ Move(c, "handle", "poison")
    /\ UNCHANGED <<queue, job, owned, tries>>

\* The status publisher goes on to base.Publish whatever its UPDATE did.
StatusWritten(c) ==
    /\ Move(c, "poison", "dlq")
    /\ UNCHANGED <<queue, job, owned, tries>>

(***************************************************************************)
(* The dead letter is published, which is all the code sees of it: no      *)
(* queue of the repository is bound to its routing key, and nothing        *)
(* consumes it.                                                            *)
(***************************************************************************)
DeadLetterSent(c) ==
    /\ Move(c, "dlq", "settle")
    /\ UNCHANGED <<queue, job, owned, tries>>

\* Retry calls the handler again, unless it is at its limit or the context of
\* the message is dead.
MayRetry(c, contextAlive) == contextAlive /\ tries[c] < MaxRetries

TryAgain(c) ==
    /\ Move(c, "dlq", "handle")
    /\ tries' = [tries EXCEPT ![c] = @ + 1]
    /\ UNCHANGED <<queue, job, owned>>

\* The subscription has its answer and waits for the next message.
Released(c) ==
    /\ job' = [job EXCEPT ![c] = NoJob]
    /\ owned' = [owned EXCEPT ![c] = FALSE]
    /\ tries' = [tries EXCEPT ![c] = 0]

\* Mutant of Nack: the subscription forgets to take the next message.
NackHoldsOn(c) ==
    /\ Move(c, "dlq", "idle")
    /\ queue' = [queue EXCEPT ![job[c]] = @ + Returned(c)]
    /\ owned' = [owned EXCEPT ![c] = FALSE]
    /\ UNCHANGED <<job, tries>>

Nack(c) ==
    /\ Move(c, "dlq", "idle")
    /\ queue' = [queue EXCEPT ![job[c]] = @ + Returned(c)]
    /\ Released(c)

Ack(c) ==
    /\ Move(c, "settle", "idle")
    /\ Released(c)
    /\ UNCHANGED queue

ConnectionLost(c) ==
    /\ owned[c]
    /\ owned' = [owned EXCEPT ![c] = FALSE]
    /\ queue' = [queue EXCEPT ![job[c]] = @ + 1]
    /\ UNCHANGED <<pc, job, tries>>

\* The process dies, and the broker takes back what it was working on.
Die ==
    /\ queue' = [j \in Jobs |->
                   queue[j] + Cardinality({c \in Consumers : owned[c] /\ job[c] = j})]
    /\ pc' = [c \in Consumers |-> "idle"]
    /\ job' = [c \in Consumers |-> NoJob]
    /\ owned' = [c \in Consumers |-> FALSE]
    /\ tries' = [c \in Consumers |-> 0]

AllIdle == \A c \in Consumers : pc[c] = "idle"

\* A message about j is in the broker, or is being handled.
Carried(j) ==
    \/ queue[j] > 0
    \/ \E c \in Consumers : job[c] = j
=============================================================================
