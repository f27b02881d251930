------------------------------ MODULE MailQueue ------------------------------
(***************************************************************************)
(* How a mail leaves the service: MailService pushes it into a Redis list  *)
(* that a worker process pops, or, without Redis, sends it itself.         *)
(*                                                                         *)
(* The code tries nothing again: a push that is refused, a mail a worker   *)
(* had popped when it stopped, and one the provider refused are lost.      *)
(* ioredis does: when its connection breaks it sends the commands that     *)
(* have no reply once more, in their order, over the next one, although    *)
(* Redis may have executed them.                                           *)
(***************************************************************************)
EXTENDS Naturals, Sequences

CONSTANTS
    Mails, NoMail,
    MaxResends  \* bound: broken connections that repeat a push

VARIABLES
    redis,      \* the service has a Redis client
    unanswered, \* pushes the client has no reply for, in their order
    executed,   \* how many of them Redis has executed on this connection
    queue,      \* the Redis list; its head is popped next
    working,    \* the mail the worker has popped, or NoMail
    sending,    \* mails being sent by the service itself
    mailbox,    \* mails handed over, in that order
    again,      \* history: mails whose push was executed and then sent again
    resends     \* history: broken connections that repeated a push

wire == <<unanswered, executed, again, resends>>
mailVars == <<redis, wire, queue, working, sending, mailbox>>

MailTypeOK ==
    /\ redis \in BOOLEAN
    /\ unanswered \in Seq(Mails) /\ executed \in 0 .. Len(unanswered)
    /\ queue \in Seq(Mails) /\ mailbox \in Seq(Mails)
    /\ working \in Mails \cup {NoMail}
    /\ sending \subseteq Mails
    /\ again \subseteq Mails /\ resends \in 0 .. MaxResends

MailInit ==
    /\ redis \in BOOLEAN
    /\ unanswered = <<>> /\ executed = 0
    /\ queue = <<>> /\ mailbox = <<>>
    /\ working = NoMail
    /\ sending = {}
    /\ again = {} /\ resends = 0

\* The client writes the LPUSH; or the provider is called, which takes its time.
\* The configuration of a provider has no say where there is a Redis client.
Enqueue(m) ==
    \/ /\ redis
       /\ unanswered' = Append(unanswered, m)
       /\ UNCHANGED <<redis, executed, again, resends, queue, working, sending, mailbox>>
    \/ /\ ~redis
       /\ sending' = sending \cup {m}
       /\ UNCHANGED <<redis, wire, queue, working, mailbox>>

\* Mutant: the mail is pushed where the worker pops, and overtakes the others.
Push_Overtakes ==
    /\ executed < Len(unanswered)
    /\ queue' = <<unanswered[executed + 1]>> \o queue
    /\ executed' = executed + 1
    /\ UNCHANGED <<redis, unanswered, again, resends, working, sending, mailbox>>

\* Redis executes the next LPUSH, at the other end than BRPOP, or refuses it; then
\* the request that asked for the mail fails.
Push ==
    /\ executed < Len(unanswered)
    /\ queue' \in {Append(queue, unanswered[executed + 1]), queue}
    /\ executed' = executed + 1
    /\ UNCHANGED <<redis, unanswered, again, resends, working, sending, mailbox>>

\* The reply to the oldest push arrives.
Reply ==
    /\ executed > 0
    /\ unanswered' = Tail(unanswered)
    /\ executed' = executed - 1
    /\ UNCHANGED <<redis, again, resends, queue, working, sending, mailbox>>

\* The connection breaks, and the unanswered pushes go over the next one; those
\* that Redis had executed are repeated.
Resend ==
    /\ executed > 0 /\ resends < MaxResends
    /\ again' = again \cup {unanswered[k] : k \in 1 .. executed}
    /\ executed' = 0
    /\ resends' = resends + 1
    /\ UNCHANGED <<redis, unanswered, queue, working, sending, mailbox>>

\* No connection comes about, and after so many attempts the client fails all
\* pushes it has, and the requests with them.
GiveUp ==
    /\ unanswered # <<>>
    /\ unanswered' = <<>> /\ executed' = 0
    /\ UNCHANGED <<redis, again, resends, queue, working, sending, mailbox>>

\* BRPOP: the list forgets the mail before the worker has it, and the worker
\* never gets it when the connection breaks in between.
Pop ==
    /\ working = NoMail /\ queue # <<>>
    /\ working' \in {Head(queue), NoMail}
    /\ queue' = Tail(queue)
    /\ UNCHANGED <<redis, wire, sending, mailbox>>

HandOver ==
    /\ working # NoMail
    /\ mailbox' = Append(mailbox, working)
    /\ working' = NoMail
    /\ UNCHANGED <<redis, wire, queue, sending>>

\* The worker process stops and is started again.
WorkerStops ==
    /\ working # NoMail
    /\ working' = NoMail
    /\ UNCHANGED <<redis, wire, queue, sending, mailbox>>

\* The provider answers in its own time, or throws, and the mail is logged.
Sent(m) ==
    /\ m \in sending
    /\ sending' = sending \ {m}
    /\ mailbox' \in {Append(mailbox, m), mailbox}
    /\ UNCHANGED <<redis, wire, queue, working>>

MailNext ==
    \/ Push \/ Reply \/ Resend \/ GiveUp
    \/ Pop \/ HandOver \/ WorkerStops
    \/ \E m \in Mails : Sent(m)

\* Mails on their way through Redis, the ones handed over first.
Pipeline == mailbox \o (IF working = NoMail THEN <<>> ELSE <<working>>) \o queue
=============================================================================
