---------------------------- MODULE EmailService ----------------------------
(****************************************************************************)
(* The asynchronous mail service.  A notification makes two mails, one to   *)
(* the user and one to the administrators.  A goroutine per mail sends it   *)
(* to a channel of bounded capacity, for three seconds at most; workers     *)
(* take mails from the channel and try the SMTP server a few times; Stop    *)
(* closes the channel and waits for the workers.                            *)
(****************************************************************************)
EXTENDS Naturals, Sequences

CONSTANTS
    Notices,       \* notifications of handlers: a licence was created or updated
    Workers,       \* goroutines started by Start
    QueueSize,     \* capacity of the channel, defaultQueueSize
    MaxRetries,    \* sends tried for a mail, defaultMaxRetries
    NoMail

Mails == Notices \X {"user", "admins"}

ASSUME EmailAssumption ==
    /\ QueueSize \in Nat \ {0}
    /\ MaxRetries \in Nat \ {0}
    /\ Workers # {}
    /\ NoMail \notin Mails

VARIABLES
    mail,        \* where each mail is
    queue,       \* the channel
    closed,      \* the channel is closed
    worker,      \* each worker: what it does, its mail and the attempt it is at
    delivered,   \* external: how often the SMTP server took the mail
    stop,        \* the caller of Stop
    crashed      \* a goroutine panicked, which ends the program

vars == <<mail, queue, closed, worker, delivered, stop, crashed>>

Idle == [doing |-> "idle", job |-> NoMail, attempt |-> 0]

Init ==
    /\ mail = [m \in Mails |-> "none"]
    /\ queue = <<>>
    /\ closed = FALSE
    /\ worker = [w \in Workers |-> Idle]
    /\ delivered = [m \in Mails |-> 0]
    /\ stop = "uncalled"
    /\ crashed = FALSE

----------------------------------------------------------------------------
(* A handler notifies; goroutines enqueue. *)

\* NotifyLicenseCreated, NotifyLicenseUpdated: without the addresses of the
\* administrators there is no mail at all; enqueue refuses an empty list.
Notify(n) ==
    /\ mail[<<n, "user">>] = "none"
    /\ \E admins \in {"unknown", "nobody", "some"} :
          mail' = [mail EXCEPT
            ![<<n, "user">>] = IF admins = "unknown" THEN "skipped" ELSE "waiting",
            ![<<n, "admins">>] = CASE admins = "unknown" -> "skipped"
                                   [] admins = "nobody"  -> "refused"
                                   [] admins = "some"    -> "waiting"]
    /\ UNCHANGED <<queue, closed, worker, delivered, stop, crashed>>

\* Mutant: a channel that grows.
Enqueue_Unbounded(m) ==
    /\ mail[m] = "waiting" /\ ~closed
    /\ mail' = [mail EXCEPT ![m] = "queued"]
    /\ queue' = Append(queue, m)
    /\ UNCHANGED <<closed, worker, delivered, stop, crashed>>

\* Any of the goroutines that wait for a place may get it.
Enqueue(m) ==
    /\ mail[m] = "waiting" /\ ~closed
    /\ Len(queue) < QueueSize
    /\ mail' = [mail EXCEPT ![m] = "queued"]
    /\ queue' = Append(queue, m)
    /\ UNCHANGED <<closed, worker, delivered, stop, crashed>>

\* Mutant: the deadline also ends a mail that is in the queue.
Drop_Queued(m) ==
    /\ mail[m] \in {"waiting", "queued"}
    /\ mail' = [mail EXCEPT ![m] = "dropped"]
    /\ UNCHANGED <<queue, closed, worker, delivered, stop, crashed>>

\* The deadline passes first, whether or not there is a place; nobody is told.
Drop(m) ==
    /\ mail[m] = "waiting"
    /\ mail' = [mail EXCEPT ![m] = "dropped"]
    /\ UNCHANGED <<queue, closed, worker, delivered, stop, crashed>>

\* A send on a closed channel panics, and nothing recovers it.
Panic(m) ==
    /\ mail[m] = "waiting" /\ closed
    /\ crashed' = TRUE
    /\ UNCHANGED <<mail, queue, closed, worker, delivered, stop>>

----------------------------------------------------------------------------
(* The workers. *)

Take(w) ==
    /\ worker[w].doing = "idle" /\ queue # <<>>
    /\ worker' = [worker EXCEPT ![w] = [doing |-> "sending", job |-> Head(queue),
                                        attempt |-> 1]]
    /\ mail' = [mail EXCEPT ![Head(queue)] = "taken"]
    /\ queue' = Tail(queue)
    /\ UNCHANGED <<closed, delivered, stop, crashed>>

Succeed(w) == /\ mail' = [mail EXCEPT ![worker[w].job] = "sent"]
              /\ worker' = [worker EXCEPT ![w] = Idle]

GiveUp(w) == /\ mail' = [mail EXCEPT ![worker[w].job] = "failed"]
             /\ worker' = [worker EXCEPT ![w] = Idle]

Pause(w) == /\ worker' = [worker EXCEPT ![w].doing = "pausing"]
            /\ UNCHANGED mail

\* The server takes the mail or not; an error can follow although it did.
Attempt(w, accepted) ==
    /\ worker[w].doing = "sending"
    /\ delivered' = [delivered EXCEPT ![worker[w].job] = @ + (IF accepted THEN 1 ELSE 0)]
    /\ UNCHANGED <<queue, closed, stop, crashed>>

\* Mutant: one attempt too many.
Send_OneMore(w) ==
    \E accepted \in BOOLEAN :
        /\ Attempt(w, accepted)
        /\ \/ accepted /\ Succeed(w)
           \/ worker[w].attempt <= MaxRetries /\ Pause(w)
           \/ worker[w].attempt > MaxRetries /\ GiveUp(w)

\* Mutant: a mail that fails for good ends the worker.
Send_EndsWorker(w) ==
    \E accepted \in BOOLEAN :
        /\ Attempt(w, accepted)
        /\ \/ accepted /\ Succeed(w)
           \/ worker[w].attempt < MaxRetries /\ Pause(w)
           \/ /\ worker[w].attempt = MaxRetries
              /\ mail' = [mail EXCEPT ![worker[w].job] = "failed"]
              /\ worker' = [worker EXCEPT ![w] = [Idle EXCEPT !.doing = "ended"]]

Send(w) ==
    \E accepted \in BOOLEAN :
        /\ Attempt(w, accepted)
        /\ \/ accepted /\ Succeed(w)
           \/ worker[w].attempt < MaxRetries /\ Pause(w)
           \/ worker[w].attempt = MaxRetries /\ GiveUp(w)

Retry(w) ==
    /\ worker[w].doing = "pausing"
    /\ worker' = [worker EXCEPT ![w].doing = "sending", ![w].attempt = @ + 1]
    /\ UNCHANGED <<mail, queue, closed, delivered, stop, crashed>>

\* Mutant: a worker leaves a closed channel that still holds mails.
Quit_AtOnce(w) ==
    /\ worker[w].doing = "idle" /\ closed
    /\ worker' = [worker EXCEPT ![w] = [Idle EXCEPT !.doing = "ended"]]
    /\ UNCHANGED <<mail, queue, closed, delivered, stop, crashed>>

\* The range over a closed channel ends when it is empty.
Quit(w) ==
    /\ worker[w].doing = "idle" /\ closed /\ queue = <<>>
    /\ worker' = [worker EXCEPT ![w] = [Idle EXCEPT !.doing = "ended"]]
    /\ UNCHANGED <<mail, queue, closed, delivered, stop, crashed>>

----------------------------------------------------------------------------
(* Stop. *)

CloseQueue ==
    /\ stop = "uncalled"
    /\ closed' = TRUE
    /\ stop' = "waiting"
    /\ UNCHANGED <<mail, queue, worker, delivered, crashed>>

\* All workers have ended, or the context of the caller does first.
StopReturns ==
    /\ stop = "waiting"
    /\ \/ stop' = "graceful" /\ \A w \in Workers : worker[w].doing = "ended"
       \/ stop' = "gaveUp"
    /\ UNCHANGED <<mail, queue, closed, worker, delivered, crashed>>

----------------------------------------------------------------------------

EnqueuerStep(m) == Enqueue(m) \/ Drop(m) \/ Panic(m)

WorkerStep(w) == Take(w) \/ Retry(w) \/ Quit(w)

Next ==
    /\ ~crashed
    /\ \/ \E n \in Notices : Notify(n)
       \/ \E m \in Mails : EnqueuerStep(m)
       \/ \E w \in Workers : WorkerStep(w) \/ Send(w)
       \/ CloseQueue
       \/ StopReturns

\* Goroutines run and timers fire.  Nothing makes the SMTP server answer: after
\* the connection is made, a send has no deadline.
Spec ==
    /\ Init
    /\ [][Next]_vars
    /\ \A m \in Mails : WF_vars(~crashed /\ EnqueuerStep(m))
    /\ \A w \in Workers : WF_vars(~crashed /\ WorkerStep(w))

----------------------------------------------------------------------------
(* Properties. *)

Places == {"none", "skipped", "refused", "waiting", "dropped", "queued", "taken", "sent",
           "failed"}

\* Type invariant; the channel is within its capacity.
EmailTypeOK ==
    /\ mail \in [Mails -> Places]
    /\ queue \in Seq(Mails) /\ Len(queue) <= QueueSize
    /\ closed \in BOOLEAN
    /\ \A w \in Workers : /\ worker[w].doing \in {"idle", "sending", "pausing", "ended"}
                          /\ worker[w].attempt \in 0 .. MaxRetries
    /\ delivered \in [Mails -> Nat]
    /\ stop \in {"uncalled", "waiting", "graceful", "gaveUp"}
    /\ crashed \in BOOLEAN

\* No mail is lost or doubled between the channel and the workers: a queued
\* mail is in the channel once, a taken one is with one worker, others with none.
MailInOnePlace ==
    \A m \in Mails :
        LET slots == {i \in DOMAIN queue : queue[i] = m}
            hands == {w \in Workers : worker[w].job = m}
        IN  /\ mail[m] = "queued" => \E i \in slots : slots = {i}
            /\ mail[m] # "queued" => slots = {}
            /\ mail[m] = "taken" => \E w \in hands : hands = {w}
            /\ mail[m] # "taken" => hands = {}

\* "Stop gracefully shuts down the workers": when Stop returns no error, every
\* mail that was queued has been sent or has failed for good.
GracefulStop ==
    stop = "graceful" => \A m \in Mails : mail[m] \notin {"queued", "taken"}

\* Retries may deliver a mail again, but no more often than there are attempts;
\* a mail that counts as sent was delivered, one that never left the program
\* was not.
DeliveriesBounded ==
    \A m \in Mails :
        /\ delivered[m] <= MaxRetries
        /\ mail[m] = "sent" => delivered[m] > 0
        /\ mail[m] \notin {"taken", "sent", "failed"} => delivered[m] = 0

ServerAnswers == \A w \in Workers : []<>(worker[w].doing # "sending")

\* If the SMTP server always answers, a mail that a goroutine was started for
\* is sent, dropped at the deadline, or fails for good, unless the program
\* crashed.
EveryMailSettles ==
    ServerAnswers =>
        \A m \in Mails : mail[m] = "waiting" ~>
                         mail[m] \in {"sent", "dropped", "failed"} \/ crashed
=============================================================================
