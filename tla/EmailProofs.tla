---------------------------- MODULE EmailProofs ----------------------------
(****************************************************************************)
(* Theorems about EmailService for any number of notifications, workers,    *)
(* places in the channel and attempts.  The invariant says where the mail   *)
(* of each worker and each place of the channel is, what a closed channel   *)
(* and an ended worker imply, and how often a mail can have been delivered  *)
(* at the attempt its worker is at.                                         *)
(****************************************************************************)
EXTENDS EmailService, TLAPS

Busy == {"sending", "pausing"}

Typed ==
    /\ mail \in [Mails -> Places]
    /\ queue \in Seq(Mails) /\ Len(queue) <= QueueSize
    /\ closed \in BOOLEAN
    /\ worker \in [Workers -> [doing : Busy \cup {"idle", "ended"},
                               job : Mails \cup {NoMail},
                               attempt : 0 .. MaxRetries]]
    /\ delivered \in [Mails -> Nat]
    /\ stop \in {"uncalled", "waiting", "graceful", "gaveUp"}
    /\ crashed \in BOOLEAN

\* The two mails of a notification are made together.
Notified ==
    \A n \in Notices : mail[<<n, "user">>] = "none" <=> mail[<<n, "admins">>] = "none"

\* The channel holds the queued mails, each once.
Channel ==
    /\ \A m \in Mails : mail[m] = "queued" => \E i \in 1 .. Len(queue) : queue[i] = m
    /\ \A i \in 1 .. Len(queue) : mail[queue[i]] = "queued"
    /\ \A i, j \in 1 .. Len(queue) : queue[i] = queue[j] => i = j

\* The busy workers hold the taken mails, each one.
Hands ==
    /\ \A w \in Workers :
          IF worker[w].doing \in Busy
          THEN worker[w].job \in Mails /\ mail[worker[w].job] = "taken"
          ELSE worker[w].job = NoMail
    /\ \A m \in Mails : mail[m] = "taken" => \E w \in Workers : worker[w].job = m
    /\ \A v, w \in Workers :
          worker[v].doing \in Busy /\ worker[v].job = worker[w].job => v = w

\* Workers end when the channel is closed and empty, which is for good.
Ending ==
    /\ stop = "uncalled" <=> ~closed
    /\ \A w \in Workers : worker[w].doing = "ended" => closed /\ queue = <<>>
    /\ stop = "graceful" => \A w \in Workers : worker[w].doing = "ended"

\* One delivery at most for each attempt that is over.
Deliveries ==
    /\ \A w \in Workers :
          /\ worker[w].doing = "sending" =>
                worker[w].attempt > 0 /\ delivered[worker[w].job] < worker[w].attempt
          /\ worker[w].doing = "pausing" =>
                /\ worker[w].attempt < MaxRetries
                /\ delivered[worker[w].job] <= worker[w].attempt
    /\ DeliveriesBounded

Inv == Typed /\ Notified /\ Channel /\ Hands /\ Ending /\ Deliveries

LEMMA InitInv == Init => Inv
<1> SUFFICES ASSUME Init PROVE Inv
    OBVIOUS
<1> USE EmailAssumption DEF Init, Idle, Busy
<1>1. Len(queue) = 0 /\ queue \in Seq(Mails)
    OBVIOUS
<1>2. worker \in [Workers -> [doing : Busy \cup {"idle", "ended"},
                              job : Mails \cup {NoMail},
                              attempt : 0 .. MaxRetries]]
    OBVIOUS
<1>3. mail \in [Mails -> Places]
    BY DEF Places
<1>4. Typed
    <2>1. Len(queue) <= QueueSize
        BY <1>1
    <2>2. /\ closed \in BOOLEAN /\ crashed \in BOOLEAN /\ delivered \in [Mails -> Nat]
          /\ stop \in {"uncalled", "waiting", "graceful", "gaveUp"}
        OBVIOUS
    <2> QED BY <1>1, <1>2, <1>3, <2>1, <2>2 DEF Typed
<1>5. Notified
    <2>1. \A n \in Notices : <<n, "user">> \in Mails /\ <<n, "admins">> \in Mails
        BY DEF Mails
    <2> QED BY <2>1 DEF Notified
<1>6. Channel
    BY <1>1 DEF Channel
<1>7. Hands
    BY DEF Hands
<1>8. Ending
    BY DEF Ending
<1>9. Deliveries
    BY DEF Deliveries, DeliveriesBounded
<1> QED BY <1>4, <1>5, <1>6, <1>7, <1>8, <1>9 DEF Inv

\* A mail that is neither in the channel nor with a worker moves to another
\* place outside both.
LEMMA OutsideInv ==
    ASSUME Inv, Notified',
           mail' \in [Mails -> Places],
           \A m \in Mails : mail'[m] # mail[m] =>
               /\ mail[m] \in {"none", "waiting"}
               /\ mail'[m] \in {"skipped", "refused", "waiting", "dropped"},
           UNCHANGED <<queue, closed, worker, delivered, stop, crashed>>
    PROVE  Inv'
<1> USE DEF Busy, Inv
<1>1. Typed'
    BY DEF Typed
<1>2. Channel'
    <2>1. \A i \in 1 .. Len(queue) : queue[i] \in Mails
        BY DEF Typed
    <2> QED BY <2>1 DEF Channel
<1>3. Hands'
    BY DEF Hands, Typed
<1>4. Ending'
    BY DEF Ending
<1>5. Deliveries'
    BY DEF Deliveries, DeliveriesBounded, Typed
<1> QED BY <1>1, <1>2, <1>3, <1>4, <1>5

LEMMA NotifyInv == ASSUME Inv, NEW n \in Notices, Notify(n) PROVE Inv'
<1> DEFINE user == <<n, "user">>
           admin == <<n, "admins">>
<1>1. user \in Mails /\ admin \in Mails /\ user # admin
    BY DEF Mails
<1>2. mail \in [Mails -> Places] /\ mail[user] = "none" /\ mail[admin] = "none"
    BY DEF Inv, Typed, Notified, Notify
<1>3. PICK u \in {"skipped", "waiting"}, a \in {"skipped", "refused", "waiting"} :
          mail' = [mail EXCEPT ![user] = u, ![admin] = a]
    BY DEF Notify
<1>4. /\ mail' \in [Mails -> Places]
      /\ \A m \in Mails : mail'[m] = IF m = admin THEN a ELSE IF m = user THEN u ELSE mail[m]
    BY <1>1, <1>2, <1>3 DEF Places
<1>5. Notified'
    BY <1>1, <1>4 DEF Inv, Notified, Mails
<1>6. UNCHANGED <<queue, closed, worker, delivered, stop, crashed>>
    BY DEF Notify
<1> QED BY <1>1, <1>2, <1>4, <1>5, <1>6, OutsideInv

LEMMA DropInv == ASSUME Inv, NEW m \in Mails, Drop(m) PROVE Inv'
<1>1. /\ mail' \in [Mails -> Places]
      /\ \A l \in Mails : mail'[l] = IF l = m THEN "dropped" ELSE mail[l]
      /\ mail[m] = "waiting"
    BY DEF Inv, Typed, Places, Drop
<1>2. Notified'
    BY <1>1 DEF Inv, Notified, Mails
<1>3. UNCHANGED <<queue, closed, worker, delivered, stop, crashed>>
    BY DEF Drop
<1> QED BY <1>1, <1>2, <1>3, OutsideInv

LEMMA EnqueueInv == ASSUME Inv, NEW m \in Mails, Enqueue(m) PROVE Inv'
<1> USE DEF Inv, Busy
<1>1. /\ mail' \in [Mails -> Places]
      /\ \A l \in Mails : mail'[l] = IF l = m THEN "queued" ELSE mail[l]
      /\ mail[m] = "waiting"
    BY DEF Typed, Places, Enqueue
<1>2. /\ queue \in Seq(Mails) /\ queue' \in Seq(Mails)
      /\ Len(queue) \in Nat /\ Len(queue') = Len(queue) + 1
      /\ Len(queue') <= QueueSize
      /\ queue'[Len(queue')] = m
      /\ \A i \in 1 .. Len(queue) : queue'[i] = queue[i] /\ queue[i] \in Mails
    BY EmailAssumption DEF Typed, Enqueue
<1>3. UNCHANGED <<closed, worker, delivered, stop, crashed>> /\ ~closed
    BY DEF Enqueue
<1>4. Typed'
    BY <1>1, <1>2, <1>3 DEF Typed
<1>5. Notified'
    BY <1>1 DEF Notified, Mails
<1>6. Channel'
    <2>1. \A i \in 1 .. Len(queue) : queue[i] # m
        BY <1>1 DEF Channel
    <2>2. \A i \in 1 .. Len(queue') : i \in 1 .. Len(queue) \/ i = Len(queue')
        BY <1>2
    <2>3. \A l \in Mails : mail'[l] = "queued" => \E i \in 1 .. Len(queue') : queue'[i] = l
        BY <1>1, <1>2 DEF Channel
    <2>4. \A i \in 1 .. Len(queue') : mail'[queue'[i]] = "queued"
        BY <1>1, <1>2, <2>1, <2>2 DEF Channel
    <2>5. \A i, j \in 1 .. Len(queue') : queue'[i] = queue'[j] => i = j
        BY <1>2, <2>1, <2>2 DEF Channel
    <2> QED BY <2>3, <2>4, <2>5 DEF Channel
<1>7. Hands'
    BY <1>1, <1>3 DEF Hands
<1>8. Ending'
    BY <1>3 DEF Ending
<1>9. Deliveries'
    BY <1>1, <1>3 DEF Deliveries, DeliveriesBounded
<1> QED BY <1>4, <1>5, <1>6, <1>7, <1>8, <1>9

LEMMA TakeInv == ASSUME Inv, NEW w \in Workers, Take(w) PROVE Inv'
<1> USE DEF Inv, Busy
<1> DEFINE m == Head(queue)
<1>1. /\ queue \in Seq(Mails) /\ queue # <<>> /\ queue' = Tail(queue)
      /\ Len(queue) \in Nat \ {0} /\ Len(queue') = Len(queue) - 1
      /\ queue' \in Seq(Mails)
      /\ m = queue[1] /\ m \in Mails
      /\ \A i \in 1 .. Len(queue') : queue'[i] = queue[i + 1]
    BY DEF Typed, Take
<1>2. /\ mail' \in [Mails -> Places]
      /\ \A l \in Mails : mail'[l] = IF l = m THEN "taken" ELSE mail[l]
      /\ mail[m] = "queued"
    BY <1>1 DEF Typed, Places, Take, Channel
<1>3. /\ worker[w].doing = "idle"
      /\ worker' = [worker EXCEPT ![w] = [doing |-> "sending", job |-> m, attempt |-> 1]]
      /\ UNCHANGED <<closed, delivered, stop, crashed>>
    BY DEF Take
<1>4. Typed'
    BY <1>1, <1>2, <1>3, EmailAssumption DEF Typed
<1>5. Notified'
    BY <1>2 DEF Notified, Mails
<1>6. Channel'
    <2>1. \A i \in 1 .. Len(queue') : /\ i \in 1 .. Len(queue) /\ i + 1 \in 1 .. Len(queue)
                                     /\ queue'[i] \in Mails /\ queue'[i] # m
        BY <1>1 DEF Channel
    <2>2. \A i \in 1 .. Len(queue) : i = 1 \/ i - 1 \in 1 .. Len(queue')
        BY <1>1
    <2>3. \A l \in Mails : mail'[l] = "queued" => \E i \in 1 .. Len(queue') : queue'[i] = l
        <3> SUFFICES ASSUME NEW l \in Mails, mail'[l] = "queued"
                     PROVE  \E i \in 1 .. Len(queue') : queue'[i] = l
            OBVIOUS
        <3>1. PICK i \in 1 .. Len(queue) : queue[i] = l
            BY <1>2 DEF Channel
        <3>2. i # 1
            BY <1>1, <1>2, <3>1
        <3>3. i - 1 \in 1 .. Len(queue') /\ (i - 1) + 1 = i
            BY <1>1, <2>2, <3>2
        <3>4. queue'[i - 1] = l
            BY <1>1, <3>1, <3>3
        <3> QED BY <3>3, <3>4
    <2>4. \A i \in 1 .. Len(queue') : mail'[queue'[i]] = "queued"
        BY <1>1, <1>2, <2>1 DEF Channel
    <2>5. \A i, j \in 1 .. Len(queue') : queue'[i] = queue'[j] => i = j
        <3> SUFFICES ASSUME NEW i \in 1 .. Len(queue'), NEW j \in 1 .. Len(queue'),
                            queue'[i] = queue'[j]
                     PROVE  i = j
            OBVIOUS
        <3>1. i + 1 = j + 1
            BY <1>1, <2>1 DEF Channel
        <3> QED BY <3>1
    <2> QED BY <2>3, <2>4, <2>5 DEF Channel
<1>7. /\ worker'[w].doing = "sending" /\ worker'[w].job = m /\ worker'[w].attempt = 1
      /\ \A v \in Workers : v # w => worker'[v] = worker[v]
    BY <1>3 DEF Typed
<1>8. Hands'
    <2>1. \A v \in Workers : worker[v].job # m
        BY <1>1, <1>2, EmailAssumption DEF Hands
    <2>2. \A v \in Workers :
              IF worker'[v].doing \in Busy
              THEN worker'[v].job \in Mails /\ mail'[worker'[v].job] = "taken"
              ELSE worker'[v].job = NoMail
        <3> SUFFICES ASSUME NEW v \in Workers
                     PROVE  IF worker'[v].doing \in Busy
                            THEN worker'[v].job \in Mails /\ mail'[worker'[v].job] = "taken"
                            ELSE worker'[v].job = NoMail
            OBVIOUS
        <3>1. CASE v = w
            BY <1>1, <1>2, <1>7, <3>1
        <3>2. CASE v # w
            BY <1>1, <1>2, <1>7, <3>2 DEF Hands
        <3> QED BY <3>1, <3>2
    <2>3. \A l \in Mails : mail'[l] = "taken" => \E v \in Workers : worker'[v].job = l
        <3> SUFFICES ASSUME NEW l \in Mails, mail'[l] = "taken"
                     PROVE  \E v \in Workers : worker'[v].job = l
            OBVIOUS
        <3>1. CASE l = m
            <4>1. worker'[w].job = l
                BY <3>1, <1>7
            <4> QED BY <4>1
        <3>2. CASE l # m
            <4>1. PICK v \in Workers : worker[v].job = l
                BY <1>2, <3>2 DEF Hands
            <4>2. v # w
                BY <1>3, <4>1, EmailAssumption DEF Hands
            <4> QED BY <4>1, <4>2, <1>7
        <3> QED BY <3>1, <3>2
    <2>4. \A u, v \in Workers :
              worker'[u].doing \in Busy /\ worker'[u].job = worker'[v].job => u = v
        BY <1>7, <2>1 DEF Hands
    <2> QED BY <2>2, <2>3, <2>4 DEF Hands
<1>9. Ending'
    BY <1>1, <1>3, <1>7 DEF Ending
<1>10. Deliveries'
    <2>1. delivered[m] = 0
        BY <1>1, <1>2 DEF Deliveries, DeliveriesBounded
    <2> QED BY <2>1, <1>1, <1>2, <1>3, <1>7 DEF Deliveries, DeliveriesBounded
<1> QED BY <1>4, <1>5, <1>6, <1>8, <1>9, <1>10

\* The worker w ends its mail m, which is somewhere outside afterwards.
LEMMA SettleInv ==
    ASSUME Inv, NEW w \in Workers, NEW m \in Mails, NEW place \in {"sent", "failed"},
           worker[w].doing = "sending", worker[w].job = m,
           mail' = [mail EXCEPT ![m] = place],
           worker' = [worker EXCEPT ![w] = Idle],
           delivered' \in [Mails -> Nat],
           \A l \in Mails : l # m => delivered'[l] = delivered[l],
           delivered'[m] <= worker[w].attempt,
           place = "sent" => delivered'[m] > 0,
           UNCHANGED <<queue, closed, stop, crashed>>
    PROVE  Inv'
<1> USE DEF Inv, Busy
<1>1. /\ mail' \in [Mails -> Places]
      /\ \A l \in Mails : mail'[l] = IF l = m THEN place ELSE mail[l]
      /\ mail[m] = "taken"
    BY DEF Typed, Places, Hands
<1>2. /\ worker'[w].doing = "idle" /\ worker'[w].job = NoMail
      /\ \A v \in Workers : v # w => worker'[v] = worker[v] /\ worker[v].job # m
    BY DEF Typed, Idle, Hands
<1>3. Typed'
    BY <1>1, EmailAssumption DEF Typed, Idle
<1>4. Notified'
    BY <1>1 DEF Notified, Mails
<1>5. Channel'
    <2>1. \A i \in 1 .. Len(queue) : queue[i] \in Mails /\ queue[i] # m
        BY <1>1 DEF Channel, Typed
    <2> QED BY <1>1, <2>1 DEF Channel
<1>6. Hands'
    <2>1. \A v \in Workers :
              IF worker'[v].doing \in Busy
              THEN worker'[v].job \in Mails /\ mail'[worker'[v].job] = "taken"
              ELSE worker'[v].job = NoMail
        BY <1>1, <1>2 DEF Hands
    <2>2. \A l \in Mails : mail'[l] = "taken" => \E v \in Workers : worker'[v].job = l
        BY <1>1, <1>2 DEF Hands
    <2>3. \A u, v \in Workers :
              worker'[u].doing \in Busy /\ worker'[u].job = worker'[v].job => u = v
        BY <1>2, <2>1, EmailAssumption DEF Hands
    <2> QED BY <2>1, <2>2, <2>3 DEF Hands
<1>7. Ending'
    BY <1>2 DEF Ending
<1>8. Deliveries'
    <2>1. delivered'[m] <= MaxRetries
        <3>1. worker[w].attempt \in 0 .. MaxRetries /\ delivered'[m] \in Nat
            BY DEF Typed
        <3> QED BY <3>1, EmailAssumption
    <2>2. DeliveriesBounded'
        BY <1>1, <2>1 DEF Deliveries, DeliveriesBounded
    <2> QED BY <1>2, <2>2 DEF Deliveries, Hands
<1> QED BY <1>3, <1>4, <1>5, <1>6, <1>7, <1>8

\* The worker w keeps its mail and pauses, or resumes.
LEMMA KeepInv ==
    ASSUME Inv, NEW w \in Workers, worker[w].doing \in Busy,
           NEW doing \in Busy, NEW attempt \in 1 .. MaxRetries,
           worker' \in [Workers -> [doing : Busy \cup {"idle", "ended"},
                                    job : Mails \cup {NoMail},
                                    attempt : 0 .. MaxRetries]],
           worker'[w].doing = doing, worker'[w].job = worker[w].job,
           worker'[w].attempt = attempt,
           \A v \in Workers : v # w => worker'[v] = worker[v],
           delivered' \in [Mails -> Nat],
           \A l \in Mails : l # worker[w].job => delivered'[l] = delivered[l],
           doing = "sending" => delivered'[worker[w].job] < attempt,
           doing = "pausing" => delivered'[worker[w].job] <= attempt /\ attempt < MaxRetries,
           UNCHANGED <<mail, queue, closed, stop, crashed>>
    PROVE  Inv'
<1> USE DEF Inv, Busy
<1>1. worker[w].job \in Mails /\ mail[worker[w].job] = "taken"
    BY DEF Hands
<1>2. \A v \in Workers : v # w => worker[v].job # worker[w].job
    BY DEF Hands
<1>3. Typed'
    BY DEF Typed
<1>4. Notified' /\ Channel' /\ Ending'
    BY <1>2 DEF Notified, Channel, Ending
<1>5. Hands'
    BY <1>1, <1>2 DEF Hands
<1>6. Deliveries'
    <2>1. delivered'[worker[w].job] <= MaxRetries
        <3>1. delivered'[worker[w].job] \in Nat
            BY <1>1
        <3> QED BY <3>1, EmailAssumption
    <2>2. DeliveriesBounded'
        BY <1>1, <2>1 DEF Deliveries, DeliveriesBounded
    <2> QED BY <1>2, <2>2 DEF Deliveries, Hands
<1> QED BY <1>3, <1>4, <1>5, <1>6

LEMMA SendInv == ASSUME Inv, NEW w \in Workers, Send(w) PROVE Inv'
<1> DEFINE m == worker[w].job
           n == worker[w].attempt
<1>1. PICK accepted \in BOOLEAN :
        /\ Attempt(w, accepted)
        /\ \/ accepted /\ Succeed(w)
           \/ n < MaxRetries /\ Pause(w)
           \/ n = MaxRetries /\ GiveUp(w)
    BY DEF Send
<1>2. /\ worker[w].doing = "sending" /\ m \in Mails
      /\ n \in 1 .. MaxRetries /\ delivered[m] \in Nat /\ delivered[m] < n
    BY <1>1 DEF Attempt, Inv, Typed, Hands, Busy, Deliveries
<1>3. /\ delivered' \in [Mails -> Nat]
      /\ \A l \in Mails : l # m => delivered'[l] = delivered[l]
      /\ delivered'[m] <= n
      /\ accepted => delivered'[m] > 0
    BY <1>1, <1>2 DEF Attempt, Inv, Typed
<1>4. UNCHANGED <<queue, closed, stop, crashed>>
    BY <1>1 DEF Attempt
<1>5. CASE accepted /\ Succeed(w)
    BY <1>2, <1>3, <1>4, <1>5, SettleInv DEF Succeed
<1>6. CASE n < MaxRetries /\ Pause(w)
    <2>1. /\ worker' \in [Workers -> [doing : Busy \cup {"idle", "ended"},
                                      job : Mails \cup {NoMail},
                                      attempt : 0 .. MaxRetries]]
          /\ worker'[w].doing = "pausing" /\ worker'[w].job = m /\ worker'[w].attempt = n
          /\ \A v \in Workers : v # w => worker'[v] = worker[v]
          /\ UNCHANGED mail
        BY <1>6 DEF Pause, Inv, Typed, Busy
    <2> QED BY <1>2, <1>3, <1>4, <1>6, <2>1, KeepInv DEF Busy
<1>7. CASE n = MaxRetries /\ GiveUp(w)
    BY <1>2, <1>3, <1>4, <1>7, SettleInv DEF GiveUp
<1> QED BY <1>1, <1>5, <1>6, <1>7

LEMMA RetryInv == ASSUME Inv, NEW w \in Workers, Retry(w) PROVE Inv'
<1> DEFINE m == worker[w].job
           n == worker[w].attempt
<1>1. /\ worker[w].doing = "pausing" /\ m \in Mails
      /\ n \in 0 .. MaxRetries /\ n < MaxRetries
      /\ delivered \in [Mails -> Nat] /\ delivered[m] <= n
    BY DEF Retry, Inv, Typed, Hands, Busy, Deliveries
<1>2. n + 1 \in 1 .. MaxRetries /\ delivered[m] < n + 1
    BY <1>1, EmailAssumption
<1>3. /\ worker' \in [Workers -> [doing : Busy \cup {"idle", "ended"},
                                  job : Mails \cup {NoMail},
                                  attempt : 0 .. MaxRetries]]
      /\ worker'[w].doing = "sending" /\ worker'[w].job = m /\ worker'[w].attempt = n + 1
      /\ \A v \in Workers : v # w => worker'[v] = worker[v]
    BY <1>2 DEF Retry, Inv, Typed, Busy
<1>4. UNCHANGED <<mail, queue, closed, delivered, stop, crashed>>
    BY DEF Retry
<1> QED BY <1>1, <1>2, <1>3, <1>4, KeepInv DEF Busy

LEMMA QuitInv == ASSUME Inv, NEW w \in Workers, Quit(w) PROVE Inv'
<1> USE DEF Inv, Busy
<1>1. /\ worker[w].doing = "idle" /\ closed /\ queue = <<>>
      /\ worker'[w].doing = "ended" /\ worker'[w].job = NoMail
      /\ \A v \in Workers : v # w => worker'[v] = worker[v]
      /\ UNCHANGED <<mail, queue, closed, delivered, stop, crashed>>
    BY DEF Quit, Idle, Typed
<1>2. Typed'
    BY <1>1, EmailAssumption DEF Quit, Typed, Idle
<1>3. Notified' /\ Channel'
    BY <1>1 DEF Notified, Channel
<1>4. Hands'
    <2>1. \A v \in Workers : worker'[v].job = worker[v].job
        BY <1>1 DEF Hands
    <2>2. \A v \in Workers : worker'[v].doing \in Busy <=> worker[v].doing \in Busy
        BY <1>1
    <2> QED BY <1>1, <2>1, <2>2 DEF Hands
<1>5. Ending'
    BY <1>1 DEF Ending
<1>6. Deliveries'
    BY <1>1 DEF Deliveries, DeliveriesBounded
<1> QED BY <1>2, <1>3, <1>4, <1>5, <1>6

LEMMA StopInv == ASSUME Inv, CloseQueue \/ StopReturns PROVE Inv'
<1> USE DEF Inv
<1>1. UNCHANGED <<mail, queue, worker, delivered, crashed>> /\ (closed => closed')
    BY DEF CloseQueue, StopReturns
<1>2. Typed'
    BY <1>1 DEF Typed, CloseQueue, StopReturns
<1>3. Notified' /\ Channel' /\ Hands'
    BY <1>1 DEF Notified, Channel, Hands
<1>4. Ending'
    BY <1>1 DEF Ending, CloseQueue, StopReturns
<1>5. Deliveries'
    BY <1>1 DEF Deliveries, DeliveriesBounded
<1> QED BY <1>2, <1>3, <1>4, <1>5

LEMMA UnmovedInv ==
    ASSUME Inv, UNCHANGED <<mail, queue, closed, worker, delivered, stop>>,
           crashed' \in BOOLEAN
    PROVE  Inv'
BY DEF Inv, Typed, Notified, Channel, Hands, Ending, Deliveries, DeliveriesBounded

\* The invariant holds of every behaviour of the service.
THEOREM ServiceInvariant == Spec => []Inv
<1>1. Inv /\ [Next]_vars => Inv'
    <2> SUFFICES ASSUME Inv, [Next]_vars PROVE Inv'
        OBVIOUS
    <2>1. CASE \E n \in Notices : Notify(n)
        BY <2>1, NotifyInv
    <2>2. CASE \E m \in Mails : EnqueuerStep(m)
        <3>1. \A m \in Mails : Panic(m) => Inv'
            BY UnmovedInv DEF Panic
        <3> QED BY <2>2, <3>1, EnqueueInv, DropInv DEF EnqueuerStep
    <2>3. CASE \E w \in Workers : WorkerStep(w) \/ Send(w)
        BY <2>3, TakeInv, RetryInv, QuitInv, SendInv DEF WorkerStep
    <2>4. CASE CloseQueue \/ StopReturns
        BY <2>4, StopInv
    <2>5. CASE UNCHANGED vars
        <3>1. crashed' \in BOOLEAN
            BY <2>5 DEF vars, Inv, Typed
        <3> QED BY <2>5, <3>1, UnmovedInv DEF vars
    <2> QED BY <2>1, <2>2, <2>3, <2>4, <2>5 DEF Next
<1> QED BY <1>1, InitInv, PTL DEF Spec

\* The channel stays within its capacity and every variable keeps its type.
THEOREM EmailTypeCorrect == Spec => []EmailTypeOK
<1>1. Inv => EmailTypeOK
    BY DEF Inv, Typed, EmailTypeOK, Busy
<1> QED BY <1>1, ServiceInvariant, PTL

\* No mail is lost or doubled between the channel and the workers.
THEOREM MailsAreKept == Spec => []MailInOnePlace
<1>1. Inv => MailInOnePlace
    <2> SUFFICES ASSUME Inv, NEW m \in Mails
                 PROVE  LET slots == {i \in DOMAIN queue : queue[i] = m}
                            hands == {w \in Workers : worker[w].job = m}
                        IN  /\ mail[m] = "queued" => \E i \in slots : slots = {i}
                            /\ mail[m] # "queued" => slots = {}
                            /\ mail[m] = "taken" => \E w \in hands : hands = {w}
                            /\ mail[m] # "taken" => hands = {}
        BY DEF MailInOnePlace
    <2> DEFINE slots == {i \in DOMAIN queue : queue[i] = m}
               hands == {w \in Workers : worker[w].job = m}
    <2>1. slots = {i \in 1 .. Len(queue) : queue[i] = m}
        BY DEF Inv, Typed
    <2>2. mail[m] = "queued" => \E i \in slots : slots = {i}
        BY <2>1 DEF Inv, Channel
    <2>3. mail[m] # "queued" => slots = {}
        BY <2>1 DEF Inv, Channel
    <2>4. \A w \in hands : worker[w].doing \in Busy
        BY EmailAssumption DEF Inv, Hands
    <2>5. mail[m] = "taken" => \E w \in hands : hands = {w}
        BY <2>4 DEF Inv, Hands
    <2>6. mail[m] # "taken" => hands = {}
        BY <2>4 DEF Inv, Hands
    <2> QED BY <2>2, <2>3, <2>5, <2>6
<1> QED BY <1>1, ServiceInvariant, PTL

\* When Stop returns without an error, no mail is left in the channel or with
\* a worker.
THEOREM StopIsGraceful == Spec => []GracefulStop
<1>1. Inv => GracefulStop
    <2> SUFFICES ASSUME Inv, stop = "graceful", NEW m \in Mails
                 PROVE  mail[m] \notin {"queued", "taken"}
        BY DEF GracefulStop
    <2>1. \A w \in Workers : worker[w].doing = "ended" /\ worker[w].job = NoMail
        BY DEF Inv, Ending, Hands, Busy
    <2>2. queue = <<>>
        BY <2>1, EmailAssumption DEF Inv, Ending
    <2>3. mail[m] # "queued"
        BY <2>2 DEF Inv, Channel
    <2>4. mail[m] # "taken"
        BY <2>1, EmailAssumption DEF Inv, Hands
    <2> QED BY <2>3, <2>4
<1> QED BY <1>1, ServiceInvariant, PTL

\* A mail is delivered at most once for each attempt, and one that counts as
\* sent was.
THEOREM DeliveriesAreBounded == Spec => []DeliveriesBounded
<1>1. Inv => DeliveriesBounded
    BY DEF Inv, Deliveries
<1> QED BY <1>1, ServiceInvariant, PTL
=============================================================================
