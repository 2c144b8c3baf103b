-------------------------- MODULE SimilarityProofs --------------------------
(****************************************************************************)
(* For any number of requests, connections and thresholds: a similarity     *)
(* query that nobody disturbed runs on the connection of its SET, if that   *)
(* is open.  A step of one request disturbs all others, so that the         *)
(* invariant follows them one by one.                                       *)
(****************************************************************************)
EXTENDS SimilaritySessions, SequenceTheorems, TLAPS

\* Who works with the database holds a connection.
Held(r) == pc[r] \in {"set", "query", "other"} => conn[r] \in Connections

\* The pool has room for the connection of an undisturbed SET, which has not
\* succeeded yet ...
Room(r) == pc[r] = "set" => /\ own[r] = None
                            /\ ~disturbed[r] => Len(idle) < MaxIdle

\* ... and gives it to the query that follows.
OnTop(r) ==
    pc[r] = "between" /\ own[r] # None /\ ~disturbed[r] =>
        /\ Len(idle) > 0
        /\ idle[Len(idle)] = own[r]
        /\ session[own[r]] = Threshold

Right(r) ==
    pc[r] = "query" /\ own[r] # None /\ ~disturbed[r] =>
        conn[r] = own[r] /\ session[conn[r]] = Threshold

SessionsInv ==
    /\ SessionsTypeOK
    /\ \A r \in Requests : Held(r) /\ Room(r) /\ OnTop(r) /\ Right(r)

----------------------------------------------------------------------------

\* What is set is a threshold, whatever the variable holds.
LEMMA ThresholdIsOne == Threshold \in Thresholds
  BY SessionsAssumption DEF Threshold

\* The pool after a request took a connection.
LEMMA AcquireEffect ==
  ASSUME SessionsTypeOK, NEW r \in Requests, Acquire(r)
  PROVE  /\ session' \in [Connections -> Thresholds \cup {None}]
         /\ idle' \in Seq(Connections) /\ Len(idle') < MaxIdle
         /\ conn' \in [Requests -> Connections \cup {None}]
         /\ conn'[r] \in Connections
         /\ \A q \in Requests \ {r} : conn'[q] = conn[q]
         /\ Len(idle) > 0 => conn'[r] = idle[Len(idle)] /\ session' = session
  <1>1. CASE idle # <<>>
    <2>1. Len(idle) \in Nat \ {0} /\ idle[Len(idle)] \in Connections
      BY <1>1 DEF SessionsTypeOK
    <2>2. idle' \in Seq(Connections) /\ Len(idle') = Len(idle) - 1
      <3>1. 1 \in 1 .. (Len(idle) + 1) /\ Len(idle) - 1 \in (1 - 1) .. Len(idle)
        BY <2>1
      <3> QED
        BY <1>1, <2>1, <3>1, SubSeqProperties DEF SessionsTypeOK, Acquire
    <2> QED
      BY <1>1, <2>1, <2>2, SessionsAssumption DEF SessionsTypeOK, Acquire
  <1>2. CASE idle = <<>>
    <2>1. PICK c \in Connections : /\ conn' = [conn EXCEPT ![r] = c]
                                   /\ session' = [session EXCEPT ![c] = ServerDefault]
                                   /\ idle' = idle
      BY <1>2 DEF Acquire, Open
    <2> QED
      BY <1>2, <2>1, SessionsAssumption DEF SessionsTypeOK
  <1> QED
    BY <1>1, <1>2

\* The pool after a request returned its connection.
LEMMA ReleaseEffect ==
  ASSUME SessionsTypeOK, NEW r \in Requests, NEW t \in Thresholds \cup {None},
         conn[r] \in Connections, Release(r, t)
  PROVE  /\ session' \in [Connections -> Thresholds \cup {None}]
         /\ idle' \in Seq(Connections) /\ Len(idle') <= MaxIdle
         /\ conn' \in [Requests -> Connections \cup {None}]
         /\ \A q \in Requests \ {r} : conn'[q] = conn[q]
         /\ Len(idle) < MaxIdle => /\ Len(idle') > 0
                                   /\ idle'[Len(idle')] = conn[r]
                                   /\ session'[conn[r]] = t
  <1>1. CASE Len(idle) < MaxIdle
    <2>1. idle' = Append(idle, conn[r]) /\ session' = [session EXCEPT ![conn[r]] = t]
      BY <1>1 DEF Release
    <2>2. /\ idle' \in Seq(Connections) /\ Len(idle') = Len(idle) + 1
          /\ idle'[Len(idle')] = conn[r]
      BY <2>1 DEF SessionsTypeOK
    <2> QED
      BY <1>1, <2>1, <2>2, SessionsAssumption DEF SessionsTypeOK, Release
  <1>2. CASE ~(Len(idle) < MaxIdle)
    BY <1>2 DEF SessionsTypeOK, Release
  <1> QED
    BY <1>1, <1>2

\* The request that takes a step is the only one to look at.
LEMMA OneRequest ==
  ASSUME SessionsInv, NEW r \in Requests, NEW to \in Labels,
         pc' = [pc EXCEPT ![r] = to],
         session' \in [Connections -> Thresholds \cup {None}],
         idle' \in Seq(Connections), Len(idle') <= MaxIdle,
         conn' \in [Requests -> Connections \cup {None}],
         own' \in [Requests -> Connections \cup {None}],
         disturbed' \in [Requests -> BOOLEAN],
         \A q \in Requests \ {r} :
            conn'[q] = conn[q] /\ own'[q] = own[q] /\ disturbed'[q],
         Held(r)', Room(r)', OnTop(r)', Right(r)'
  PROVE  SessionsInv'
  <1>1. SessionsTypeOK'
    BY DEF SessionsInv, SessionsTypeOK
  <1>2. ASSUME NEW q \in Requests, q # r
        PROVE  (Held(q) /\ Room(q) /\ OnTop(q) /\ Right(q))'
    <2>1. Held(q)'
      BY <1>2 DEF SessionsInv, SessionsTypeOK, Held
    <2>2. (Room(q) /\ OnTop(q) /\ Right(q))'
      BY <1>2 DEF SessionsInv, SessionsTypeOK, Room, OnTop, Right
    <2> QED
      BY <2>1, <2>2
  <1> QED
    BY <1>1, <1>2 DEF SessionsInv

\* A step of one request tells all others.
LEMMA OthersDisturbed ==
  ASSUME SessionsTypeOK, NEW r \in Requests, disturbed' = Disturb(r)
  PROVE  /\ disturbed' \in [Requests -> BOOLEAN]
         /\ disturbed'[r] = disturbed[r]
         /\ \A q \in Requests \ {r} : disturbed'[q]
  BY DEF SessionsTypeOK, Disturb

----------------------------------------------------------------------------

LEMMA InitInv == Init => SessionsInv
  BY SessionsAssumption
  DEF Init, SessionsInv, SessionsTypeOK, Labels, Held, Room, OnTop, Right

LEMMA BeginSetInv ==
  ASSUME SessionsInv, NEW r \in Requests, BeginSet(r)
  PROVE  SessionsInv'
  <1>1. SessionsTypeOK
    BY DEF SessionsInv
  <1>2. Acquire(r) /\ pc' = [pc EXCEPT ![r] = "set"] /\ pc'[r] = "set"
    BY <1>1 DEF SessionsTypeOK, BeginSet, Goto
  <1>3. /\ own' \in [Requests -> Connections \cup {None}]
        /\ disturbed' \in [Requests -> BOOLEAN]
        /\ own'[r] = None
        /\ \A q \in Requests \ {r} : own'[q] = own[q] /\ disturbed'[q]
    BY <1>1 DEF SessionsTypeOK, BeginSet, Disturb
  <1>4. /\ session' \in [Connections -> Thresholds \cup {None}]
        /\ idle' \in Seq(Connections) /\ Len(idle') < MaxIdle
        /\ conn' \in [Requests -> Connections \cup {None}]
        /\ conn'[r] \in Connections
        /\ \A q \in Requests \ {r} : conn'[q] = conn[q]
    BY <1>1, <1>2, AcquireEffect
  <1>5. Held(r)' /\ Room(r)' /\ OnTop(r)' /\ Right(r)'
    BY <1>2, <1>3, <1>4 DEF Held, Room, OnTop, Right
  <1>6. Len(idle') <= MaxIdle
    BY <1>4, SessionsAssumption
  <1>7. "set" \in Labels
    BY DEF Labels
  <1> QED
    BY <1>2, <1>3, <1>4, <1>5, <1>6, <1>7, OneRequest

LEMMA SetThresholdInv ==
  ASSUME SessionsInv, NEW r \in Requests, SetThreshold(r)
  PROVE  SessionsInv'
  <1>1. SessionsTypeOK /\ Held(r) /\ Room(r)
    BY DEF SessionsInv
  <1>2. /\ Release(r, Threshold) /\ disturbed' = Disturb(r)
        /\ pc[r] = "set" /\ pc' = [pc EXCEPT ![r] = "between"] /\ pc'[r] = "between"
        /\ conn[r] \in Connections
    BY <1>1 DEF SessionsTypeOK, SetThreshold, Goto, Held
  <1>3. /\ own' \in [Requests -> Connections \cup {None}]
        /\ own'[r] = conn[r]
        /\ \A q \in Requests \ {r} : own'[q] = own[q]
    BY <1>1, <1>2 DEF SessionsTypeOK, SetThreshold
  <1>4. /\ session' \in [Connections -> Thresholds \cup {None}]
        /\ idle' \in Seq(Connections) /\ Len(idle') <= MaxIdle
        /\ conn' \in [Requests -> Connections \cup {None}]
        /\ \A q \in Requests \ {r} : conn'[q] = conn[q]
        /\ Len(idle) < MaxIdle => /\ Len(idle') > 0
                                  /\ idle'[Len(idle')] = conn[r]
                                  /\ session'[conn[r]] = Threshold
    BY <1>1, <1>2, ReleaseEffect, ThresholdIsOne
  <1>5. /\ disturbed' \in [Requests -> BOOLEAN]
        /\ disturbed'[r] = disturbed[r]
        /\ \A q \in Requests \ {r} : disturbed'[q]
    BY <1>1, <1>2, OthersDisturbed
  <1>6. Threshold' = Threshold
    BY DEF Threshold
  <1>7. Held(r)' /\ Room(r)' /\ OnTop(r)' /\ Right(r)'
    BY <1>1, <1>2, <1>3, <1>4, <1>5, <1>6 DEF Held, Room, OnTop, Right
  <1>8. "between" \in Labels
    BY DEF Labels
  <1> QED
    BY <1>2, <1>3, <1>4, <1>5, <1>7, <1>8, OneRequest

LEMMA SetFailsInv ==
  ASSUME SessionsInv, NEW r \in Requests, SetFails(r) \/ SetLosesConnection(r)
  PROVE  SessionsInv'
  <1>1. SessionsTypeOK /\ Held(r) /\ Room(r)
    BY DEF SessionsInv
  <1>2. /\ disturbed' = Disturb(r) /\ own' = own
        /\ pc[r] = "set" /\ pc' = [pc EXCEPT ![r] = "between"] /\ pc'[r] = "between"
        /\ conn[r] \in Connections
    BY <1>1 DEF SessionsTypeOK, SetFails, SetLosesConnection, Goto, Held
  <1>3. /\ session' \in [Connections -> Thresholds \cup {None}]
        /\ idle' \in Seq(Connections) /\ Len(idle') <= MaxIdle
        /\ conn' \in [Requests -> Connections \cup {None}]
        /\ \A q \in Requests \ {r} : conn'[q] = conn[q]
    <2>1. CASE SetFails(r)
      <3>1. Release(r, session[conn[r]]) /\ session[conn[r]] \in Thresholds \cup {None}
        BY <1>1, <1>2, <2>1 DEF SessionsTypeOK, SetFails
      <3> QED
        BY <1>1, <1>2, <3>1, ReleaseEffect
    <2>2. CASE SetLosesConnection(r)
      BY <1>1, <2>2 DEF SessionsTypeOK, SetLosesConnection
    <2> QED
      BY <2>1, <2>2
  <1>4. /\ disturbed' \in [Requests -> BOOLEAN]
        /\ \A q \in Requests \ {r} : disturbed'[q]
    BY <1>1, <1>2, OthersDisturbed
  <1>5. own' \in [Requests -> Connections \cup {None}] /\ own'[r] = None
    BY <1>1, <1>2 DEF SessionsTypeOK, Room
  <1>6. Held(r)' /\ Room(r)' /\ OnTop(r)' /\ Right(r)'
    BY <1>2, <1>5 DEF Held, Room, OnTop, Right
  <1>7. "between" \in Labels
    BY DEF Labels
  <1> QED
    BY <1>2, <1>3, <1>4, <1>5, <1>6, <1>7, OneRequest

\* The query of a request nobody disturbed takes the connection of its SET.
LEMMA BeginQueryInv ==
  ASSUME SessionsInv, NEW r \in Requests, BeginQuery(r)
  PROVE  SessionsInv'
  <1>1. SessionsTypeOK /\ OnTop(r)
    BY DEF SessionsInv
  <1>2. /\ Acquire(r) /\ disturbed' = Disturb(r) /\ own' = own
        /\ pc[r] = "between" /\ pc' = [pc EXCEPT ![r] = "query"] /\ pc'[r] = "query"
    BY <1>1 DEF SessionsTypeOK, BeginQuery, Goto
  <1>3. /\ session' \in [Connections -> Thresholds \cup {None}]
        /\ idle' \in Seq(Connections) /\ Len(idle') < MaxIdle
        /\ conn' \in [Requests -> Connections \cup {None}]
        /\ conn'[r] \in Connections
        /\ \A q \in Requests \ {r} : conn'[q] = conn[q]
        /\ Len(idle) > 0 => conn'[r] = idle[Len(idle)] /\ session' = session
    BY <1>1, <1>2, AcquireEffect
  <1>4. /\ disturbed' \in [Requests -> BOOLEAN]
        /\ disturbed'[r] = disturbed[r]
        /\ \A q \in Requests \ {r} : disturbed'[q]
    BY <1>1, <1>2, OthersDisturbed
  <1>5. own' \in [Requests -> Connections \cup {None}]
    BY <1>1, <1>2 DEF SessionsTypeOK
  <1>6. Threshold' = Threshold
    BY DEF Threshold
  <1>7. Held(r)' /\ Room(r)' /\ OnTop(r)' /\ Right(r)'
    BY <1>1, <1>2, <1>3, <1>4, <1>6 DEF Held, Room, OnTop, Right
  <1>8. "query" \in Labels
    BY DEF Labels
  <1>9. Len(idle') <= MaxIdle
    BY <1>3, SessionsAssumption
  <1> QED
    BY <1>2, <1>3, <1>4, <1>5, <1>7, <1>8, <1>9, OneRequest

LEMMA BeginOtherInv ==
  ASSUME SessionsInv, NEW r \in Requests, BeginOther(r)
  PROVE  SessionsInv'
  <1>1. SessionsTypeOK
    BY DEF SessionsInv
  <1>2. /\ Acquire(r) /\ disturbed' = Disturb(r) /\ own' = own
        /\ pc' = [pc EXCEPT ![r] = "other"] /\ pc'[r] = "other"
    BY <1>1 DEF SessionsTypeOK, BeginOther, Goto
  <1>3. /\ session' \in [Connections -> Thresholds \cup {None}]
        /\ idle' \in Seq(Connections) /\ Len(idle') < MaxIdle
        /\ conn' \in [Requests -> Connections \cup {None}]
        /\ conn'[r] \in Connections
        /\ \A q \in Requests \ {r} : conn'[q] = conn[q]
    BY <1>1, <1>2, AcquireEffect
  <1>4. /\ disturbed' \in [Requests -> BOOLEAN]
        /\ \A q \in Requests \ {r} : disturbed'[q]
    BY <1>1, <1>2, OthersDisturbed
  <1>5. own' \in [Requests -> Connections \cup {None}]
    BY <1>1, <1>2 DEF SessionsTypeOK
  <1>6. Held(r)' /\ Room(r)' /\ OnTop(r)' /\ Right(r)'
    BY <1>2, <1>3 DEF Held, Room, OnTop, Right
  <1>7. Len(idle') <= MaxIdle
    BY <1>3, SessionsAssumption
  <1>8. "other" \in Labels
    BY DEF Labels
  <1> QED
    BY <1>2, <1>3, <1>4, <1>5, <1>6, <1>7, <1>8, OneRequest

LEMMA EndInv ==
  ASSUME SessionsInv, NEW r \in Requests, EndQuery(r) \/ EndOther(r)
  PROVE  SessionsInv'
  <1>1. SessionsTypeOK /\ Held(r)
    BY DEF SessionsInv
  <1>2. /\ Release(r, session[conn[r]]) /\ disturbed' = Disturb(r) /\ own' = own
        /\ pc' = [pc EXCEPT ![r] = "idle"] /\ pc'[r] = "idle"
        /\ conn[r] \in Connections /\ session[conn[r]] \in Thresholds \cup {None}
    BY <1>1 DEF SessionsTypeOK, EndQuery, EndOther, Goto, Held
  <1>3. /\ session' \in [Connections -> Thresholds \cup {None}]
        /\ idle' \in Seq(Connections) /\ Len(idle') <= MaxIdle
        /\ conn' \in [Requests -> Connections \cup {None}]
        /\ \A q \in Requests \ {r} : conn'[q] = conn[q]
    BY <1>1, <1>2, ReleaseEffect
  <1>4. /\ disturbed' \in [Requests -> BOOLEAN]
        /\ \A q \in Requests \ {r} : disturbed'[q]
    BY <1>1, <1>2, OthersDisturbed
  <1>5. own' \in [Requests -> Connections \cup {None}]
    BY <1>1, <1>2 DEF SessionsTypeOK
  <1>6. Held(r)' /\ Room(r)' /\ OnTop(r)' /\ Right(r)'
    BY <1>2 DEF Held, Room, OnTop, Right
  <1>7. "idle" \in Labels
    BY DEF Labels
  <1> QED
    BY <1>2, <1>3, <1>4, <1>5, <1>6, <1>7, OneRequest

LEMMA LoseIdleInv ==
  ASSUME SessionsInv, NEW i \in DOMAIN idle, LoseIdle(i)
  PROVE  SessionsInv'
  <1>1. SessionsTypeOK
    BY DEF SessionsInv
  <1>2. Len(idle) \in Nat \ {0} /\ i \in 1 .. Len(idle)
    BY <1>1 DEF SessionsTypeOK
  <1>3. /\ idle' \in [1 .. (Len(idle) - 1) -> Connections]
        /\ Len(idle) - 1 \in Nat
    BY <1>1, <1>2 DEF SessionsTypeOK, LoseIdle
  <1>4. idle' \in Seq(Connections) /\ Len(idle') = Len(idle) - 1
    BY <1>3, IsASeq, LenProperties
  <1>5. SessionsTypeOK'
    BY <1>1, <1>2, <1>4, SessionsAssumption DEF SessionsTypeOK, LoseIdle
  <1>6. ASSUME NEW r \in Requests
        PROVE  (Held(r) /\ Room(r) /\ OnTop(r) /\ Right(r))'
    <2>1. /\ Held(r) /\ Room(r) /\ OnTop(r) /\ Right(r)
          /\ pc' = pc /\ conn' = conn /\ disturbed' = disturbed
          /\ own'[r] = IF own[r] = idle[i] THEN None ELSE own[r]
          /\ \A c \in Connections : c # idle[i] => session'[c] = session[c]
      BY <1>1 DEF SessionsInv, SessionsTypeOK, LoseIdle
    <2>2. Held(r)' /\ Room(r)'
      BY <1>2, <1>4, <2>1, SessionsAssumption DEF Held, Room
    <2>3. own[r] # None => own[r] \in Connections
      BY <1>1 DEF SessionsTypeOK
    <2>4. OnTop(r)'
      <3> SUFFICES ASSUME pc[r] = "between", own'[r] # None, ~disturbed[r]
                   PROVE  /\ Len(idle') > 0
                          /\ idle'[Len(idle')] = own'[r]
                          /\ session'[own'[r]] = Threshold
        BY <2>1 DEF OnTop, Threshold
      <3>1. own[r] # None /\ own[r] # idle[i] /\ own'[r] = own[r]
        BY <2>1
      <3>2. idle[Len(idle)] = own[r] /\ session[own[r]] = Threshold
        BY <2>1, <3>1 DEF OnTop
      <3>3. i < Len(idle)
        BY <1>2, <3>1, <3>2
      <3>4. idle'[Len(idle) - 1] = idle[Len(idle)]
        BY <1>2, <3>3 DEF LoseIdle
      <3> QED
        BY <1>2, <1>4, <2>1, <2>3, <3>1, <3>2, <3>3, <3>4
    <2>5. Right(r)'
      BY <2>1, <2>3 DEF Right, Threshold
    <2> QED
      BY <2>2, <2>4, <2>5
  <1> QED
    BY <1>5, <1>6 DEF SessionsInv

LEMMA NextInv == SessionsInv /\ [Next]_vars => SessionsInv'
  <1> SUFFICES ASSUME SessionsInv, [Next]_vars
               PROVE  SessionsInv'
    OBVIOUS
  <1>1. CASE UNCHANGED vars
    BY <1>1 DEF SessionsInv, SessionsTypeOK, Held, Room, OnTop, Right, Threshold, vars
  <1>2. CASE \E i \in DOMAIN idle : LoseIdle(i)
    BY <1>2, LoseIdleInv
  <1>3. ASSUME NEW r \in Requests,
               \/ BeginSet(r) \/ SetThreshold(r) \/ SetFails(r) \/ SetLosesConnection(r)
               \/ BeginQuery(r) \/ EndQuery(r) \/ BeginOther(r) \/ EndOther(r)
        PROVE  SessionsInv'
    BY <1>3, BeginSetInv, SetThresholdInv, SetFailsInv, BeginQueryInv, BeginOtherInv, EndInv
  <1> QED
    BY <1>1, <1>2, <1>3 DEF Next

----------------------------------------------------------------------------

\* The pool never keeps more connections than database/sql is told to, and the
\* requests hold connections of the program only.
THEOREM SessionsTypeCorrect == Spec => []SessionsTypeOK
  <1>1. SessionsInv => SessionsTypeOK
    BY DEF SessionsInv
  <1> QED
    BY <1>1, InitInv, NextInv, PTL DEF Spec

\* However many requests share the pool: a similarity query compares with
\* another threshold than the configured one only if its SET failed, if the server
\* closed the connection of the SET while it was free, or if another request used
\* the pool between SET and query.
THEOREM WrongThresholdIsExplained == Spec => []WrongThresholdNeedsDisturbance
  <1>1. SessionsInv => WrongThresholdNeedsDisturbance
    BY DEF SessionsInv, Right, WrongThresholdNeedsDisturbance
  <1> QED
    BY <1>1, InitInv, NextInv, PTL DEF Spec
=============================================================================
