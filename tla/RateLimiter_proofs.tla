-------------------------- MODULE RateLimiter_proofs --------------------------
(***************************************************************************)
(* Machine-checked proofs about RateLimiter, for any number of requests,   *)
(* clients and processes, any window and limit, and any bounds on the skew *)
(* of the clocks and the delay of the script.                              *)
(***************************************************************************)
EXTENDS RateLimiter, FiniteSetTheorems, TLAPS

LEMMA LimiterInit == Init => LimiterInv
<1> SUFFICES ASSUME Init PROVE LimiterInv
  OBVIOUS
<1>1. TypeOK
  BY DEF Init, TypeOK, States
<1>2. ClocksWithinSpread /\ LogOfClient /\ RecentAreOnTheLog
  BY DEF Init, ClocksWithinSpread, LogOfClient, RecentAreOnTheLog
<1>3. LogWithinLimit
  BY FS_EmptySet, LimitAssumption DEF Init, LogWithinLimit
<1> QED
  BY <1>1, <1>2, <1>3 DEF LimiterInv

-----------------------------------------------------------------------------
(* What a run of the script finds and leaves.                              *)

\* What remains after the eviction is what was on the log and is young enough.
LEMMA RemainingOnTheLog ==
    ASSUME LimiterInv, NEW r \in Requests
    PROVE  /\ Remaining(r) \in SUBSET log[ClientOf[r]]
           /\ Remaining(r) \in SUBSET Requests
           /\ IsFiniteSet(Remaining(r)) /\ Cardinality(Remaining(r)) \in Nat
           /\ \A q \in Remaining(r) : clock[q] > clock[r] - Window
<1>1. ClientOf[r] \in Clients
  BY RequestAssumption
<1>2. Remaining(r) \in SUBSET log[ClientOf[r]]
  BY DEF Remaining, Found
<1>3. log[ClientOf[r]] \in SUBSET Requests
  BY <1>1 DEF LimiterInv, TypeOK
<1>4. IsFiniteSet(Remaining(r))
  BY <1>2, <1>3, RequestAssumption, FS_Subset
<1> QED
  BY <1>2, <1>3, <1>4, FS_CardinalityType DEF Remaining

\* Whoever has been admitted recently survives the eviction, whatever the clock
\* of the process that asks for it, and the expiry of the key.
LEMMA RecentRemain ==
    ASSUME LimiterInv, NEW r \in Requests, state[r] = "sent",
           NEW q \in Requests, state[q] = "admitted", ClientOf[q] = ClientOf[r],
           decidedAt[q] > now - (Window - Spread)
    PROVE  q \in Remaining(r)
<1> USE DEF LimiterInv
<1>1. /\ ClientOf[r] \in Clients
      /\ Window \in Nat /\ Delay \in Nat /\ Skew \in Nat /\ now \in Nat
      /\ decidedAt[q] \in Nat /\ clock[q] \in Int /\ clock[r] \in Int /\ sentAt[r] \in Nat
      /\ expiry[ClientOf[r]] \in Nat
  BY RequestAssumption, LimitAssumption, ClockAssumption DEF TypeOK
<1>2. q \in log[ClientOf[r]]
  BY DEF RecentAreOnTheLog
<1>3. decidedAt[q] + Window <= expiry[ClientOf[r]]
  BY <1>1, <1>2 DEF LogOfClient
<1>4. now < expiry[ClientOf[r]]
  BY <1>1, <1>3 DEF Spread
<1>5. /\ decidedAt[q] - (Delay + Skew) <= clock[q]
      /\ sentAt[r] <= now /\ clock[r] <= sentAt[r] + Skew
  BY DEF ClocksWithinSpread
<1>6. clock[q] > clock[r] - Window
  BY <1>1, <1>5 DEF Spread
<1> QED
  BY <1>2, <1>4, <1>6 DEF Remaining, Found

\* A script that records the request leaves the invariant; `outcome` is what
\* its caller makes of it.
LEMMA RecordKeeps ==
    ASSUME LimiterInv, NEW r \in Requests,
           NEW outcome \in {"admitted", "open"},
           Decide(r, outcome), ~Full(Remaining(r)), Record(r, Remaining(r))
    PROVE  LimiterInv'
<1> DEFINE c == ClientOf[r]
<1> USE DEF LimiterInv
<1>0. /\ c \in Clients /\ Window \in Nat /\ Delay \in Nat /\ Skew \in Nat
      /\ MaxRequests \in Nat /\ now \in Nat /\ expiry[c] \in Nat
  BY RequestAssumption, LimitAssumption, ClockAssumption DEF TypeOK
<1>1. /\ Remaining(r) \in SUBSET log[c] /\ Remaining(r) \in SUBSET Requests
      /\ IsFiniteSet(Remaining(r)) /\ Cardinality(Remaining(r)) \in Nat
  BY RemainingOnTheLog
<1>2. /\ state[r] = "sent"
      /\ state' = [state EXCEPT ![r] = outcome]
      /\ decidedAt' = [decidedAt EXCEPT ![r] = now]
      /\ log' = [log EXCEPT ![c] = Remaining(r) \cup {r}]
      /\ expiry' = [expiry EXCEPT ![c] = now + Window]
      /\ UNCHANGED <<now, sentAt, clock>>
  BY DEF Decide, Record
<1> HIDE DEF c
<1>3. TypeOK'
  BY <1>0, <1>1, <1>2 DEF TypeOK, States
<1>4. \A d \in Clients : r \notin log[d]
  BY <1>2 DEF LogOfClient
<1>5. \A d \in Clients : \A q \in log'[d] :
        \/ q = r /\ d = c
        \/ q # r /\ q \in log[d]
  BY <1>0, <1>1, <1>2, <1>4 DEF TypeOK
<1>6. ClocksWithinSpread'
  <2>1. ASSUME NEW q \in Requests, state'[q] = "sent"
        PROVE  /\ sentAt'[q] <= now' /\ now' <= sentAt'[q] + Delay
               /\ sentAt'[q] - Skew <= clock'[q] /\ clock'[q] <= sentAt'[q] + Skew
    <3>1. q # r
      BY <1>2, <2>1 DEF TypeOK
    <3> QED
      BY <1>2, <2>1, <3>1 DEF TypeOK, ClocksWithinSpread
  <2>2. ASSUME NEW q \in Requests,
               state'[q] = "admitted" \/ (\E d \in Clients : q \in log'[d])
        PROVE  /\ decidedAt'[q] <= now'
               /\ decidedAt'[q] - (Delay + Skew) <= clock'[q]
               /\ clock'[q] <= decidedAt'[q] + Skew
    <3>1. CASE q = r
      <4>1. decidedAt'[r] = now /\ clock'[r] = clock[r]
        BY <1>2 DEF TypeOK
      <4>2. /\ sentAt[r] <= now /\ now <= sentAt[r] + Delay
            /\ sentAt[r] - Skew <= clock[r] /\ clock[r] <= sentAt[r] + Skew
        BY <1>2 DEF ClocksWithinSpread
      <4>3. sentAt[r] \in Nat /\ clock[r] \in Int
        BY DEF TypeOK
      <4> QED
        BY <1>0, <1>2, <3>1, <4>1, <4>2, <4>3
    <3>2. CASE q # r
      <4>1. state[q] = "admitted" \/ (\E d \in Clients : q \in log[d])
        BY <1>2, <1>5, <2>2, <3>2 DEF TypeOK
      <4> QED
        BY <1>2, <2>2, <3>2, <4>1 DEF TypeOK, ClocksWithinSpread
    <3> QED
      BY <3>1, <3>2
  <2> QED
    BY <2>1, <2>2 DEF ClocksWithinSpread
<1>7. LogOfClient'
  <2> SUFFICES ASSUME NEW d \in Clients, NEW q \in log'[d]
               PROVE  /\ ClientOf[q] = d
                      /\ state'[q] \in {"admitted", "open"}
                      /\ decidedAt'[q] + Window <= expiry'[d]
    BY DEF LogOfClient
  <2>1. CASE q = r /\ d = c
    BY <1>0, <1>2, <2>1 DEF TypeOK, c
  <2>2. CASE q # r /\ q \in log[d]
    <3>1. /\ q \in Requests /\ ClientOf[q] = d
          /\ state[q] \in {"admitted", "open"} /\ decidedAt[q] + Window <= expiry[d]
      BY <2>2 DEF TypeOK, LogOfClient
    <3>2. decidedAt'[q] = decidedAt[q] /\ state'[q] = state[q]
      BY <1>2, <2>2, <3>1 DEF TypeOK
    <3>3. decidedAt[q] <= now
      BY <2>2, <3>1 DEF ClocksWithinSpread
    <3>4. decidedAt[q] + Window <= expiry'[d]
      <4>1. CASE d = c
        BY <1>0, <1>2, <3>1, <3>3, <4>1 DEF TypeOK
      <4>2. CASE d # c
        BY <1>2, <3>1, <4>2 DEF TypeOK
      <4> QED
        BY <4>1, <4>2
    <3> QED
      BY <3>1, <3>2, <3>4
  <2> QED
    BY <1>5, <2>1, <2>2
<1>8. LogWithinLimit'
  <2> SUFFICES ASSUME NEW d \in Clients
               PROVE  Cardinality(log'[d]) <= MaxRequests
    BY DEF LogWithinLimit
  <2>1. CASE d = c
    <3>1. log'[d] = Remaining(r) \cup {r} /\ r \notin Remaining(r)
      BY <1>0, <1>1, <1>2, <1>4, <2>1 DEF TypeOK
    <3>2. Cardinality(log'[d]) = Cardinality(Remaining(r)) + 1
      BY <1>1, <3>1, FS_AddElement
    <3>3. ~(Cardinality(Remaining(r)) >= MaxRequests)
      BY DEF Full
    <3> QED
      BY <1>0, <1>1, <3>2, <3>3
  <2>2. CASE d # c
    BY <1>2, <2>2 DEF TypeOK, LogWithinLimit
  <2> QED
    BY <2>1, <2>2
<1>9. RecentAreOnTheLog'
  <2> SUFFICES ASSUME NEW q \in Requests, state'[q] = "admitted",
                      decidedAt'[q] > now - (Window - Spread)
               PROVE  q \in log'[ClientOf[q]]
    BY <1>2 DEF RecentAreOnTheLog, Spread
  <2>1. CASE q = r
    BY <1>0, <1>2, <2>1 DEF TypeOK, c
  <2>2. CASE q # r
    <3>1. state[q] = "admitted" /\ decidedAt[q] > now - (Window - Spread)
      BY <1>2, <2>2 DEF TypeOK
    <3>2. CASE ClientOf[q] = c
      BY <1>0, <1>2, <3>1, <3>2, RecentRemain DEF TypeOK, c
    <3>3. CASE ClientOf[q] # c
      <4>1. q \in log[ClientOf[q]] /\ ClientOf[q] \in Clients
        BY <3>1, RequestAssumption DEF RecentAreOnTheLog
      <4> QED
        BY <1>2, <3>3, <4>1 DEF TypeOK
    <3> QED
      BY <3>2, <3>3
  <2> QED
    BY <2>1, <2>2
<1> QED
  BY <1>3, <1>6, <1>7, <1>8, <1>9

\* A script that refuses evicts, and leaves the invariant too.
LEMMA RefusalKeeps ==
    ASSUME LimiterInv, NEW r \in Requests,
           NEW outcome \in {"refused", "open"},
           Decide(r, outcome), UNCHANGED expiry,
           log' = [log EXCEPT ![ClientOf[r]] = Remaining(r)]
    PROVE  LimiterInv'
<1> USE DEF LimiterInv
<1>0. /\ ClientOf[r] \in Clients /\ now \in Nat
  BY RequestAssumption DEF TypeOK
<1>1. /\ Remaining(r) \in SUBSET log[ClientOf[r]] /\ Remaining(r) \in SUBSET Requests
  BY RemainingOnTheLog
<1>2. /\ state[r] = "sent"
      /\ state' = [state EXCEPT ![r] = outcome]
      /\ decidedAt' = [decidedAt EXCEPT ![r] = now]
      /\ UNCHANGED <<now, sentAt, clock, expiry>>
  BY DEF Decide
<1>3. TypeOK'
  BY <1>0, <1>1, <1>2 DEF TypeOK, States
<1>4. \A d \in Clients : r \notin log[d] /\ log'[d] \in SUBSET log[d]
  BY <1>0, <1>1, <1>2 DEF TypeOK, LogOfClient
<1>5. \A q \in Requests : q # r => state'[q] = state[q] /\ decidedAt'[q] = decidedAt[q]
  BY <1>2 DEF TypeOK
<1>6. state'[r] \notin {"sent", "admitted"}
  BY <1>2 DEF TypeOK
<1>7. ClocksWithinSpread'
  BY <1>2, <1>4, <1>5, <1>6 DEF ClocksWithinSpread
<1>8. LogOfClient'
  <2> SUFFICES ASSUME NEW d \in Clients, NEW q \in log'[d]
               PROVE  /\ ClientOf[q] = d
                      /\ state'[q] \in {"admitted", "open"}
                      /\ decidedAt'[q] + Window <= expiry'[d]
    BY DEF LogOfClient
  <2>1. q \in log[d] /\ q # r /\ q \in Requests
    BY <1>4 DEF TypeOK
  <2> QED
    BY <1>2, <1>5, <2>1 DEF LogOfClient
<1>9. LogWithinLimit'
  <2> SUFFICES ASSUME NEW d \in Clients
               PROVE  Cardinality(log'[d]) <= MaxRequests
    BY DEF LogWithinLimit
  <2>1. IsFiniteSet(log[d])
    BY RequestAssumption, FS_Subset DEF TypeOK
  <2>2. Cardinality(log'[d]) <= Cardinality(log[d])
    BY <1>4, <2>1, FS_Subset
  <2>3. Cardinality(log[d]) <= MaxRequests
    BY DEF LogWithinLimit
  <2>4. /\ Cardinality(log[d]) \in Nat /\ Cardinality(log'[d]) \in Nat /\ MaxRequests \in Nat
    BY <1>4, <2>1, FS_Subset, FS_CardinalityType, LimitAssumption
  <2> QED
    BY <2>2, <2>3, <2>4
<1>10. RecentAreOnTheLog'
  <2> SUFFICES ASSUME NEW q \in Requests, state'[q] = "admitted",
                      decidedAt'[q] > now - (Window - Spread)
               PROVE  q \in log'[ClientOf[q]]
    BY <1>2 DEF RecentAreOnTheLog, Spread
  <2>1. q # r /\ state[q] = "admitted" /\ decidedAt[q] > now - (Window - Spread)
    BY <1>5, <1>6
  <2>2. CASE ClientOf[q] = ClientOf[r]
    BY <1>0, <1>2, <2>1, <2>2, RecentRemain DEF TypeOK
  <2>3. CASE ClientOf[q] # ClientOf[r]
    <3>1. q \in log[ClientOf[q]] /\ ClientOf[q] \in Clients
      BY <2>1, RequestAssumption DEF RecentAreOnTheLog
    <3> QED
      BY <2>3, <3>1 DEF TypeOK
  <2> QED
    BY <2>2, <2>3
<1> QED
  BY <1>3, <1>7, <1>8, <1>9, <1>10

-----------------------------------------------------------------------------
LEMMA LimiterStep ==
    ASSUME LimiterInv, [Next]_vars
    PROVE  LimiterInv'
<1> USE DEF LimiterInv
<1>0. now \in Nat /\ Skew \in Nat /\ Delay \in Nat /\ Window \in Nat
  BY LimitAssumption, ClockAssumption DEF TypeOK
<1>1. ASSUME NEW r \in Requests, Send(r)
      PROVE  LimiterInv'
  <2> USE <1>1 DEF Send
  <2>0. PICK offset \in -Skew .. Skew : clock' = [clock EXCEPT ![r] = now + offset]
    BY <1>1
  <2>1. TypeOK'
    BY <1>0, <2>0 DEF TypeOK, States
  <2>2. \A d \in Clients : r \notin log[d]
    BY DEF LogOfClient
  <2>3. clock'[r] = now + offset /\ sentAt'[r] = now /\ state'[r] = "sent"
    BY <2>0 DEF TypeOK
  <2>4. \A q \in Requests : q # r =>
          clock'[q] = clock[q] /\ sentAt'[q] = sentAt[q] /\ state'[q] = state[q]
    BY <2>0 DEF TypeOK
  <2>5. ClocksWithinSpread'
    <3> SUFFICES ASSUME NEW q \in Requests
                 PROVE  /\ state'[q] = "sent" =>
                             /\ sentAt'[q] <= now /\ now <= sentAt'[q] + Delay
                             /\ sentAt'[q] - Skew <= clock'[q]
                             /\ clock'[q] <= sentAt'[q] + Skew
                        /\ state'[q] = "admitted" \/ (\E c \in Clients : q \in log[c]) =>
                             /\ decidedAt[q] <= now
                             /\ decidedAt[q] - (Delay + Skew) <= clock'[q]
                             /\ clock'[q] <= decidedAt[q] + Skew
      BY DEF ClocksWithinSpread
    <3>1. CASE q = r
      BY <1>0, <2>0, <2>2, <2>3, <3>1
    <3>2. CASE q # r
      BY <2>4, <3>2 DEF ClocksWithinSpread
    <3> QED
      BY <3>1, <3>2
  <2>6. LogOfClient'
    BY <2>1, <2>2, <2>4 DEF LogOfClient, TypeOK
  <2>7. LogWithinLimit'
    BY DEF LogWithinLimit
  <2>8. RecentAreOnTheLog'
    BY <2>3, <2>4 DEF RecentAreOnTheLog, Spread
  <2> QED
    BY <2>1, <2>5, <2>6, <2>7, <2>8
<1>2. ASSUME NEW r \in Requests, Admit(r)
      PROVE  LimiterInv'
  BY <1>2, RecordKeeps DEF Admit
<1>3. ASSUME NEW r \in Requests, Refuse(r)
      PROVE  LimiterInv'
  BY <1>3, RefusalKeeps DEF Refuse
<1>4. ASSUME NEW r \in Requests, AnswerLost(r)
      PROVE  LimiterInv'
  BY <1>4, RecordKeeps, RefusalKeeps DEF AnswerLost
<1>5. ASSUME NEW r \in Requests, FailOpen(r)
      PROVE  LimiterInv'
  <2> USE <1>5 DEF FailOpen
  <2>1. TypeOK'
    BY DEF TypeOK, States
  <2>2. \A q \in Requests : q # r => state'[q] = state[q]
    BY DEF TypeOK
  <2>3. state'[r] = "open"
    BY DEF TypeOK
  <2>4. \A d \in Clients : r \notin log[d]
    BY DEF LogOfClient
  <2>5. ClocksWithinSpread'
    BY <2>2, <2>3, <2>4 DEF ClocksWithinSpread
  <2>6. LogOfClient'
    BY <2>2, <2>4 DEF LogOfClient, TypeOK
  <2>7. RecentAreOnTheLog'
    BY <2>2, <2>3 DEF RecentAreOnTheLog, Spread
  <2> QED
    BY <2>1, <2>5, <2>6, <2>7 DEF LogWithinLimit
<1>6. CASE Tick
  <2> USE <1>6 DEF Tick
  <2>1. TypeOK'
    BY <1>0 DEF TypeOK
  <2>2. ClocksWithinSpread'
    <3> SUFFICES ASSUME NEW q \in Requests
                 PROVE  /\ state[q] = "sent" =>
                             /\ sentAt[q] <= now + 1 /\ now + 1 <= sentAt[q] + Delay
                             /\ sentAt[q] - Skew <= clock[q]
                             /\ clock[q] <= sentAt[q] + Skew
                        /\ state[q] = "admitted" \/ (\E c \in Clients : q \in log[c]) =>
                             /\ decidedAt[q] <= now + 1
                             /\ decidedAt[q] - (Delay + Skew) <= clock[q]
                             /\ clock[q] <= decidedAt[q] + Skew
      BY DEF ClocksWithinSpread
    <3>1. sentAt[q] \in Nat /\ decidedAt[q] \in Nat
      BY DEF TypeOK
    <3> QED
      BY <1>0, <3>1 DEF ClocksWithinSpread
  <2>3. RecentAreOnTheLog'
    <3> SUFFICES ASSUME NEW q \in Requests, state[q] = "admitted",
                        decidedAt[q] > (now + 1) - (Window - Spread)
                 PROVE  q \in log[ClientOf[q]]
      BY DEF RecentAreOnTheLog, Spread
    <3>1. decidedAt[q] > now - (Window - Spread)
      BY <1>0 DEF TypeOK, Spread
    <3> QED
      BY <3>1 DEF RecentAreOnTheLog
  <2> QED
    BY <2>1, <2>2, <2>3 DEF LogOfClient, LogWithinLimit
<1>7. CASE UNCHANGED vars
  BY <1>7 DEF vars, TypeOK, ClocksWithinSpread, LogOfClient, LogWithinLimit,
     RecentAreOnTheLog, Spread
<1> QED
  BY <1>1, <1>2, <1>3, <1>4, <1>5, <1>6, <1>7 DEF Next

\* The invariant of the log, its clocks and its expiry holds in every state.
THEOREM LimiterInvariant == Spec => []LimiterInv
<1>1. Init => LimiterInv
  BY LimiterInit
<1>2. LimiterInv /\ [Next]_vars => LimiterInv'
  BY LimiterStep
<1> QED
  BY <1>1, <1>2, PTL DEF Spec

\* The sliding window in real time: whoever was admitted in the last Window less
\* the spread of the scores is on the log, and the log is never over the limit.
THEOREM RecentIsWithinLimit == Spec => []RecentWithinLimit
<1>1. ASSUME LimiterInv PROVE RecentWithinLimit
  <2> SUFFICES ASSUME NEW c \in Clients,
                      NEW S, S = {r \in Admitted(c) : decidedAt[r] > now - (Window - Spread)}
               PROVE  Cardinality(S) <= MaxRequests
    BY DEF RecentWithinLimit
  <2>1. S \in SUBSET log[c]
    BY <1>1 DEF LimiterInv, RecentAreOnTheLog, Admitted
  <2>2. log[c] \in SUBSET Requests
    BY <1>1 DEF LimiterInv, TypeOK
  <2>3. IsFiniteSet(log[c])
    BY <2>2, RequestAssumption, FS_Subset
  <2>4. IsFiniteSet(S) /\ Cardinality(S) <= Cardinality(log[c])
    BY <2>1, <2>3, FS_Subset
  <2>5. Cardinality(log[c]) <= MaxRequests
    BY <1>1 DEF LimiterInv, LogWithinLimit
  <2>6. Cardinality(S) \in Nat /\ Cardinality(log[c]) \in Nat /\ MaxRequests \in Nat
    BY <2>3, <2>4, FS_CardinalityType, LimitAssumption
  <2> QED
    BY <2>4, <2>5, <2>6
<1> QED
  BY <1>1, LimiterInvariant, PTL

\* Nobody is refused who has not used up the limit within the last Window and
\* the spread of the scores: what the script counts is that recent.
THEOREM RefusalIsJustified == Spec => RefusedOnlyAtLimit
<1> DEFINE Used(r) ==
      {q \in Requests : /\ ClientOf[q] = ClientOf[r]
                        /\ state[q] \in {"admitted", "open"}
                        /\ decidedAt[q] > now - (Window + Spread)}
<1>1. ASSUME LimiterInv, Next, NEW r \in Requests, state[r] # "refused", state'[r] = "refused"
      PROVE  MaxRequests <= Cardinality(Used(r))
  <2>1. Refuse(r)
    <3>1. \A q \in Requests : q # r =>
            ~(Send(q) \/ Admit(q) \/ Refuse(q) \/ FailOpen(q) \/ AnswerLost(q))
      BY <1>1 DEF Send, Admit, Refuse, FailOpen, AnswerLost, Decide, LimiterInv, TypeOK
    <3>2. ~(Send(r) \/ Admit(r) \/ FailOpen(r) \/ AnswerLost(r))
      BY <1>1 DEF Send, Admit, FailOpen, AnswerLost, Decide, LimiterInv, TypeOK
    <3>3. ~Tick
      BY <1>1 DEF Tick
    <3> QED
      BY <1>1, <3>1, <3>2, <3>3 DEF Next
  <2>2. state[r] = "sent" /\ Cardinality(Remaining(r)) >= MaxRequests
    BY <2>1 DEF Refuse, Decide, Full
  <2>3. /\ Remaining(r) \in SUBSET log[ClientOf[r]] /\ Remaining(r) \in SUBSET Requests
        /\ Cardinality(Remaining(r)) \in Nat
        /\ \A q \in Remaining(r) : clock[q] > clock[r] - Window
    BY <1>1, RemainingOnTheLog
  <2>4. ASSUME NEW q \in Remaining(r)
        PROVE  q \in Used(r)
    <3>1. q \in Requests /\ q \in log[ClientOf[r]] /\ ClientOf[r] \in Clients
      BY <2>3, RequestAssumption
    <3>2. ClientOf[q] = ClientOf[r] /\ state[q] \in {"admitted", "open"}
      BY <1>1, <3>1 DEF LimiterInv, LogOfClient
    <3>3. clock[q] <= decidedAt[q] + Skew
      BY <1>1, <3>1 DEF LimiterInv, ClocksWithinSpread
    <3>4. now <= sentAt[r] + Delay /\ sentAt[r] - Skew <= clock[r]
      BY <1>1, <2>2 DEF LimiterInv, ClocksWithinSpread
    <3>5. clock[q] > clock[r] - Window
      BY <2>3
    <3>6. /\ clock[q] \in Int /\ clock[r] \in Int /\ decidedAt[q] \in Nat /\ sentAt[r] \in Nat
          /\ now \in Nat /\ Skew \in Nat /\ Delay \in Nat /\ Window \in Nat
      BY <1>1, <3>1, LimitAssumption, ClockAssumption DEF LimiterInv, TypeOK
    <3>7. decidedAt[q] > now - (Window + Spread)
      BY <3>3, <3>4, <3>5, <3>6 DEF Spread
    <3> QED
      BY <3>1, <3>2, <3>7
  <2> HIDE DEF Used
  <2>5. IsFiniteSet(Used(r))
    <3>1. Used(r) \in SUBSET Requests
      BY DEF Used
    <3> QED
      BY <3>1, RequestAssumption, FS_Subset
  <2>6. Cardinality(Remaining(r)) <= Cardinality(Used(r)) /\ Cardinality(Used(r)) \in Nat
    <3>1. Remaining(r) \in SUBSET Used(r)
      BY <2>4
    <3> QED
      BY <2>5, <3>1, FS_Subset, FS_CardinalityType
  <2>7. MaxRequests \in Nat
    BY LimitAssumption
  <2> QED
    BY <2>2, <2>3, <2>6, <2>7
<1>2. LimiterInv /\ [Next]_vars =>
        [\A r \in Requests : state[r] # "refused" /\ state'[r] = "refused"
            => MaxRequests <= Cardinality(Used(r))]_vars
  BY <1>1
<1> QED
  BY <1>2, LimiterInvariant, PTL DEF Spec, RefusedOnlyAtLimit
=============================================================================
