------------------------------ MODULE RateLimiter ------------------------------
(***************************************************************************)
(* The rate limiter in front of POST /orders: per client a log of the      *)
(* requests it admitted, a sorted set in Redis, and one Lua script that    *)
(* evicts, counts and records in one atomic step.                          *)
(*                                                                         *)
(* The scores of the log are the clocks of the processes that handle the   *)
(* requests, each of which may differ from the clock of Redis by Skew and  *)
(* is read some time before the script runs; the log itself expires by     *)
(* Redis' own clock, `now`.  What the limiter promises in real time is     *)
(* therefore less than what its script says, by the spread of the scores.  *)
(***************************************************************************)
EXTENDS Integers, FiniteSets

CONSTANTS
    Requests,
    Clients,
    ClientOf,       \* the client of each request, by its address
    Window,         \* RATE_LIMIT_WINDOW_SECONDS, in ticks
    MaxRequests,    \* RATE_LIMIT_MAX
    Skew,           \* bound: by how much a process clock differs from Redis'
    Delay,          \* bound: from Date.now() to the script
    Horizon         \* bound: the last instant of the clock

ASSUME RequestAssumption ==
    /\ IsFiniteSet(Requests)
    /\ ClientOf \in [Requests -> Clients]
ASSUME LimitAssumption ==
    /\ Window \in Nat \ {0}
    /\ MaxRequests \in Nat
ASSUME ClockAssumption ==
    /\ Skew \in Nat
    /\ Delay \in Nat
    /\ Horizon \in Nat

VARIABLES
    now,        \* the clock of Redis
    state,      \* where the request stands
    sentAt,     \* when it read its clock
    clock,      \* what it read: ARGV[1], and its score if it is admitted
    decidedAt,  \* when the script ran for it
    log,        \* the sorted set ratelimit:<client>, as requests
    expiry      \* when its key expires

vars == <<now, state, sentAt, clock, decidedAt, log, expiry>>

\* "open": let through without being counted.
States == {"new", "sent", "admitted", "refused", "open"}

Init ==
    /\ now = 0
    /\ state = [r \in Requests |-> "new"]
    /\ sentAt = [r \in Requests |-> 0]
    /\ clock = [r \in Requests |-> 0]
    /\ decidedAt = [r \in Requests |-> 0]
    /\ log = [c \in Clients |-> {}]
    /\ expiry = [c \in Clients |-> 0]

-----------------------------------------------------------------------------
\* The handler reads Date.now() and sends the script.
Send(r) ==
    /\ state[r] = "new"
    /\ state' = [state EXCEPT ![r] = "sent"]
    /\ sentAt' = [sentAt EXCEPT ![r] = now]
    /\ \E offset \in -Skew .. Skew : clock' = [clock EXCEPT ![r] = now + offset]
    /\ UNCHANGED <<now, decidedAt, log, expiry>>

\* What the script finds: a key that has expired is not there any more.
Found(c) == IF now < expiry[c] THEN log[c] ELSE {}

\* Mutant of Remaining: nothing is evicted but by the expiry of the whole key.
RemainingToday(r) == Found(ClientOf[r])

\* ZREMRANGEBYSCORE up to the start of the window, by the caller's clock.
Remaining(r) == {q \in Found(ClientOf[r]) : clock[q] > clock[r] - Window}

\* Mutants of Record: members without the uuid, and a key that expires too early.
RecordByClock(r, entries) ==
    /\ log' = [log EXCEPT ![ClientOf[r]] = {q \in entries : clock[q] # clock[r]} \cup {r}]
    /\ expiry' = [expiry EXCEPT ![ClientOf[r]] = now + Window]
RecordWithoutExpiry(r, entries) ==
    /\ log' = [log EXCEPT ![ClientOf[r]] = entries \cup {r}]
    /\ expiry' = [expiry EXCEPT ![ClientOf[r]] = clock[r] + 1]

\* ZADD of a new member, and PEXPIRE.
Record(r, entries) ==
    /\ log' = [log EXCEPT ![ClientOf[r]] = entries \cup {r}]
    /\ expiry' = [expiry EXCEPT ![ClientOf[r]] = now + Window]

\* Mutant of Full: > instead of >=.
FullAbove(entries) == Cardinality(entries) > MaxRequests

Full(entries) == Cardinality(entries) >= MaxRequests

Decide(r, outcome) ==
    /\ state[r] = "sent"
    /\ state' = [state EXCEPT ![r] = outcome]
    /\ decidedAt' = [decidedAt EXCEPT ![r] = now]
    /\ UNCHANGED <<now, sentAt, clock>>

\* The script: evicts whether or not it admits; a set without members is gone,
\* and its expiry with it.
Admit(r) ==
    /\ Decide(r, "admitted")
    /\ ~Full(Remaining(r))
    /\ Record(r, Remaining(r))

Refuse(r) ==
    /\ Decide(r, "refused")
    /\ Full(Remaining(r))
    /\ log' = [log EXCEPT ![ClientOf[r]] = Remaining(r)]
    /\ UNCHANGED expiry

\* No address, or Redis fails before the script has run: fail open.
FailOpen(r) ==
    /\ state[r] \in {"new", "sent"}
    /\ state' = [state EXCEPT ![r] = "open"]
    /\ UNCHANGED <<now, sentAt, clock, decidedAt, log, expiry>>

\* The script ran, and its answer is lost: open as well, but on the log.
AnswerLost(r) ==
    /\ Decide(r, "open")
    /\ IF Full(Remaining(r))
         THEN log' = [log EXCEPT ![ClientOf[r]] = Remaining(r)] /\ UNCHANGED expiry
         ELSE Record(r, Remaining(r))

Tick ==
    /\ now < Horizon
    /\ \A r \in Requests : state[r] = "sent" => now < sentAt[r] + Delay
    /\ now' = now + 1
    /\ UNCHANGED <<state, sentAt, clock, decidedAt, log, expiry>>

Next ==
    \/ \E r \in Requests : Send(r) \/ Admit(r) \/ Refuse(r) \/ FailOpen(r) \/ AnswerLost(r)
    \/ Tick

Spec == Init /\ [][Next]_vars

-----------------------------------------------------------------------------
(* Properties.                                                             *)

TypeOK ==
    /\ now \in Nat
    /\ state \in [Requests -> States]
    /\ sentAt \in [Requests -> Nat]
    /\ clock \in [Requests -> Int]
    /\ decidedAt \in [Requests -> Nat]
    /\ log \in [Clients -> SUBSET Requests]
    /\ expiry \in [Clients -> Nat]

\* By how much the scores of two entries may be out of order.
Spread == Delay + 2 * Skew

Admitted(c) == {r \in Requests : ClientOf[r] = c /\ state[r] = "admitted"}

\* DESIGN_DOC.md, "5 req / 60s sliding window": at any moment a client has had
\* at most MaxRequests requests admitted in the last Window, less the spread of
\* the scores, however the requests of all processes are interleaved between
\* reading their clock and running the script.
RecentWithinLimit ==
    \A c \in Clients :
        Cardinality({r \in Admitted(c) : decidedAt[r] > now - (Window - Spread)})
            <= MaxRequests

\* The comment "fail open rather than block", the other way round: nobody is
\* refused who has not used up the limit within the last Window and the spread;
\* in particular what was refused is not counted, and a client that stays away
\* is forgotten.  (A request whose answer was lost counts, as it was let through.)
RefusedOnlyAtLimit ==
    [][\A r \in Requests :
         state[r] # "refused" /\ state'[r] = "refused" =>
            MaxRequests <= Cardinality(
                {q \in Requests : /\ ClientOf[q] = ClientOf[r]
                                  /\ state[q] \in {"admitted", "open"}
                                  /\ decidedAt[q] > now - (Window + Spread)})]_vars

\* The inductive invariant behind both: what the clocks of requests are to the
\* time they were decided at, and what is on the log.
ClocksWithinSpread ==
    \A r \in Requests :
        /\ state[r] = "sent" =>
             /\ sentAt[r] <= now /\ now <= sentAt[r] + Delay
             /\ sentAt[r] - Skew <= clock[r] /\ clock[r] <= sentAt[r] + Skew
        /\ state[r] = "admitted" \/ (\E c \in Clients : r \in log[c]) =>
             /\ decidedAt[r] <= now
             /\ decidedAt[r] - (Delay + Skew) <= clock[r]
             /\ clock[r] <= decidedAt[r] + Skew
LogOfClient ==
    \A c \in Clients : \A r \in log[c] :
        /\ ClientOf[r] = c
        /\ state[r] \in {"admitted", "open"}
        /\ decidedAt[r] + Window <= expiry[c]
LogWithinLimit == \A c \in Clients : Cardinality(log[c]) <= MaxRequests
RecentAreOnTheLog ==
    \A r \in Requests :
        state[r] = "admitted" /\ decidedAt[r] > now - (Window - Spread)
            => r \in log[ClientOf[r]]
LimiterInv ==
    /\ TypeOK
    /\ ClocksWithinSpread
    /\ LogOfClient
    /\ LogWithinLimit
    /\ RecentAreOnTheLog
=============================================================================
