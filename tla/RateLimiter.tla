---------------------------- MODULE RateLimiter ----------------------------
(***************************************************************************)
(* RateLimiter of collar-server: a fixed window of requests per address,   *)
(* counted by concurrent HTTP requests and pruned by a background task.    *)
(* check and cleanup read the clock first and lock the entry of the map    *)
(* afterwards, so that the time they use may be old: by Lag at most.       *)
(*                                                                         *)
(* ThroughOneMore, WindowExtended and PrunedEarly are mutants: the same    *)
(* code with a plausible bug, which one of the properties rules out.  No   *)
(* specification uses them.                                                *)
(***************************************************************************)
EXTENDS Integers, Sequences, FiniteSets

CONSTANTS
  Ips,          \* addresses of clients
  Absent,       \* no entry in the map
  MaxRequests,  \* max_requests (100)
  Window,       \* window (60 s)
  Lag,          \* time between reading the clock and locking the entry, at most
  MaxTime       \* bound: the clock stops here

ASSUME LimiterAssumption ==
  /\ {MaxRequests, Window} \subseteq Nat \ {0}
  /\ {Lag, MaxTime} \subseteq Nat

VARIABLES
  requests,  \* DashMap<String, (u32, Instant)>
  clock,     \* Instant::now()
  admitted   \* history: the times of the requests let through, for each address

vars == <<requests, clock, admitted>>

Entry == [count : 0..MaxRequests, start : 0..MaxTime]

ASSUME EntryAssumption == Absent \notin Entry

Init ==
  /\ requests = [ip \in Ips |-> Absent]
  /\ clock = 0
  /\ admitted = [ip \in Ips |-> << >>]

(* What a task takes for the time when it holds the entry.                 *)
Nows == {t \in 0..MaxTime : clock - Lag <= t /\ t <= clock}

New(now) == [count |-> 0, start |-> now]

(* The entry a request finds: inserted if absent, reset if it has expired. *)
(* duration_since is 0, not negative, for a start later than now.          *)
Found(ip, now) ==
  IF requests[ip] = Absent \/ now - requests[ip].start > Window
  THEN New(now) ELSE requests[ip]

Counted(e) == [e EXCEPT !.count = @ + 1]

(* The entry a request finds has counted max_requests already.             *)
Full(ip, now) == Found(ip, now).count >= MaxRequests

ThroughOneMore(ip, now) ==
  /\ Found(ip, now).count <= MaxRequests
  /\ requests' = [requests EXCEPT ![ip] = Counted(Found(ip, now))]
  /\ admitted' = [admitted EXCEPT ![ip] = Append(@, clock)]
  /\ UNCHANGED clock

Through(ip, now) ==
  /\ ~Full(ip, now)
  /\ requests' = [requests EXCEPT ![ip] = Counted(Found(ip, now))]
  /\ admitted' = [admitted EXCEPT ![ip] = Append(@, clock)]
  /\ UNCHANGED clock

WindowExtended(ip, now) ==
  /\ Full(ip, now)
  /\ requests' = [requests EXCEPT ![ip] = [Found(ip, now) EXCEPT !.start = now]]
  /\ UNCHANGED <<clock, admitted>>

(* 429 Too Many Requests                                                   *)
TurnedAway(ip, now) ==
  /\ Full(ip, now)
  /\ requests' = [requests EXCEPT ![ip] = Found(ip, now)]
  /\ UNCHANGED <<clock, admitted>>

PrunedEarly(e, now) == e # Absent /\ now - e.start >= Window - 1

Pruned(e, now) == e # Absent /\ now - e.start > 2 * Window

(* Entries of the map one by one, at a time read before the first of them. *)
Cleanup(ip, now) ==
  /\ Pruned(requests[ip], now)
  /\ requests' = [requests EXCEPT ![ip] = Absent]
  /\ UNCHANGED <<clock, admitted>>

Tick ==
  /\ clock < MaxTime
  /\ clock' = clock + 1
  /\ UNCHANGED <<requests, admitted>>

Next ==
  \/ \E ip \in Ips, now \in Nows :
       Through(ip, now) \/ TurnedAway(ip, now) \/ Cleanup(ip, now)
  \/ Tick

Spec == Init /\ [][Next]_vars

-----------------------------------------------------------------------------
(* Requests of ip let through at the times from t to u.                    *)
Between(ip, t, u) ==
  Cardinality({k \in DOMAIN admitted[ip] :
                 t <= admitted[ip][k] /\ admitted[ip][k] <= u})

(* The state keeps its types; a count never exceeds max_requests.          *)
TypeOK ==
  /\ requests \in [Ips -> Entry \cup {Absent}]
  /\ clock \in 0..MaxTime
  /\ admitted \in [Ips -> Seq(0..MaxTime)]

(* Two windows may meet: no time as long as a window, shortened by Lag,    *)
(* sees more than 2 * max_requests, whatever the order in which requests   *)
(* and the cleanup reach the entry.                                        *)
AtMostTwice ==
  \A ip \in Ips, t \in 0..MaxTime :
    Between(ip, t, t + Window - Lag) <= 2 * MaxRequests

(* A request that would be turned away is one too many: max_requests of    *)
(* its address were let through in the last window (longer by Lag).        *)
(* Requests turned away do not count and do not prolong the window, and    *)
(* neither a reset nor the cleanup by an old clock leaves a count behind   *)
(* that is not in the history.                                             *)
TurnedAwayForCause ==
  \A ip \in Ips, now \in Nows :
    Full(ip, now) => Between(ip, clock - Window - Lag, clock) >= MaxRequests
=============================================================================
