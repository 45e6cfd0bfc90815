------------------------- MODULE RateLimiterProofs -------------------------
(***************************************************************************)
(* Theorems about RateLimiter, for any limit, any window and any delay     *)
(* between reading the clock and taking the entry: the state keeps its     *)
(* types, no window sees more than twice the limit, and nobody is turned   *)
(* away whose requests in the last window were fewer than the limit.       *)
(***************************************************************************)
EXTENDS RateLimiter, TLAPS, FiniteSetTheorems, SequenceTheorems, WellFoundedInduction

-----------------------------------------------------------------------------
(* Counting.                                                               *)

(* A set of numbers that is not empty has a least one.                     *)
LEMMA Least ==
  ASSUME NEW S \in SUBSET Nat, S # {}
  PROVE  \E m \in S : \A k \in S : m <= k
<1>1. PICK m \in S : \A k \in S : <<k, m>> \notin OpToRel(<, Nat)
  BY NatLessThanWellFounded, WFMin, Zenon
<1>2. \A k \in S : ~(k < m)
  BY <1>1 DEF OpToRel
<1> QED BY <1>2

(* Numbers that are all less than w apart are no more than w.              *)
LEMMA CloseTogether ==
  ASSUME NEW S \in SUBSET Nat, NEW w \in Nat, \A j, k \in S : k < j + w
  PROVE  IsFiniteSet(S) /\ Cardinality(S) <= w
<1>1. CASE S = {}
  BY <1>1, FS_EmptySet
<1>2. CASE S # {}
  <2>1. PICK m \in S : \A k \in S : m <= k
    BY <1>2, Least
  <2>2. S \subseteq m..(m + w - 1)
    BY <2>1
  <2>3. IsFiniteSet(m..(m + w - 1)) /\ Cardinality(m..(m + w - 1)) = w
    <3>1. m \in Int /\ m + w - 1 \in Int /\ w > 0
      BY <2>1
    <3>2. IsFiniteSet(m..(m + w - 1)) /\
            Cardinality(m..(m + w - 1)) = IF m > m + w - 1 THEN 0 ELSE (m + w - 1) - m + 1
      BY <3>1, FS_Interval
    <3> QED BY <3>1, <3>2
  <2>4. IsFiniteSet(S) /\ Cardinality(S) <= Cardinality(m..(m + w - 1))
    BY <2>2, <2>3, FS_Subset
  <2> QED BY <2>3, <2>4
<1> QED BY <1>1, <1>2
-----------------------------------------------------------------------------
(* What an entry e says of the requests let through at the times s.        *)

(* The last e.count of them came in its window.                            *)
Within(s, e) ==
  /\ e.count <= Len(s)
  /\ \A k \in DOMAIN s : k > Len(s) - e.count => e.start <= s[k]

(* The others came before it started, or no later than Lag; and all but    *)
(* MaxRequests of these before the window that preceded it.                *)
Before(s, e) ==
  /\ \A k \in DOMAIN s : k <= Len(s) - e.count => s[k] <= e.start + Lag
  /\ \A k \in DOMAIN s :
       k <= Len(s) - e.count - MaxRequests => s[k] + Window < e.start + Lag

(* No entry: all but MaxRequests came more than a window before time t.    *)
Cleared(s, t) ==
  \A k \in DOMAIN s : k <= Len(s) - MaxRequests => s[k] + Window < t

(* Of two requests with 2 * MaxRequests - 1 between them, the later comes  *)
(* more than a window, shortened by Lag, after the earlier.                *)
Paced(s) ==
  \A j, k \in DOMAIN s : j + 2 * MaxRequests <= k => s[j] + Window < s[k] + Lag

(* The inductive invariant, for one address.  The clock may lag by more    *)
(* than a window; then no two windows need be apart.                       *)
Kept(ip) ==
  LET s == admitted[ip]
      e == requests[ip] IN
  /\ \A k \in DOMAIN s : s[k] <= clock
  /\ e # Absent => e.start <= clock /\ Within(s, e)
  /\ Lag <= Window => /\ e # Absent => Before(s, e)
                      /\ e = Absent => Cleared(s, clock)
                      /\ Paced(s)

Inv == TypeOK /\ \A ip \in Ips : Kept(ip)

(* The constants, in the form the steps use.                               *)
LEMMA Limits ==
  /\ MaxRequests \in Nat /\ MaxRequests > 0 /\ Window \in Nat /\ Window > 0
  /\ Lag \in Nat /\ MaxTime \in Nat
  BY LimiterAssumption DEF LimiterAssumption

(* The times of the requests let through.                                  *)
LEMMA SeqTimes ==
  ASSUME NEW s \in Seq(0..MaxTime)
  PROVE  /\ DOMAIN s = 1..Len(s) /\ Len(s) \in Nat
         /\ \A k \in DOMAIN s : s[k] \in 0..MaxTime /\ s[k] \in Int
<1> DEFINE T == 0..MaxTime
<1>1. T \subseteq Int
  BY Limits
<1>2. s \in Seq(T)
  OBVIOUS
<1> HIDE DEF T
<1>3. DOMAIN s = 1..Len(s) /\ Len(s) \in Nat /\ \A k \in DOMAIN s : s[k] \in T
  BY <1>2
<1> QED BY <1>1, <1>3 DEF T

(* The same with one more.                                                 *)
LEMMA SeqTimesMore ==
  ASSUME NEW s \in Seq(0..MaxTime), NEW t \in 0..MaxTime
  PROVE  LET more == Append(s, t) IN
         /\ more \in Seq(0..MaxTime)
         /\ DOMAIN more = 1..(Len(s) + 1) /\ Len(more) = Len(s) + 1
         /\ more[Len(s) + 1] = t /\ \A k \in DOMAIN s : more[k] = s[k]
<1> DEFINE T == 0..MaxTime
<1>1. s \in Seq(T) /\ t \in T
  OBVIOUS
<1> HIDE DEF T
<1>2. /\ Append(s, t) \in Seq(T)
      /\ DOMAIN Append(s, t) = 1..(Len(s) + 1) /\ Len(Append(s, t)) = Len(s) + 1
      /\ Append(s, t)[Len(s) + 1] = t
      /\ \A k \in DOMAIN s : Append(s, t)[k] = s[k]
  BY <1>1
<1> QED BY <1>2 DEF T

(* The times of Nows.                                                      *)
LEMMA NowTimes ==
  ASSUME NEW now \in Nows
  PROVE  now \in 0..MaxTime /\ clock - Lag <= now /\ now <= clock
  BY DEF Nows

(* The fields of an entry.                                                 *)
LEMMA Fields ==
  ASSUME NEW e \in Entry
  PROVE  e.count \in 0..MaxRequests /\ e.start \in 0..MaxTime /\ e # Absent
  BY EntryAssumption DEF Entry, EntryAssumption

(* A new entry has counted nothing.                                        *)
LEMMA NewFields ==
  ASSUME NEW now \in 0..MaxTime
  PROVE  New(now) \in Entry /\ New(now).count = 0 /\ New(now).start = now
  BY Limits DEF New, Entry

(* Counting a request leaves the window where it is.                       *)
LEMMA CountedFields ==
  ASSUME NEW e \in Entry, e.count < MaxRequests
  PROVE  /\ Counted(e) \in Entry /\ Counted(e).count = e.count + 1
         /\ Counted(e).start = e.start
<1>1. e.count \in 0..MaxRequests /\ e.start \in 0..MaxTime
  BY Fields
<1>2. e.count + 1 \in 0..MaxRequests
  BY <1>1, Limits
<1> QED BY <1>1, <1>2 DEF Counted, Entry

(* The entry a request finds fits what was let through: a window that is   *)
(* replaced started more than Window before the new one.                   *)
LEMMA FoundFits ==
  ASSUME TypeOK, NEW ip \in Ips, Kept(ip), NEW now \in Nows
  PROVE  LET s == admitted[ip]
             f == Found(ip, now) IN
         /\ f \in Entry /\ f.start <= clock /\ Within(s, f)
         /\ Lag <= Window => Before(s, f)
<1> DEFINE s == admitted[ip]
           e == requests[ip]
           f == Found(ip, now)
<1>0. /\ s \in Seq(0..MaxTime) /\ clock \in 0..MaxTime /\ e \in Entry \cup {Absent}
      /\ now \in 0..MaxTime /\ clock - Lag <= now /\ now <= clock
  BY NowTimes DEF TypeOK
<1>1. /\ DOMAIN s = 1..Len(s) /\ Len(s) \in Nat
      /\ \A k \in DOMAIN s : s[k] \in 0..MaxTime /\ s[k] \in Int
      /\ \A k \in DOMAIN s : s[k] <= clock
  BY <1>0, SeqTimes DEF Kept
<1>2. CASE f = e /\ e # Absent
  BY <1>0, <1>2 DEF Kept
<1>3. CASE f = New(now) /\ (e = Absent \/ now - e.start > Window)
  <2>1. f \in Entry /\ f.count = 0 /\ f.start = now
    BY <1>0, <1>3, NewFields
  <2>2. Within(s, f)
    BY <1>1, <2>1, Limits DEF Within
  <2>3. ASSUME Lag <= Window, NEW k \in DOMAIN s, k <= Len(s) - MaxRequests
        PROVE  s[k] + Window < now + Lag
    <3>1. CASE e = Absent
      <4>1. s[k] + Window < clock
        BY <2>3, <3>1 DEF Kept, Cleared
      <4> QED BY <1>0, <1>1, <4>1, Limits
    <3>2. CASE e # Absent /\ now - e.start > Window
      <4>1. e.count \in 0..MaxRequests /\ e.start \in 0..MaxTime
        BY <1>0, <3>2, Fields
      <4>2. k <= Len(s) - e.count
        BY <1>1, <2>3, <4>1, Limits
      <4>3. s[k] <= e.start + Lag
        BY <2>3, <3>2, <4>2 DEF Kept, Before
      <4>4. s[k] \in Int /\ e.start \in Int /\ now \in Int /\ Window \in Int /\ Lag \in Int
        BY <1>0, <1>1, <4>1, Limits
      <4> HIDE DEF s, e
      <4> QED BY <3>2, <4>3, <4>4
    <3> QED BY <1>3, <3>1, <3>2
  <2>4. ASSUME NEW k \in DOMAIN s PROVE s[k] <= now + Lag
    BY <1>0, <1>1, <2>4, Limits
  <2>5. Lag <= Window => Before(s, f)
    BY <1>1, <2>1, <2>3, <2>4, Limits DEF Before
  <2> QED BY <1>0, <2>1, <2>2, <2>5
<1> QED BY <1>2, <1>3 DEF Found

(* A request let through at time t, under an entry that is not full.       *)
LEMMA Admits ==
  ASSUME NEW s \in Seq(0..MaxTime), NEW e \in Entry, NEW t \in 0..MaxTime,
         e.count < MaxRequests, e.start <= t, Within(s, e)
  PROVE  LET more == Append(s, t) IN
         /\ Within(more, Counted(e))
         /\ Before(s, e) => Before(more, Counted(e))
         /\ Before(s, e) /\ Paced(s) => Paced(more)
<1> DEFINE more == Append(s, t)
           c == Counted(e)
<1>1. /\ DOMAIN s = 1..Len(s) /\ Len(s) \in Nat
      /\ \A k \in DOMAIN s : s[k] \in 0..MaxTime /\ s[k] \in Int
      /\ DOMAIN more = 1..(Len(s) + 1) /\ Len(more) = Len(s) + 1
      /\ more[Len(s) + 1] = t /\ \A k \in DOMAIN s : more[k] = s[k]
  BY SeqTimes, SeqTimesMore
<1>2. c.count = e.count + 1 /\ c.start = e.start
  BY CountedFields
<1>3. e.count \in 0..MaxRequests /\ e.start \in 0..MaxTime
  BY Fields
<1> HIDE DEF more, c
<1>4. \A k \in DOMAIN more : k \in DOMAIN s \/ k = Len(s) + 1
  BY <1>1
<1>5. Within(more, c)
  <2>1. \A k \in DOMAIN more : k > Len(more) - c.count => c.start <= more[k]
    <3> SUFFICES ASSUME NEW k \in DOMAIN more, k > Len(more) - c.count
                 PROVE  c.start <= more[k]
      OBVIOUS
    <3>1. CASE k = Len(s) + 1
      BY <1>1, <1>2, <3>1
    <3>2. CASE k \in DOMAIN s
      <4>1. k > Len(s) - e.count
        BY <1>1, <1>2, <1>3, <3>2
      <4> QED BY <1>1, <1>2, <3>2, <4>1 DEF Within
    <3> QED BY <1>4, <3>1, <3>2
  <2>2. c.count <= Len(more)
    BY <1>1, <1>2, <1>3 DEF Within
  <2> QED BY <2>1, <2>2 DEF Within
<1>6. Len(more) - c.count = Len(s) - e.count
  BY <1>1, <1>2, <1>3
<1>7. ASSUME Before(s, e) PROVE Before(more, c)
  <2> SUFFICES ASSUME NEW k \in DOMAIN more
               PROVE  /\ k <= Len(s) - e.count => more[k] <= c.start + Lag
                      /\ k <= Len(s) - e.count - MaxRequests
                           => more[k] + Window < c.start + Lag
    BY <1>6 DEF Before
  <2>1. CASE k = Len(s) + 1
    BY <1>1, <1>3, <2>1, Limits
  <2>2. CASE k \in DOMAIN s
    BY <1>1, <1>2, <1>7, <2>2 DEF Before
  <2> QED BY <1>4, <2>1, <2>2
<1>8. ASSUME Before(s, e), Paced(s) PROVE Paced(more)
  <2> SUFFICES ASSUME NEW j \in DOMAIN more, NEW k \in DOMAIN more,
                      j + 2 * MaxRequests <= k
               PROVE  more[j] + Window < more[k] + Lag
    BY DEF Paced
  <2>1. j \in DOMAIN s
    BY <1>1, Limits
  <2>2. CASE k \in DOMAIN s
    BY <1>1, <1>8, <2>1, <2>2 DEF Paced
  <2>3. CASE k = Len(s) + 1
    <3>1. j <= Len(s) - e.count - MaxRequests
      BY <1>1, <1>3, <2>1, <2>3, Limits
    <3>2. s[j] + Window < e.start + Lag
      BY <1>8, <2>1, <3>1 DEF Before
    <3>3. /\ s[j] \in Int /\ e.start \in Int /\ Window \in Int /\ Lag \in Int /\ t \in Int
          /\ more[j] = s[j] /\ more[k] = t
      BY <1>1, <1>3, <2>1, <2>3, Limits
    <3> QED BY <3>2, <3>3
  <2> QED BY <1>4, <2>2, <2>3
<1> QED BY <1>5, <1>7, <1>8 DEF more, c

-----------------------------------------------------------------------------
(* The invariant.                                                          *)

(* Nothing has been let through, and there are no entries.                 *)
LEMMA InvInit == Init => Inv
<1> SUFFICES ASSUME Init PROVE Inv
  OBVIOUS
<1>1. << >> \in Seq(0..MaxTime) /\ DOMAIN << >> = {}
  OBVIOUS
<1>2. TypeOK
  BY <1>1, Limits DEF Init, TypeOK
<1>3. ASSUME NEW ip \in Ips PROVE Kept(ip)
  <2>1. admitted[ip] = << >> /\ requests[ip] = Absent
    BY DEF Init
  <2> QED BY <1>1, <2>1 DEF Kept, Cleared, Paced
<1> QED BY <1>2, <1>3 DEF Inv

(* A request is let through.                                               *)
LEMMA ThroughStep ==
  ASSUME Inv, NEW ip \in Ips, NEW now \in Nows, Through(ip, now)
  PROVE  Inv'
<1> DEFINE s == admitted[ip]
           f == Found(ip, now)
<1>0. s \in Seq(0..MaxTime) /\ clock \in 0..MaxTime /\ TypeOK /\ Kept(ip)
  BY DEF Inv, TypeOK
<1>1. /\ f \in Entry /\ f.start <= clock /\ Within(s, f)
      /\ Lag <= Window => Before(s, f)
  BY <1>0, FoundFits
<1>2. /\ f.count < MaxRequests /\ clock' = clock
      /\ requests' = [requests EXCEPT ![ip] = Counted(f)]
      /\ admitted' = [admitted EXCEPT ![ip] = Append(s, clock)]
  <2>1. f.count \in 0..MaxRequests
    BY <1>1, Fields
  <2> QED BY <2>1, Limits DEF Through, Full
<1> HIDE DEF f
<1>3. Counted(f) \in Entry /\ Counted(f).start = f.start /\ Counted(f) # Absent
  BY <1>1, <1>2, CountedFields, Fields
<1>4. Append(s, clock) \in Seq(0..MaxTime)
  BY <1>0, SeqTimesMore
<1>5. TypeOK'
  BY <1>0, <1>2, <1>3, <1>4 DEF TypeOK
<1>6. admitted'[ip] = Append(s, clock) /\ requests'[ip] = Counted(f)
  BY <1>0, <1>2 DEF TypeOK
<1>7. /\ Within(Append(s, clock), Counted(f))
      /\ Lag <= Window => Before(Append(s, clock), Counted(f)) /\ Paced(Append(s, clock))
  <2>1. Lag <= Window => Paced(s)
    BY <1>0 DEF Kept
  <2> QED BY <1>0, <1>1, <1>2, <2>1, Admits
<1>8. \A k \in DOMAIN Append(s, clock) : Append(s, clock)[k] <= clock
  <2>1. \A k \in DOMAIN s : s[k] <= clock
    BY <1>0 DEF Kept
  <2> QED BY <1>0, <2>1
<1>9. Kept(ip)'
  BY <1>1, <1>2, <1>3, <1>6, <1>7, <1>8 DEF Kept, Within, Before, Paced
<1>10. ASSUME NEW i \in Ips, i # ip PROVE Kept(i)'
  <2>1. admitted'[i] = admitted[i] /\ requests'[i] = requests[i]
    BY <1>0, <1>2, <1>10 DEF TypeOK
  <2>2. Kept(i)
    BY DEF Inv
  <2> QED BY <1>2, <2>1, <2>2 DEF Kept, Within, Before, Cleared, Paced
<1> QED BY <1>5, <1>9, <1>10 DEF Inv

(* The full entry that a request finds is the one in the map, not expired. *)
LEMMA FullInTheMap ==
  ASSUME Inv, NEW ip \in Ips, NEW now \in Nows, Full(ip, now)
  PROVE  /\ Found(ip, now) = requests[ip]
         /\ requests[ip] \in Entry /\ requests[ip].count = MaxRequests
         /\ now - requests[ip].start <= Window
<1>1. now \in 0..MaxTime /\ requests \in [Ips -> Entry \cup {Absent}]
  BY NowTimes DEF Inv, TypeOK
<1>2. Found(ip, now).count >= MaxRequests
  BY DEF Full
<1>3. Found(ip, now) # New(now)
  <2>1. New(now).count = 0
    BY <1>1, NewFields
  <2> QED BY <1>2, <2>1, Limits
<1>4. /\ Found(ip, now) = requests[ip] /\ requests[ip] # Absent
      /\ ~(now - requests[ip].start > Window)
  BY <1>3 DEF Found
<1>5. requests[ip].count \in 0..MaxRequests /\ requests[ip].start \in 0..MaxTime
  BY <1>1, <1>4, Fields
<1> QED BY <1>1, <1>2, <1>4, <1>5, Limits

(* A request that is turned away changes nothing.                          *)
LEMMA TurnedAwayKeeps ==
  ASSUME Inv, NEW ip \in Ips, NEW now \in Nows, TurnedAway(ip, now)
  PROVE  UNCHANGED vars
<1>1. requests \in [Ips -> Entry \cup {Absent}]
  BY DEF Inv, TypeOK
<1>2. Full(ip, now) /\ requests' = [requests EXCEPT ![ip] = Found(ip, now)]
        /\ UNCHANGED <<clock, admitted>>
  BY DEF TurnedAway
<1>3. Found(ip, now) = requests[ip]
  BY <1>2, FullInTheMap
<1> QED BY <1>1, <1>2, <1>3 DEF vars

(* An entry that is pruned is two windows old.                             *)
LEMMA CleanupStep ==
  ASSUME Inv, NEW ip \in Ips, NEW now \in Nows, Cleanup(ip, now)
  PROVE  Inv'
<1> DEFINE s == admitted[ip]
           e == requests[ip]
<1>0. /\ s \in Seq(0..MaxTime) /\ clock \in 0..MaxTime /\ TypeOK /\ Kept(ip)
      /\ e \in Entry \cup {Absent}
      /\ now \in 0..MaxTime /\ now <= clock
  BY NowTimes DEF Inv, TypeOK
<1>1. /\ e # Absent /\ now - e.start > 2 * Window
      /\ requests' = [requests EXCEPT ![ip] = Absent] /\ UNCHANGED <<clock, admitted>>
  BY DEF Cleanup, Pruned
<1>2. e.count \in 0..MaxRequests /\ e.start \in 0..MaxTime
  BY <1>0, <1>1, Fields
<1>3. TypeOK'
  BY <1>0, <1>1 DEF TypeOK
<1>4. requests'[ip] = Absent
  BY <1>0, <1>1 DEF TypeOK
<1>5. ASSUME Lag <= Window PROVE Cleared(s, clock)
  <2> SUFFICES ASSUME NEW k \in DOMAIN s, k <= Len(s) - MaxRequests
               PROVE  s[k] + Window < clock
    BY DEF Cleared
  <2>1. Len(s) \in Nat /\ DOMAIN s = 1..Len(s) /\ s[k] \in Int
    BY <1>0, SeqTimes
  <2>2. k <= Len(s) - e.count
    BY <1>2, <2>1, Limits
  <2>3. s[k] <= e.start + Lag
    BY <1>0, <1>1, <1>5, <2>2 DEF Kept, Before
  <2>4. e.start \in Int /\ now \in Int /\ clock \in Int /\ Window \in Int /\ Lag \in Int
    BY <1>0, <1>2, Limits
  <2>5. now - e.start > 2 * Window /\ now <= clock
    BY <1>0, <1>1
  <2> HIDE DEF s, e
  <2> QED BY <1>5, <2>1, <2>3, <2>4, <2>5
<1>6. Kept(ip)'
  BY <1>0, <1>1, <1>4, <1>5 DEF Kept, Cleared, Paced
<1>7. ASSUME NEW i \in Ips, i # ip PROVE Kept(i)'
  <2>1. requests'[i] = requests[i]
    BY <1>0, <1>1, <1>7 DEF TypeOK
  <2>2. Kept(i)
    BY DEF Inv
  <2> QED BY <1>1, <2>1, <2>2 DEF Kept, Within, Before, Cleared, Paced
<1> QED BY <1>3, <1>6, <1>7 DEF Inv

(* Time passes.                                                            *)
LEMMA TickStep ==
  ASSUME Inv, Tick
  PROVE  Inv'
<1>0. TypeOK /\ clock \in 0..MaxTime /\ clock' = clock + 1 /\ clock < MaxTime
        /\ UNCHANGED <<requests, admitted>>
  BY DEF Inv, TypeOK, Tick
<1>1. TypeOK'
  BY <1>0, Limits DEF TypeOK
<1>2. ASSUME NEW ip \in Ips PROVE Kept(ip)'
  <2> DEFINE s == admitted[ip]
             e == requests[ip]
  <2>1. Kept(ip) /\ s \in Seq(0..MaxTime) /\ e \in Entry \cup {Absent}
    BY <1>0 DEF Inv, TypeOK
  <2>2. \A k \in DOMAIN s : s[k] \in Int
    BY <2>1, SeqTimes
  <2>3. \A k \in DOMAIN s : s[k] <= clock'
    BY <1>0, <2>1, <2>2 DEF Kept
  <2>4. e # Absent => e.start <= clock'
    BY <1>0, <2>1, Fields DEF Kept
  <2>5. ASSUME Lag <= Window, e = Absent PROVE Cleared(s, clock')
    <3>1. Cleared(s, clock)
      BY <2>1, <2>5 DEF Kept
    <3> QED BY <1>0, <2>2, <3>1, Limits DEF Cleared
  <2> QED BY <1>0, <2>1, <2>3, <2>4, <2>5 DEF Kept, Within, Before, Cleared, Paced
<1> QED BY <1>1, <1>2 DEF Inv

(* Every step keeps the invariant.                                         *)
LEMMA InvStep == Inv /\ [Next]_vars => Inv'
<1> SUFFICES ASSUME Inv, [Next]_vars PROVE Inv'
  OBVIOUS
<1>1. ASSUME UNCHANGED vars PROVE Inv'
  BY <1>1 DEF vars, Inv, TypeOK, Kept, Within, Before, Cleared, Paced
<1>2. ASSUME NEW ip \in Ips, NEW now \in Nows, Through(ip, now) PROVE Inv'
  BY <1>2, ThroughStep
<1>3. ASSUME NEW ip \in Ips, NEW now \in Nows, TurnedAway(ip, now) PROVE Inv'
  BY <1>1, <1>3, TurnedAwayKeeps
<1>4. ASSUME NEW ip \in Ips, NEW now \in Nows, Cleanup(ip, now) PROVE Inv'
  BY <1>4, CleanupStep
<1>5. CASE Tick
  BY <1>5, TickStep
<1> QED BY <1>1, <1>2, <1>3, <1>4, <1>5 DEF Next

(* The invariant holds in every reachable state.                           *)
LEMMA InvHolds == Spec => []Inv
  BY InvInit, InvStep, PTL DEF Spec

-----------------------------------------------------------------------------
(* Theorems.                                                               *)

(* The state keeps its types: no count ever exceeds max_requests.          *)
THEOREM CountsBounded == Spec => []TypeOK
<1>1. Inv => TypeOK
  BY DEF Inv
<1> QED BY <1>1, InvHolds, PTL

(* What is paced comes at most 2 * MaxRequests at a time.                  *)
LEMMA PacedIsAtMostTwice ==
  ASSUME Inv, NEW ip \in Ips, NEW t \in 0..MaxTime
  PROVE  Between(ip, t, t + Window - Lag) <= 2 * MaxRequests
<1> DEFINE s == admitted[ip]
           here == {k \in DOMAIN s : t <= s[k] /\ s[k] <= t + Window - Lag}
<1>1. s \in Seq(0..MaxTime) /\ Kept(ip)
  BY DEF Inv, TypeOK
<1>2. DOMAIN s \in SUBSET Nat /\ \A k \in DOMAIN s : s[k] \in Int
  BY <1>1, SeqTimes
<1>3. 2 * MaxRequests \in Nat
  BY Limits
<1>4. CASE Lag <= Window
  <2>1. Paced(s)
    BY <1>1, <1>4 DEF Kept
  <2>2. \A j, k \in here : k < j + 2 * MaxRequests
    <3> SUFFICES ASSUME NEW j \in here, NEW k \in here, j + 2 * MaxRequests <= k
                 PROVE  FALSE
      BY <1>2, <1>3
    <3>1. s[j] + Window < s[k] + Lag
      BY <2>1 DEF Paced
    <3> QED BY <1>2, <3>1, Limits
  <2>3. here \in SUBSET Nat
    BY <1>2
  <2> HIDE DEF here
  <2>4. Cardinality(here) <= 2 * MaxRequests
    BY <1>3, <2>2, <2>3, CloseTogether
  <2> QED BY <2>4 DEF Between, here
<1>5. CASE ~(Lag <= Window)
  <2>1. here = {}
    BY <1>2, <1>5, Limits
  <2>2. Cardinality(here) = 0
    BY <2>1, FS_EmptySet
  <2> QED BY <1>3, <2>2 DEF Between
<1> QED BY <1>4, <1>5

(* No time as long as a window, shortened by the delay between reading the *)
(* clock and taking the entry, sees more than twice max_requests, whatever *)
(* the order in which requests and the cleanup come.                       *)
THEOREM TwiceAtMost == Spec => []AtMostTwice
<1>1. Inv => AtMostTwice
  BY PacedIsAtMostTwice DEF AtMostTwice
<1> QED BY <1>1, InvHolds, PTL

(* The requests that a full entry has counted came in the last window.     *)
LEMMA FullForCause ==
  ASSUME Inv, NEW ip \in Ips, NEW now \in Nows, Full(ip, now)
  PROVE  Between(ip, clock - Window - Lag, clock) >= MaxRequests
<1> DEFINE s == admitted[ip]
           e == requests[ip]
           last == (Len(s) - MaxRequests + 1)..Len(s)
           here == {k \in DOMAIN s : clock - Window - Lag <= s[k] /\ s[k] <= clock}
<1>1. /\ s \in Seq(0..MaxTime) /\ Kept(ip) /\ clock \in 0..MaxTime
      /\ now \in 0..MaxTime /\ clock - Lag <= now
  BY NowTimes DEF Inv, TypeOK
<1>2. /\ e # Absent /\ e.count = MaxRequests /\ now - e.start <= Window
      /\ e.start \in 0..MaxTime
  BY FullInTheMap, Fields
<1>3. /\ DOMAIN s = 1..Len(s) /\ Len(s) \in Nat
      /\ \A k \in DOMAIN s : s[k] \in Int
  BY <1>1, SeqTimes
<1>4. /\ MaxRequests <= Len(s)
      /\ \A k \in DOMAIN s : k > Len(s) - MaxRequests => e.start <= s[k]
      /\ \A k \in DOMAIN s : s[k] <= clock
  BY <1>1, <1>2 DEF Kept, Within
<1>5. last \subseteq here
  <2> SUFFICES ASSUME NEW k \in last PROVE k \in here
    OBVIOUS
  <2>1. k \in DOMAIN s /\ k > Len(s) - MaxRequests
    BY <1>3, <1>4, Limits
  <2>2. e.start <= s[k] /\ s[k] <= clock
    BY <1>4, <2>1
  <2>3. clock - Window - Lag <= s[k]
    <3>1. /\ s[k] \in Int /\ e.start \in Int /\ clock \in Int /\ now \in Int
          /\ Window \in Int /\ Lag \in Int
      BY <1>1, <1>2, <1>3, <2>1, Limits
    <3>2. now - e.start <= Window /\ clock - Lag <= now
      BY <1>1, <1>2
    <3> HIDE DEF s, e
    <3> QED BY <2>2, <3>1, <3>2
  <2> QED BY <2>1, <2>2, <2>3
<1>6. IsFiniteSet(1..Len(s)) /\ here \subseteq 1..Len(s)
  BY <1>3, FS_Interval
<1>7. IsFiniteSet(here)
  BY <1>6, FS_Subset
<1>8. Cardinality(last) = MaxRequests
  <2>1. Len(s) - MaxRequests + 1 \in Int /\ Len(s) \in Int
    BY <1>3, Limits
  <2>2. Cardinality(last)
          = IF Len(s) - MaxRequests + 1 > Len(s) THEN 0
            ELSE Len(s) - (Len(s) - MaxRequests + 1) + 1
    BY <2>1, FS_Interval
  <2> QED BY <1>3, <2>2, Limits
<1>9. Cardinality(last) <= Cardinality(here) /\ Cardinality(here) \in Nat
  BY <1>5, <1>7, FS_Subset, FS_CardinalityType
<1> QED BY <1>8, <1>9 DEF Between

(* A request that would be turned away is one too many: max_requests of    *)
(* its address were let through in the last window.                        *)
THEOREM OnlyForCause == Spec => []TurnedAwayForCause
<1>1. Inv => TurnedAwayForCause
  BY FullForCause DEF TurnedAwayForCause
<1> QED BY <1>1, InvHolds, PTL
=============================================================================
