---------------------------- MODULE DeviceHubProofs ----------------------------
(***************************************************************************)
(* Four theorems about the way of a command, for any number of connections *)
(* and requests, channels of any capacity and any number of threads: the   *)
(* channels are bounded, a command waits for the registered connection     *)
(* only, what was refused is not executed, and what was accepted is lost   *)
(* by nothing but a broken connection.                                     *)
(***************************************************************************)
EXTENDS DeviceHub, TLAPS, SequenceTheorems

In(x, q) == \E i \in DOMAIN q : q[i] = x

(* A command whose request was not answered with success is nowhere: the   *)
(* error answers, but also the requests that still wait.                   *)
Unsent ==
  \A r \in Requests :
    pc[r] # "ok" => r \notin got /\ \A s \in Sessions : ~Underway(r, s)

(* A connection has no sender task before it is registered.                *)
Unopened == \A s \in Sessions : pc[s] \in {"new", "insert"} => out[s] = "off"

Addressed == \A r \in Requests : pc[r] = "ok" => to[r] \in Sessions

Inv ==
  /\ TypeOK
  /\ WaitsForTheRegistered
  /\ Unsent
  /\ Unopened
  /\ Addressed
  /\ AcceptedIsDelivered
-----------------------------------------------------------------------------
(* Sequences.                                                              *)

(* A queue from which one element is removed is one.                       *)
LEMMA RemoveAtSeq ==
  ASSUME NEW S, NEW q \in Seq(S), NEW i \in DOMAIN q
  PROVE  RemoveAt(q, i) \in Seq(S) /\ q # << >>
<1>1. Len(q) \in Nat /\ DOMAIN q = 1..Len(q) /\ \A j \in 1..Len(q) : q[j] \in S
  BY LenProperties, ElementOfSeq
<1>2. i \in 1..Len(q) /\ i - 1 \in Int /\ i + 1 \in Int /\ Len(q) \in Int
  BY <1>1
<1>3. SubSeq(q, 1, i - 1) \in Seq(S)
  <2>1. \A j \in 1..(i - 1) : q[j] \in S
    BY <1>1, <1>2
  <2> QED
    BY <1>2, <2>1, SubSeqProperties
<1>4. SubSeq(q, i + 1, Len(q)) \in Seq(S)
  <2>1. \A j \in (i + 1)..Len(q) : q[j] \in S
    BY <1>1, <1>2
  <2> QED
    BY <1>2, <2>1, SubSeqProperties
<1>5. q # << >>
  BY <1>1
<1> QED
  BY <1>3, <1>4, <1>5, ConcatProperties DEF RemoveAt

(* What a queue holds once m has been put at its end.                      *)
LEMMA AppendHolds ==
  ASSUME NEW S, NEW q \in Seq(S), NEW m \in S, NEW x
  PROVE  In(x, Append(q, m)) <=> In(x, q) \/ x = m
<1> DEFINE n == Len(q)
           p == Append(q, m)
<1>1. /\ n \in Nat /\ DOMAIN q = 1..n
      /\ p \in Seq(S) /\ Len(p) = n + 1 /\ p[n + 1] = m
      /\ \A i \in 1..n : p[i] = q[i]
  BY LenProperties, AppendProperties
<1>2. DOMAIN p = 1..(n + 1)
  BY <1>1, LenProperties
<1> HIDE DEF n, p
<1>3. \A i \in 1..(n + 1) : i \in 1..n \/ i = n + 1
  BY <1>1
<1>4. 1..n \subseteq 1..(n + 1) /\ n + 1 \in 1..(n + 1)
  BY <1>1
<1> QED
  BY <1>1, <1>2, <1>3, <1>4 DEF In, p

(* What a queue holds besides its head.                                    *)
LEMMA TailHolds ==
  ASSUME NEW S, NEW q \in Seq(S), q # << >>, NEW x
  PROVE  In(x, q) <=> In(x, Tail(q)) \/ x = Head(q)
<1> DEFINE n == Len(q)
           p == Tail(q)
<1>1. /\ n \in Nat \ {0} /\ DOMAIN q = 1..n
      /\ p \in Seq(S) /\ Len(p) = n - 1 /\ Head(q) = q[1]
      /\ \A i \in 1..(n - 1) : p[i] = q[i + 1]
  BY LenProperties, HeadTailProperties, EmptySeq
<1>2. DOMAIN p = 1..(n - 1)
  BY <1>1, LenProperties
<1> HIDE DEF n, p
<1>3. ASSUME In(x, q) PROVE In(x, p) \/ x = Head(q)
  <2>1. PICK i \in 1..n : q[i] = x
    BY <1>1, <1>3 DEF In
  <2>2. CASE i = 1
    BY <1>1, <2>1, <2>2
  <2>3. CASE i # 1
    <3>1. i - 1 \in 1..(n - 1) /\ (i - 1) + 1 = i
      BY <1>1, <2>1, <2>3
    <3>2. p[i - 1] = x
      BY <1>1, <2>1, <3>1
    <3> QED
      BY <1>2, <3>1, <3>2 DEF In
  <2> QED
    BY <2>2, <2>3
<1>4. ASSUME In(x, p) PROVE In(x, q)
  <2>1. PICK i \in 1..(n - 1) : p[i] = x
    BY <1>2, <1>4 DEF In
  <2>2. i + 1 \in 1..n /\ q[i + 1] = x
    BY <1>1, <2>1
  <2> QED
    BY <1>1, <2>2 DEF In
<1>5. 1 \in 1..n
  BY <1>1
<1>6. x = Head(q) => In(x, q)
  BY <1>1, <1>5 DEF In
<1> QED
  BY <1>3, <1>4, <1>6 DEF p

(* Where a command is under way, in terms of In.                           *)
LEMMA UnderwayIn ==
  ASSUME NEW r, NEW s
  PROVE  Underway(r, s) <=> out[s] = r \/ In(r, chan[s])
  BY DEF Underway, In

(* The same after a step.                                                  *)
LEMMA UnderwayInPrime ==
  ASSUME NEW r, NEW s
  PROVE  Underway(r, s)' <=> out'[s] = r \/ In(r, chan'[s])
  BY DEF Underway, In
-----------------------------------------------------------------------------
(* Every step is one of the actions.                                       *)
LEMMA NextCases ==
  ASSUME [Next]_vars
  PROVE  \/ UNCHANGED vars
         \/ \E t \in Sessions \cup Requests : SendRefused(t)
         \/ \E t \in Sessions \cup Requests : SendAtOnce(t)
         \/ \E t \in Sessions \cup Requests : WaitForRoom(t)
         \/ \E t \in Sessions \cup Requests : GetRoom(t)
         \/ \E t \in Sessions \cup Requests : RoomGone(t)
         \/ \E r \in Requests : Arrive(r)
         \/ \E r \in Requests : ClientLeaves(r)
         \/ \E s \in Sessions : Accept(s)
         \/ \E s \in Sessions : InsertOnline(s)
         \/ \E s \in Sessions : ReadPing(s)
         \/ \E s \in Sessions : Touch(s)
         \/ \E s \in Sessions : ReadEnd(s)
         \/ \E t \in Sessions \cup {Sweeper} : CheckSession(t)
         \/ \E t \in Sessions \cup {Sweeper} : RemoveOnline(t)
         \/ StartSweep
         \/ \E s \in Sessions : Take(s)
         \/ \E s \in Sessions : RxEnds(s)
         \/ \E s \in Sessions : WriteOk(s)
         \/ \E s \in Sessions : WriteLost(s)
         \/ \E s \in Sessions : WriteFails(s)
         \/ \E s \in Sessions : GiveUp(s)
         \/ \E s \in Sessions : LinkShuts(s)
         \/ \E s \in Sessions : LinkDies(s)
         \/ \E s \in Sessions : Stall(s)
         \/ \E s \in Sessions : Resume(s)
         \/ Age
<1>1. \A t : Send(t) => \/ SendRefused(t) \/ SendAtOnce(t) \/ WaitForRoom(t)
                        \/ GetRoom(t) \/ RoomGone(t)
  BY DEF Send
<1>2. \A t : Unregister(t) => CheckSession(t) \/ RemoveOnline(t)
  BY DEF Unregister
<1>3. \A s : Handler(s) => InsertOnline(s) \/ Touch(s) \/ Send(s) \/ Unregister(s)
  BY DEF Handler
<1>4. \A s : Sender(s) => Take(s) \/ RxEnds(s) \/ WriteOk(s) \/ WriteFails(s)
  BY DEF Sender
<1>5. \A s : Daemon(s) => \/ Accept(s) \/ ReadPing(s) \/ ReadEnd(s) \/ GiveUp(s)
                          \/ LinkShuts(s) \/ LinkDies(s) \/ Stall(s) \/ Resume(s)
  BY DEF Daemon
<1>6. Sweep => StartSweep \/ Unregister(Sweeper)
  BY DEF Sweep
<1> QED
  BY <1>1, <1>2, <1>3, <1>4, <1>5, <1>6 DEF Next

(* What a delivery to the channel of s does.                               *)
LEMMA DeliverTypes ==
  ASSUME TypeOK, NEW t \in Sessions \cup Requests, NEW s \in Sessions,
         Deliver(t, s), Len(chan[s]) < Cap
  PROVE  /\ chan' \in [Sessions -> Seq(Messages)]
         /\ \A u \in Sessions : Len(chan'[u]) <= Cap
         /\ to' \in [Requests -> Sessions \cup {None}]
         /\ pc' \in [Tasks -> Places]
<1>1. Message(t) \in Messages
  BY DEF Message, Messages
<1>2. /\ Append(chan[s], Message(t)) \in Seq(Messages)
      /\ Len(Append(chan[s], Message(t))) = Len(chan[s]) + 1
  BY <1>1, AppendProperties DEF TypeOK
<1>3. Len(chan[s]) \in Nat /\ Cap \in Nat
  BY LenProperties, HubAssumption DEF TypeOK
<1>4. chan' = [chan EXCEPT ![s] = Append(chan[s], Message(t))]
  BY DEF Deliver
<1>5. chan' \in [Sessions -> Seq(Messages)]
  BY <1>2, <1>4 DEF TypeOK
<1>6. \A u \in Sessions : Len(chan'[u]) <= Cap
  BY <1>2, <1>3, <1>4 DEF TypeOK
<1>7. to' \in [Requests -> Sessions \cup {None}]
  BY DEF Deliver, TypeOK
<1>8. pc' \in [Tasks -> Places]
  BY DEF Deliver, Goto, Sent, TypeOK, Places, Midway
<1> QED
  BY <1>5, <1>6, <1>7, <1>8

(* What the end of a handler or of a cleanup of the sweeper does.          *)
LEMMA OverTypes ==
  ASSUME TypeOK, NEW t \in Sessions \cup {Sweeper}, Over(t)
  PROVE  /\ stale' \in Sessions \cup {None}
         /\ pc' \in [Tasks -> Places]
         /\ chan' \in [Sessions -> Seq(Messages)]
         /\ \A u \in Sessions : Len(chan'[u]) <= Cap
         /\ out' \in [Sessions -> Messages \cup {"off", "idle", "gone"}]
         /\ link' \in [Sessions -> {"up", "awaiting", "stalled", "shut", "dead"}]
<1>1. << >> \in Seq(Messages) /\ Len(<< >>) = 0 /\ 0 <= Cap
  BY HubAssumption
<1>2. CASE t = Sweeper
  BY <1>2 DEF Over, Goto, TypeOK, Places, Tasks
<1>3. CASE t # Sweeper
  <2>1. t \in Sessions
    BY <1>3
  <2> QED
    BY <1>1, <1>3, <2>1 DEF Over, Goto, TypeOK, Places, Tasks
<1> QED
  BY <1>2, <1>3

(* The channels stay within their capacity.                                *)
LEMMA TypeStep ==
  ASSUME TypeOK, [Next]_vars
  PROVE  TypeOK'
<1> USE HubAssumption DEF Tasks, entry, wires, Goto
<1>0. \A s \in Sessions : /\ Len(chan[s]) \in Nat /\ Len(waiters[s]) \in Nat
                          /\ DOMAIN waiters[s] = 1..Len(waiters[s])
                          /\ \A i \in DOMAIN waiters[s] :
                               RemoveAt(waiters[s], i) \in Seq(Sessions \cup Requests)
  BY LenProperties, RemoveAtSeq DEF TypeOK
<1>1. CASE UNCHANGED vars
  BY <1>1 DEF vars, TypeOK
<1>2. ASSUME NEW t \in Sessions \cup Requests, SendRefused(t) PROVE TypeOK'
  BY <1>2 DEF SendRefused, Sent, TypeOK, Places, Midway
<1>3. ASSUME NEW t \in Sessions \cup Requests, SendAtOnce(t) PROVE TypeOK'
  <2>1. devices \in Sessions /\ Deliver(t, devices) /\ Len(chan[devices]) < Cap
    BY <1>3, <1>0 DEF SendAtOnce, TypeOK
  <2> QED
    BY <1>3, <2>1, DeliverTypes DEF SendAtOnce, TypeOK
<1>4. ASSUME NEW t \in Sessions \cup Requests, WaitForRoom(t) PROVE TypeOK'
  <2>1. devices \in Sessions
    BY <1>4 DEF WaitForRoom, TypeOK
  <2>2. Append(waiters[devices], t) \in Seq(Sessions \cup Requests)
    BY <2>1, AppendProperties DEF TypeOK
  <2> QED
    BY <1>4, <2>1, <2>2 DEF WaitForRoom, TypeOK, Places
<1>5. ASSUME NEW t \in Sessions \cup Requests, GetRoom(t) PROVE TypeOK'
  <2>1. PICK s \in Sessions : \E i \in DOMAIN waiters[s] :
          i + Len(chan[s]) <= Cap /\ Deliver(t, s) /\ StopWaiting(s, i)
    BY <1>5 DEF GetRoom
  <2>2. PICK i \in DOMAIN waiters[s] :
          i + Len(chan[s]) <= Cap /\ Deliver(t, s) /\ StopWaiting(s, i)
    BY <2>1
  <2>3. Len(chan[s]) < Cap
    BY <2>2, <1>0
  <2>4. waiters' \in [Sessions -> Seq(Sessions \cup Requests)]
    BY <2>2, <1>0 DEF StopWaiting, TypeOK
  <2> QED
    BY <1>5, <2>2, <2>3, <2>4, DeliverTypes DEF GetRoom, TypeOK
<1>6. ASSUME NEW t \in Sessions \cup Requests, RoomGone(t) PROVE TypeOK'
  <2>1. waiters' \in [Sessions -> Seq(Sessions \cup Requests)]
    BY <1>6, <1>0 DEF RoomGone, StopWaiting, TypeOK
  <2> QED
    BY <1>6, <2>1 DEF RoomGone, Sent, TypeOK, Places
<1>7. ASSUME NEW r \in Requests, Arrive(r) PROVE TypeOK'
  <2>1. /\ \E w \in {"send", "notfound"} : pc' = [pc EXCEPT ![r] = w]
        /\ UNCHANGED <<devices, fresh, stale, chan, waiters, out, link, to, got>>
    BY <1>7 DEF Arrive
  <2>2. pc' \in [Tasks -> Places]
    BY <2>1 DEF TypeOK, Places, Midway
  <2> QED
    BY <2>1, <2>2 DEF TypeOK
<1>8. ASSUME NEW r \in Requests, ClientLeaves(r) PROVE TypeOK'
  <2>1. waiters' \in [Sessions -> Seq(Sessions \cup Requests)]
    BY <1>8, <1>0 DEF ClientLeaves, StopWaiting, TypeOK
  <2>2. /\ pc' = [pc EXCEPT ![r] = "left"]
        /\ UNCHANGED <<devices, fresh, stale, chan, out, link, to, got>>
    BY <1>8 DEF ClientLeaves
  <2>3. pc' \in [Tasks -> Places]
    BY <2>2 DEF TypeOK, Places
  <2> QED
    BY <2>1, <2>2, <2>3 DEF TypeOK
<1>9. ASSUME NEW s \in Sessions, Accept(s) PROVE TypeOK'
  BY <1>9 DEF Accept, TypeOK, Places, Midway
<1>10. ASSUME NEW s \in Sessions, InsertOnline(s) PROVE TypeOK'
  BY <1>10 DEF InsertOnline, TypeOK, Places
<1>11. ASSUME NEW s \in Sessions, ReadPing(s) PROVE TypeOK'
  BY <1>11 DEF ReadPing, TypeOK, Places, Midway
<1>12. ASSUME NEW s \in Sessions, Touch(s) PROVE TypeOK'
  BY <1>12 DEF Touch, TypeOK, Places, Midway
<1>13. ASSUME NEW s \in Sessions, ReadEnd(s) PROVE TypeOK'
  BY <1>13 DEF ReadEnd, TypeOK, Places, Midway
<1>14. ASSUME NEW t \in Sessions \cup {Sweeper}, CheckSession(t) PROVE TypeOK'
  <2>1. CASE Over(t)
    BY <1>14, <2>1, OverTypes DEF CheckSession, TypeOK
  <2>2. CASE Goto(t, "remove") /\ UNCHANGED <<stale, chan, out, link>>
    BY <1>14, <2>2 DEF CheckSession, TypeOK, Places, Midway
  <2> QED
    BY <1>14, <2>1, <2>2 DEF CheckSession
<1>15. ASSUME NEW t \in Sessions \cup {Sweeper}, RemoveOnline(t) PROVE TypeOK'
  BY <1>15, OverTypes DEF RemoveOnline, TypeOK
<1>16. CASE StartSweep
  BY <1>16 DEF StartSweep, TypeOK, Places, Midway
<1>17. ASSUME NEW s \in Sessions, Take(s) PROVE TypeOK'
  <2>1. /\ Head(chan[s]) \in Messages /\ Tail(chan[s]) \in Seq(Messages)
        /\ Len(Tail(chan[s])) = Len(chan[s]) - 1
    BY <1>17, HeadTailProperties DEF Take, TypeOK
  <2> QED
    BY <1>17, <2>1, <1>0 DEF Take, TypeOK
<1>18. ASSUME NEW s \in Sessions, RxEnds(s) PROVE TypeOK'
  BY <1>18 DEF RxEnds, TypeOK
<1>19. ASSUME NEW s \in Sessions, WriteOk(s) PROVE TypeOK'
  <2>1. /\ out' = [out EXCEPT ![s] = "idle"]
        /\ UNCHANGED <<devices, fresh, pc, stale, chan, waiters, to>>
    BY <1>19 DEF WriteOk
  <2>2. out[s] \in Messages
    BY <1>19 DEF WriteOk, Writing, TypeOK
  <2>3. got' \in SUBSET Requests
    BY <1>19, <2>2 DEF WriteOk, TypeOK, Messages
  <2>4. link' \in [Sessions -> {"up", "awaiting", "stalled", "shut", "dead"}]
    BY <1>19 DEF WriteOk, TypeOK
  <2>5. out' \in [Sessions -> Messages \cup {"off", "idle", "gone"}]
    BY <2>1 DEF TypeOK
  <2> QED
    BY <2>1, <2>3, <2>4, <2>5 DEF TypeOK
<1>20. ASSUME NEW s \in Sessions, WriteLost(s) PROVE TypeOK'
  BY <1>20 DEF WriteLost, TypeOK
<1>21. ASSUME NEW s \in Sessions, WriteFails(s) PROVE TypeOK'
  <2>1. << >> \in Seq(Messages) /\ Len(<< >>) = 0 /\ 0 <= Cap
    OBVIOUS
  <2> QED
    BY <1>21, <2>1 DEF WriteFails, TypeOK
<1>22. ASSUME NEW s \in Sessions, GiveUp(s) PROVE TypeOK'
  BY <1>22 DEF GiveUp, TypeOK
<1>23. ASSUME NEW s \in Sessions, LinkShuts(s) PROVE TypeOK'
  BY <1>23 DEF LinkShuts, TypeOK
<1>24. ASSUME NEW s \in Sessions, LinkDies(s) PROVE TypeOK'
  BY <1>24 DEF LinkDies, TypeOK
<1>25. CASE Age
  BY <1>25 DEF Age, TypeOK
<1>26. ASSUME NEW s \in Sessions, Stall(s) PROVE TypeOK'
  BY <1>26 DEF Stall, TypeOK
<1>27. ASSUME NEW s \in Sessions, Resume(s) PROVE TypeOK'
  BY <1>27 DEF Resume, TypeOK
<1> QED
  BY <1>1, <1>2, <1>3, <1>4, <1>5, <1>6, <1>7, <1>8, <1>9, <1>10, <1>11,
     <1>12, <1>13, <1>14, <1>15, <1>16, <1>17, <1>18, <1>19, <1>20, <1>21,
     <1>22, <1>23, <1>24, <1>25, <1>26, <1>27, NextCases
-----------------------------------------------------------------------------
(* Nobody waits for a connection but the registered one, and its entry is  *)
(* not replaced or removed while somebody waits.                           *)
LEMMA WaitersStep ==
  ASSUME TypeOK, WaitsForTheRegistered, [Next]_vars
  PROVE  WaitsForTheRegistered'
<1> DEFINE Same == devices' = devices /\ waiters' = waiters
           Fewer == /\ devices' = devices
                    /\ \E s \in Sessions : \E i \in DOMAIN waiters[s] : StopWaiting(s, i)
<1> USE DEF entry, wires
<1>1. ASSUME Same PROVE WaitsForTheRegistered'
  BY <1>1 DEF WaitsForTheRegistered
<1>2. ASSUME Fewer PROVE WaitsForTheRegistered'
  <2>1. PICK s \in Sessions : \E i \in DOMAIN waiters[s] : StopWaiting(s, i)
    BY <1>2
  <2>2. PICK i \in DOMAIN waiters[s] : StopWaiting(s, i)
    BY <2>1
  <2>3. waiters[s] # << >>
    BY RemoveAtSeq DEF TypeOK
  <2>4. \A u \in Sessions : waiters'[u] # << >> => waiters[u] # << >>
    BY <2>2, <2>3 DEF StopWaiting, TypeOK
  <2> QED
    BY <1>2, <2>4 DEF WaitsForTheRegistered
<1>3. ASSUME ~Guarded, waiters' = waiters PROVE WaitsForTheRegistered'
  BY <1>3 DEF Guarded, WaitsForTheRegistered
<1>4. ASSUME NEW t \in Sessions \cup Requests, WaitForRoom(t)
      PROVE  WaitsForTheRegistered'
  <2>1. \A u \in Sessions : u # devices => waiters'[u] = waiters[u]
    BY <1>4 DEF WaitForRoom, TypeOK
  <2> QED
    BY <1>4, <2>1 DEF WaitForRoom, WaitsForTheRegistered
<1>5. CASE UNCHANGED vars
  BY <1>1, <1>5 DEF vars
<1>6. ASSUME NEW t, GetRoom(t) PROVE Fewer
  BY <1>6 DEF GetRoom
<1>7. ASSUME NEW t, RoomGone(t) PROVE Fewer
  BY <1>7 DEF RoomGone
<1>8. ASSUME NEW r, ClientLeaves(r) PROVE Fewer
  BY <1>8 DEF ClientLeaves
<1>9. ASSUME NEW t, SendRefused(t) \/ SendAtOnce(t) \/ Touch(t) \/ CheckSession(t) PROVE Same
  BY <1>9 DEF SendRefused, SendAtOnce, Touch, CheckSession
<1>10. ASSUME NEW t, Arrive(t) \/ Accept(t) \/ ReadPing(t) \/ ReadEnd(t) PROVE Same
  BY <1>10 DEF Arrive, Accept, ReadPing, ReadEnd
<1>11. ASSUME NEW s, InsertOnline(s) \/ RemoveOnline(s)
       PROVE  ~Guarded /\ waiters' = waiters
  BY <1>11 DEF InsertOnline, RemoveOnline
<1>12. ASSUME StartSweep \/ Age PROVE Same
  BY <1>12 DEF StartSweep, Age
<1>13. ASSUME NEW s, Take(s) \/ RxEnds(s) \/ WriteOk(s) \/ WriteLost(s) \/ WriteFails(s)
       PROVE  Same
  BY <1>13 DEF Take, RxEnds, WriteOk, WriteLost, WriteFails
<1>14. ASSUME NEW s, GiveUp(s) \/ LinkShuts(s) \/ LinkDies(s) \/ Stall(s) \/ Resume(s) PROVE Same
  BY <1>14 DEF GiveUp, LinkShuts, LinkDies, Stall, Resume
<1> HIDE DEF Same, Fewer
<1> QED
  BY <1>1, <1>2, <1>3, <1>4, <1>5, <1>6, <1>7, <1>8, <1>9, <1>10, <1>11,
     <1>12, <1>13, <1>14, NextCases
-----------------------------------------------------------------------------
(* What a step does to the commands on their way.                          *)

(* A request is answered with success in this step exactly if it was.      *)
SameOk == \A r \in Requests : pc'[r] = "ok" <=> pc[r] = "ok"

(* Nothing, except that a link may break.                                  *)
Elsewhere ==
  /\ UNCHANGED <<chan, out, got, to>>
  /\ SameOk
  /\ \A s \in Sessions : link[s] \in {"shut", "dead"} => link'[s] = link[s]

(* A message enters a channel.                                             *)
Delivery ==
  \E t \in Sessions \cup Requests, s \in Sessions :
    /\ pc[t] \in {"send", "pong", "room"}
    /\ Deliver(t, s)
    /\ UNCHANGED <<out, got, link>>

(* The channel and the sender task of a broken connection are dropped.     *)
Drop ==
  \E s \in Sessions :
    /\ out' = [out EXCEPT ![s] = "gone"]
    /\ chan' = [chan EXCEPT ![s] = << >>]
    /\ \A u \in Sessions : link[u] \in {"shut", "dead"} => link'[u] \in {"shut", "dead"}
    /\ link'[s] \in {"shut", "dead"}
    /\ SameOk
    /\ UNCHANGED <<got, to>>

(* The sender task of a connection starts, takes, writes or ends.          *)
Pass ==
  \E s \in Sessions :
    /\ InsertOnline(s) \/ Take(s) \/ RxEnds(s) \/ WriteOk(s) \/ WriteLost(s)
    /\ SameOk

(* Every step has one of these four effects on the commands.               *)
LEMMA Effects ==
  ASSUME TypeOK, [Next]_vars
  PROVE  Elsewhere \/ Delivery \/ Drop \/ Pass
<1> USE HubAssumption DEF entry, wires, Goto
<1>1. CASE UNCHANGED vars
  BY <1>1 DEF vars, Elsewhere, SameOk
<1>2. ASSUME NEW t \in Tasks, NEW w \in Places \ {"ok"}, pc[t] # "ok",
             pc' = [pc EXCEPT ![t] = w]
      PROVE  SameOk
  BY <1>2 DEF SameOk, TypeOK, Tasks
<1>3. ASSUME NEW t \in Sessions \cup Requests, SendRefused(t) PROVE Elsewhere
  <2>1. /\ pc[t] # "ok"
        /\ \E w \in {"serve", "unavailable"} : pc' = [pc EXCEPT ![t] = w]
        /\ UNCHANGED <<chan, out, got, to, link>>
    BY <1>3 DEF SendRefused, Sent
  <2> QED
    BY <1>2, <2>1 DEF Elsewhere, Tasks, Places
<1>4. ASSUME NEW t \in Sessions \cup Requests, SendAtOnce(t) PROVE Delivery
  <2>1. devices \in Sessions
    BY <1>4 DEF SendAtOnce, TypeOK
  <2> QED
    BY <1>4, <2>1 DEF SendAtOnce, Delivery
<1>5. ASSUME NEW t \in Sessions \cup Requests, WaitForRoom(t) PROVE Elsewhere
  <2>1. pc[t] # "ok" /\ pc' = [pc EXCEPT ![t] = "room"]
        /\ UNCHANGED <<chan, out, got, to, link>>
    BY <1>5 DEF WaitForRoom
  <2> QED
    BY <1>2, <2>1 DEF Elsewhere, Tasks, Places
<1>6. ASSUME NEW t \in Sessions \cup Requests, GetRoom(t) PROVE Delivery
  BY <1>6 DEF GetRoom, Delivery
<1>7. ASSUME NEW t \in Sessions \cup Requests, RoomGone(t) PROVE Elsewhere
  <2>1. /\ pc[t] # "ok"
        /\ \E w \in {"serve", "unavailable"} : pc' = [pc EXCEPT ![t] = w]
        /\ UNCHANGED <<chan, out, got, to, link>>
    BY <1>7 DEF RoomGone, Sent
  <2> QED
    BY <1>2, <2>1 DEF Elsewhere, Tasks, Places
<1>8. ASSUME NEW r \in Requests, Arrive(r) PROVE Elsewhere
  <2>1. /\ pc[r] # "ok"
        /\ \E w \in {"send", "notfound"} : pc' = [pc EXCEPT ![r] = w]
        /\ UNCHANGED <<chan, out, got, to, link>>
    BY <1>8 DEF Arrive
  <2> QED
    BY <1>2, <2>1 DEF Elsewhere, Tasks, Places, Midway
<1>9. ASSUME NEW r \in Requests, ClientLeaves(r) PROVE Elsewhere
  <2>1. pc[r] # "ok" /\ pc' = [pc EXCEPT ![r] = "left"]
        /\ UNCHANGED <<chan, out, got, to, link>>
    BY <1>9 DEF ClientLeaves
  <2> QED
    BY <1>2, <2>1 DEF Elsewhere, Tasks, Places
<1>10. ASSUME NEW s \in Sessions, Accept(s) \/ Touch(s) \/ ReadEnd(s) PROVE Elsewhere
  <2>1. /\ pc[s] # "ok"
        /\ \E w \in {"insert", "pong", "check"} : pc' = [pc EXCEPT ![s] = w]
        /\ UNCHANGED <<chan, out, got, to, link>>
    BY <1>10 DEF Accept, Touch, ReadEnd
  <2> QED
    BY <1>2, <2>1 DEF Elsewhere, Tasks, Places, Midway
<1>11. ASSUME NEW s \in Sessions, InsertOnline(s) PROVE Pass
  <2>1. pc[s] # "ok" /\ pc' = [pc EXCEPT ![s] = "serve"]
    BY <1>11 DEF InsertOnline
  <2>2. SameOk
    BY <1>2, <2>1 DEF Tasks, Places
  <2> QED
    BY <1>11, <2>2 DEF Pass
<1>12. ASSUME NEW s \in Sessions, ReadPing(s) PROVE Elsewhere
  <2>1. /\ pc[s] # "ok" /\ pc' = [pc EXCEPT ![s] = "touch"]
        /\ link[s] = "up" /\ link' = [link EXCEPT ![s] = "awaiting"]
        /\ UNCHANGED <<chan, out, got, to>>
    BY <1>12 DEF ReadPing
  <2>2. SameOk
    BY <1>2, <2>1 DEF Tasks, Places, Midway
  <2> QED
    BY <2>1, <2>2 DEF Elsewhere, TypeOK
<1>13. ASSUME NEW t \in Sessions \cup {Sweeper}, Over(t), pc[t] # "ok",
              UNCHANGED <<got, to>>
       PROVE  Elsewhere \/ Drop
  <2>1. CASE t = Sweeper
    <3>1. pc' = [pc EXCEPT ![t] = "sleep"] /\ UNCHANGED <<chan, out, link>>
      BY <1>13, <2>1 DEF Over
    <3>2. SameOk
      BY <1>2, <1>13, <3>1 DEF Tasks, Places
    <3> QED
      BY <1>13, <3>1, <3>2 DEF Elsewhere
  <2>2. CASE t # Sweeper
    <3>1. /\ t \in Sessions
          /\ pc' = [pc EXCEPT ![t] = "ended"]
          /\ out' = [out EXCEPT ![t] = "gone"]
          /\ chan' = [chan EXCEPT ![t] = << >>]
          /\ link' = [link EXCEPT ![t] = "shut"]
      BY <1>13, <2>2 DEF Over
    <3>2. SameOk
      BY <1>2, <1>13, <3>1 DEF Tasks, Places
    <3>3. /\ \A u \in Sessions : link[u] \in {"shut", "dead"} => link'[u] \in {"shut", "dead"}
          /\ link'[t] \in {"shut", "dead"}
      BY <3>1 DEF TypeOK
    <3> QED
      BY <1>13, <3>1, <3>2, <3>3 DEF Drop
  <2> QED
    BY <2>1, <2>2
<1>14. ASSUME NEW t \in Sessions \cup {Sweeper}, CheckSession(t) PROVE Elsewhere \/ Drop
  <2>1. pc[t] # "ok" /\ UNCHANGED <<got, to>>
    BY <1>14 DEF CheckSession
  <2>2. CASE pc' = [pc EXCEPT ![t] = "remove"] /\ UNCHANGED <<chan, out, link>>
    <3>1. SameOk
      BY <1>2, <2>1, <2>2 DEF Tasks, Places, Midway
    <3> QED
      BY <2>1, <2>2, <3>1 DEF Elsewhere
  <2>3. CASE Over(t)
    BY <1>13, <2>1, <2>3
  <2> QED
    BY <1>14, <2>2, <2>3 DEF CheckSession
<1>15. ASSUME NEW t \in Sessions \cup {Sweeper}, RemoveOnline(t) PROVE Elsewhere \/ Drop
  <2>1. pc[t] # "ok" /\ UNCHANGED <<got, to>> /\ Over(t)
    BY <1>15 DEF RemoveOnline
  <2> QED
    BY <1>13, <2>1
<1>16. ASSUME StartSweep PROVE Elsewhere
  <2>1. pc[Sweeper] # "ok" /\ pc' = [pc EXCEPT ![Sweeper] = "check"]
        /\ UNCHANGED <<chan, out, got, to, link>>
    BY <1>16 DEF StartSweep
  <2> QED
    BY <1>2, <2>1 DEF Elsewhere, Tasks, Places, Midway
<1>17. ASSUME NEW s \in Sessions, Take(s) \/ RxEnds(s) \/ WriteOk(s) \/ WriteLost(s)
       PROVE  Pass
  <2>1. pc' = pc
    BY <1>17 DEF Take, RxEnds, WriteOk, WriteLost
  <2> QED
    BY <1>17, <2>1 DEF Pass, SameOk
<1>18. ASSUME NEW s \in Sessions, WriteFails(s) PROVE Drop
  <2>1. SameOk /\ UNCHANGED <<got, to, link>> /\ link[s] \in {"shut", "dead"}
    BY <1>18 DEF WriteFails, SameOk
  <2> QED
    BY <1>18, <2>1 DEF WriteFails, Drop
<1>19. ASSUME NEW s \in Sessions, GiveUp(s) \/ LinkShuts(s) \/ LinkDies(s)
                                 \/ Stall(s) \/ Resume(s)
       PROVE  Elsewhere
  <2>1. /\ link[s] \in {"up", "awaiting", "stalled"}
        /\ \E l \in {"up", "stalled", "shut", "dead"} : link' = [link EXCEPT ![s] = l]
        /\ UNCHANGED <<pc, chan, out, got, to>>
    BY <1>19 DEF GiveUp, LinkShuts, LinkDies, Stall, Resume
  <2> QED
    BY <2>1 DEF Elsewhere, SameOk, TypeOK
<1>20. ASSUME Age PROVE Elsewhere
  BY <1>20 DEF Age, Elsewhere, SameOk
<1> QED
  BY <1>1, <1>3, <1>4, <1>5, <1>6, <1>7, <1>8, <1>9, <1>10, <1>11, <1>12,
     <1>14, <1>15, <1>16, <1>17, <1>18, <1>19, <1>20, NextCases

(* What a delivery adds to the commands that are under way: the one of its *)
(* request, at the connection that took it.                                *)
LEMMA DeliverAdds ==
  ASSUME TypeOK, NEW t \in Sessions \cup Requests, NEW s \in Sessions,
         Deliver(t, s), out' = out, NEW r \in Requests, NEW u \in Sessions
  PROVE  Underway(r, u)' <=> Underway(r, u) \/ (u = s /\ r = t)
<1>1. Message(t) \in Messages /\ (r = Message(t) <=> r = t)
  BY HubAssumption DEF Message, Messages
<1>2. chan[s] \in Seq(Messages) /\ chan' = [chan EXCEPT ![s] = Append(chan[s], Message(t))]
  BY DEF TypeOK, Deliver
<1>3. In(r, chan'[u]) <=> In(r, chan[u]) \/ (u = s /\ r = t)
  <2>1. CASE u = s
    <3>1. chan'[s] = Append(chan[s], Message(t))
      BY <1>2 DEF TypeOK
    <3>2. In(r, Append(chan[s], Message(t))) <=> In(r, chan[s]) \/ r = Message(t)
      BY <1>1, <1>2, AppendHolds
    <3> QED
      BY <1>1, <2>1, <3>1, <3>2
  <2>2. CASE u # s
    BY <1>2, <2>2 DEF TypeOK
  <2> QED
    BY <2>1, <2>2
<1> QED
  BY <1>3, UnderwayIn, UnderwayInPrime

(* A delivery answers its own request and no other one.                    *)
LEMMA DeliverAnswers ==
  ASSUME TypeOK, NEW t \in Sessions \cup Requests, NEW s \in Sessions,
         Deliver(t, s), NEW r \in Requests
  PROVE  /\ r = t => pc'[r] = "ok" /\ to'[r] = s
         /\ r # t => pc'[r] = pc[r] /\ to'[r] = to[r]
  BY HubAssumption DEF Deliver, Goto, Sent, TypeOK, Tasks

(* What the sender task takes from the channel it holds, and nothing else  *)
(* changes.                                                                *)
LEMMA TakeKeeps ==
  ASSUME TypeOK, NEW s \in Sessions, Take(s), NEW r \in Requests, NEW u \in Sessions
  PROVE  Underway(r, u)' <=> Underway(r, u)
<1>1. /\ chan[s] \in Seq(Messages) /\ chan[s] # << >> /\ out[s] = "idle" /\ r # "idle"
      /\ out' = [out EXCEPT ![s] = Head(chan[s])]
      /\ chan' = [chan EXCEPT ![s] = Tail(chan[s])]
  BY HubAssumption DEF Take, TypeOK
<1>2. CASE u = s
  <2>1. chan'[s] = Tail(chan[s]) /\ out'[s] = Head(chan[s])
    BY <1>1 DEF TypeOK
  <2>2. In(r, chan[s]) <=> In(r, Tail(chan[s])) \/ r = Head(chan[s])
    BY <1>1, TailHolds
  <2> QED
    BY <1>1, <1>2, <2>1, <2>2, UnderwayIn, UnderwayInPrime
<1>3. CASE u # s
  <2>1. chan'[u] = chan[u] /\ out'[u] = out[u]
    BY <1>1, <1>3 DEF TypeOK
  <2> QED
    BY <2>1, UnderwayIn, UnderwayInPrime
<1> QED
  BY <1>2, <1>3

(* No command of a request that is not answered with success in this step  *)
(* gets under way or executed.                                             *)
LEMMA UnsentStep ==
  ASSUME TypeOK, Unsent, [Next]_vars
  PROVE  Unsent'
<1> SUFFICES ASSUME NEW r \in Requests, pc'[r] # "ok"
             PROVE  r \notin got' /\ \A u \in Sessions : ~Underway(r, u)'
  BY DEF Unsent
<1> DEFINE Nowhere == r \notin got /\ \A u \in Sessions : ~Underway(r, u)
           Goal == r \notin got' /\ \A u \in Sessions : ~Underway(r, u)'
<1>0. r \notin {"idle", "gone", "off", Pong}
  BY HubAssumption
<1>1. pc[r] # "ok" => Nowhere
  BY DEF Unsent
<1>2. CASE Elsewhere
  <2>1. Nowhere /\ UNCHANGED <<chan, out, got>>
    BY <1>1, <1>2 DEF Elsewhere, SameOk
  <2> QED
    BY <2>1, UnderwayIn, UnderwayInPrime
<1>3. CASE Delivery
  <2>1. PICK t \in Sessions \cup Requests, s \in Sessions :
          Deliver(t, s) /\ UNCHANGED <<out, got>>
    BY <1>3 DEF Delivery
  <2>2. r # t /\ pc[r] # "ok"
    BY <2>1, DeliverAnswers
  <2> QED
    BY <1>1, <2>1, <2>2, DeliverAdds
<1>4. CASE Drop
  <2>1. PICK s \in Sessions : /\ out' = [out EXCEPT ![s] = "gone"]
                              /\ chan' = [chan EXCEPT ![s] = << >>]
                              /\ SameOk /\ got' = got
    BY <1>4 DEF Drop
  <2>2. Nowhere
    BY <1>1, <2>1 DEF SameOk
  <2>3. ASSUME NEW u \in Sessions PROVE ~Underway(r, u)'
    <3>1. CASE u = s
      <4>1. out'[u] = "gone" /\ chan'[u] = << >>
        BY <2>1, <3>1 DEF TypeOK
      <4>2. ~In(r, << >>)
        BY DEF In
      <4> QED
        BY <1>0, <4>1, <4>2, UnderwayInPrime
    <3>2. CASE u # s
      <4>1. out'[u] = out[u] /\ chan'[u] = chan[u]
        BY <2>1, <3>2 DEF TypeOK
      <4> QED
        BY <2>2, <4>1, UnderwayIn, UnderwayInPrime
    <3> QED
      BY <3>1, <3>2
  <2> QED
    BY <2>1, <2>2, <2>3
<1>5. CASE Pass
  <2>1. PICK s \in Sessions :
          /\ InsertOnline(s) \/ Take(s) \/ RxEnds(s) \/ WriteOk(s) \/ WriteLost(s)
          /\ SameOk
    BY <1>5 DEF Pass
  <2>2. Nowhere
    BY <1>1, <2>1 DEF SameOk
  <2>3. CASE Take(s)
    BY <2>2, <2>3, TakeKeeps DEF Take
  <2>4. CASE InsertOnline(s) \/ RxEnds(s) \/ WriteOk(s) \/ WriteLost(s)
    <3>1. /\ chan' = chan
          /\ \E o \in {"idle", "gone"} : out' = [out EXCEPT ![s] = o]
          /\ got' \subseteq got \cup {out[s]}
      BY <2>4 DEF InsertOnline, RxEnds, WriteOk, WriteLost
    <3>2. \A u \in Sessions : out'[u] = r => out[u] = r
      BY <1>0, <3>1 DEF TypeOK
    <3>3. out[s] # r
      BY <2>2, UnderwayIn
    <3> QED
      BY <2>2, <3>1, <3>2, <3>3, UnderwayIn, UnderwayInPrime
  <2> QED
    BY <2>1, <2>3, <2>4
<1> QED
  BY <1>2, <1>3, <1>4, <1>5, Effects

(* A connection becomes registered as its sender task starts.              *)
LEMMA UnopenedStep ==
  ASSUME TypeOK, Unopened, [Next]_vars
  PROVE  Unopened'
<1> SUFFICES ASSUME NEW s \in Sessions, pc'[s] \in {"new", "insert"}
             PROVE  out'[s] = "off"
  BY DEF Unopened
<1> USE HubAssumption DEF entry, wires, Goto, TypeOK, Tasks
<1>1. ASSUME NEW t \in Tasks, NEW w, pc' = [pc EXCEPT ![t] = w], w \notin {"new", "insert"}
      PROVE  s # t /\ pc[s] \in {"new", "insert"}
  BY <1>1
<1>2. ASSUME pc[s] \in {"new", "insert"}, out'[s] = out[s] PROVE out'[s] = "off"
  BY <1>2 DEF Unopened
<1>3. CASE UNCHANGED vars
  BY <1>2, <1>3 DEF vars
<1>4. ASSUME NEW t \in Sessions \cup Requests,
             SendRefused(t) \/ SendAtOnce(t) \/ WaitForRoom(t)
      PROVE  pc[s] \in {"new", "insert"} /\ out' = out
  <2>1. out' = out /\ \E w \in {"serve", "unavailable", "ok", "room"} : pc' = [pc EXCEPT ![t] = w]
    BY <1>4 DEF SendRefused, SendAtOnce, WaitForRoom, Deliver, Sent
  <2> QED
    BY <1>1, <2>1
<1>5. ASSUME NEW t \in Sessions \cup Requests, GetRoom(t) \/ RoomGone(t)
      PROVE  pc[s] \in {"new", "insert"} /\ out' = out
  <2>1. out' = out /\ \E w \in {"serve", "unavailable", "ok"} : pc' = [pc EXCEPT ![t] = w]
    BY <1>5 DEF GetRoom, RoomGone, Deliver, Sent
  <2> QED
    BY <1>1, <2>1
<1>6. ASSUME NEW r \in Requests, Arrive(r) \/ ClientLeaves(r)
      PROVE  pc[s] \in {"new", "insert"} /\ out' = out
  <2>1. out' = out /\ \E w \in {"send", "notfound", "left"} : pc' = [pc EXCEPT ![r] = w]
    BY <1>6 DEF Arrive, ClientLeaves
  <2> QED
    BY <1>1, <2>1
<1>7. ASSUME NEW u \in Sessions, Accept(u)
      PROVE  pc[s] \in {"new", "insert"} /\ out' = out
  BY <1>7 DEF Accept
<1>8. ASSUME NEW u \in Sessions, ReadPing(u) \/ Touch(u) \/ ReadEnd(u)
      PROVE  pc[s] \in {"new", "insert"} /\ out' = out
  <2>1. out' = out /\ \E w \in {"touch", "pong", "check"} : pc' = [pc EXCEPT ![u] = w]
    BY <1>8 DEF ReadPing, Touch, ReadEnd
  <2> QED
    BY <1>1, <2>1
<1>9. ASSUME NEW u \in Sessions, InsertOnline(u)
      PROVE  pc[s] \in {"new", "insert"} /\ out'[s] = out[s]
  <2>1. out' = [out EXCEPT ![u] = "idle"] /\ pc' = [pc EXCEPT ![u] = "serve"]
    BY <1>9 DEF InsertOnline
  <2> QED
    BY <1>1, <2>1
<1>10. ASSUME NEW t \in Sessions \cup {Sweeper}, Over(t)
       PROVE  pc[s] \in {"new", "insert"} /\ out'[s] = out[s]
  <2>1. CASE t = Sweeper
    <3>1. out' = out /\ pc' = [pc EXCEPT ![t] = "sleep"]
      BY <1>10, <2>1 DEF Over
    <3> QED
      BY <1>1, <3>1
  <2>2. CASE t # Sweeper
    <3>1. out' = [out EXCEPT ![t] = "gone"] /\ pc' = [pc EXCEPT ![t] = "ended"]
      BY <1>10, <2>2 DEF Over
    <3> QED
      BY <1>1, <2>2, <3>1
  <2> QED
    BY <2>1, <2>2
<1>11. ASSUME NEW t \in Sessions \cup {Sweeper}, CheckSession(t) \/ RemoveOnline(t)
       PROVE  pc[s] \in {"new", "insert"} /\ out'[s] = out[s]
  <2>1. Over(t) \/ (pc' = [pc EXCEPT ![t] = "remove"] /\ out' = out)
    BY <1>11 DEF CheckSession, RemoveOnline
  <2> QED
    BY <1>1, <1>10, <2>1
<1>12. ASSUME StartSweep
       PROVE  pc[s] \in {"new", "insert"} /\ out' = out
  <2>1. out' = out /\ pc' = [pc EXCEPT ![Sweeper] = "check"]
    BY <1>12 DEF StartSweep
  <2> QED
    BY <1>1, <2>1
<1>13. ASSUME NEW u \in Sessions,
              Take(u) \/ RxEnds(u) \/ WriteOk(u) \/ WriteLost(u) \/ WriteFails(u)
       PROVE  pc[s] \in {"new", "insert"} /\ out'[s] = out[s]
  <2>1. pc' = pc /\ out[u] # "off" /\ \A v \in Sessions : v # u => out'[v] = out[v]
    BY <1>13 DEF Take, RxEnds, WriteOk, WriteLost, WriteFails, Writing
  <2>2. out[s] = "off"
    BY <2>1 DEF Unopened
  <2> QED
    BY <2>1, <2>2
<1>14. ASSUME NEW u \in Sessions, GiveUp(u) \/ LinkShuts(u) \/ LinkDies(u)
                                 \/ Stall(u) \/ Resume(u)
       PROVE  pc[s] \in {"new", "insert"} /\ out' = out
  BY <1>14 DEF GiveUp, LinkShuts, LinkDies, Stall, Resume
<1>15. ASSUME Age PROVE pc[s] \in {"new", "insert"} /\ out' = out
  BY <1>15 DEF Age
<1> QED
  BY <1>2, <1>3, <1>4, <1>5, <1>6, <1>7, <1>8, <1>9, <1>11, <1>12, <1>13,
     <1>14, <1>15, NextCases

(* A success is remembered, with the connection that took the command.     *)
LEMMA OkStays ==
  ASSUME TypeOK, Addressed, [Next]_vars, NEW r \in Requests, pc[r] = "ok"
  PROVE  pc'[r] = "ok" /\ to'[r] = to[r]
<1>1. CASE Elsewhere
  BY <1>1 DEF Elsewhere, SameOk
<1>2. CASE Delivery
  <2>1. PICK t \in Sessions \cup Requests, s \in Sessions :
          pc[t] \in {"send", "pong", "room"} /\ Deliver(t, s)
    BY <1>2 DEF Delivery
  <2> QED
    BY <2>1, DeliverAnswers
<1>3. CASE Drop
  BY <1>3 DEF Drop, SameOk
<1>4. CASE Pass
  BY <1>4 DEF Pass, SameOk, InsertOnline, Take, RxEnds, WriteOk, WriteLost
<1> QED
  BY <1>1, <1>2, <1>3, <1>4, Effects

(* A request that is answered with success in this step has its command in *)
(* the channel of the connection that took it.                             *)
LEMMA OkStarts ==
  ASSUME TypeOK, [Next]_vars, NEW r \in Requests, pc[r] # "ok", pc'[r] = "ok"
  PROVE  to'[r] \in Sessions /\ Underway(r, to[r])'
<1>1. Delivery
  BY Effects DEF Elsewhere, Drop, Pass, SameOk
<1>2. PICK t \in Sessions \cup Requests, s \in Sessions : Deliver(t, s) /\ out' = out
  BY <1>1 DEF Delivery
<1>3. r = t /\ to'[r] = s
  BY <1>2, DeliverAnswers
<1>4. Underway(r, s)'
  BY <1>2, <1>3, DeliverAdds
<1> QED
  BY <1>3, <1>4, UnderwayInPrime

(* A broken link does not recover, and what was executed stays executed.   *)
LEMMA NothingUndone ==
  ASSUME TypeOK, [Next]_vars, NEW s \in Sessions
  PROVE  /\ link[s] \in {"shut", "dead"} => link'[s] \in {"shut", "dead"}
         /\ got \subseteq got'
<1>1. CASE Elsewhere
  BY <1>1 DEF Elsewhere
<1>2. CASE Delivery
  BY <1>2 DEF Delivery
<1>3. CASE Drop
  BY <1>3 DEF Drop
<1>4. CASE Pass
  <2>1. PICK u \in Sessions :
          InsertOnline(u) \/ Take(u) \/ RxEnds(u) \/ WriteOk(u) \/ WriteLost(u)
    BY <1>4 DEF Pass
  <2>2. CASE WriteOk(u)
    <3>1. link[u] \in {"up", "awaiting"} /\ (link' = link \/ link' = [link EXCEPT ![u] = "up"])
      BY <2>2 DEF WriteOk
    <3>2. got \subseteq got'
      BY <2>2 DEF WriteOk
    <3> QED
      BY <3>1, <3>2 DEF TypeOK
  <2> QED
    BY <2>1, <2>2 DEF InsertOnline, Take, RxEnds, WriteLost
<1> QED
  BY <1>1, <1>2, <1>3, <1>4, Effects

(* A command that is under way stays so until it is executed or its        *)
(* connection breaks.                                                      *)
LEMMA UnderwayStays ==
  ASSUME TypeOK, Unopened, [Next]_vars,
         NEW r \in Requests, NEW s \in Sessions, Underway(r, s)
  PROVE  Underway(r, s)' \/ r \in got' \/ link'[s] \in {"shut", "dead"}
<1>0. r \notin {"idle", "gone", "off", Pong}
  BY HubAssumption
<1>1. CASE Elsewhere
  <2>1. UNCHANGED <<chan, out>>
    BY <1>1 DEF Elsewhere
  <2> QED
    BY <2>1, UnderwayIn, UnderwayInPrime
<1>2. CASE Delivery
  BY <1>2, DeliverAdds DEF Delivery
<1>3. CASE Drop
  <2>1. PICK u \in Sessions : /\ out' = [out EXCEPT ![u] = "gone"]
                              /\ chan' = [chan EXCEPT ![u] = << >>]
                              /\ link'[u] \in {"shut", "dead"}
    BY <1>3 DEF Drop
  <2>2. ASSUME u # s PROVE Underway(r, s)'
    <3>1. out'[s] = out[s] /\ chan'[s] = chan[s]
      BY <2>1, <2>2 DEF TypeOK
    <3> QED
      BY <3>1, UnderwayIn, UnderwayInPrime
  <2> QED
    BY <2>1, <2>2
<1>4. CASE Pass
  <2>1. PICK u \in Sessions :
          InsertOnline(u) \/ Take(u) \/ RxEnds(u) \/ WriteOk(u) \/ WriteLost(u)
    BY <1>4 DEF Pass
  <2>2. CASE Take(u)
    BY <2>2, TakeKeeps
  <2>3. ASSUME chan' = chan, out'[s] = out[s] PROVE Underway(r, s)'
    BY <2>3, UnderwayIn, UnderwayInPrime
  <2>4. CASE InsertOnline(u) \/ RxEnds(u)
    <3>1. /\ chan' = chan
          /\ \E o \in {"idle", "gone"} : out' = [out EXCEPT ![u] = o]
          /\ out[u] \in {"off", "idle"}
      BY <2>4 DEF InsertOnline, RxEnds, Unopened
    <3>2. out[s] = r => u # s
      BY <1>0, <3>1
    <3>3. out[s] = r => out'[s] = out[s]
      BY <3>1, <3>2 DEF TypeOK
    <3> QED
      BY <3>1, <3>3, UnderwayIn, UnderwayInPrime
  <2>5. CASE WriteOk(u) \/ WriteLost(u)
    <3>1. /\ chan' = chan
          /\ out' = [out EXCEPT ![u] = "idle"]
      BY <2>5 DEF WriteOk, WriteLost
    <3>2. u # s => out'[s] = out[s]
      BY <3>1 DEF TypeOK
    <3>3. ASSUME u = s, out[s] = r
          PROVE  r \in got' \/ link'[s] \in {"shut", "dead"}
      BY <1>0, <2>5, <3>3 DEF WriteOk, WriteLost
    <3> QED
      BY <3>1, <3>2, <3>3, UnderwayIn, UnderwayInPrime
  <2> QED
    BY <2>1, <2>2, <2>4, <2>5
<1> QED
  BY <1>1, <1>2, <1>3, <1>4, Effects

(* Nothing that was accepted is lost but by a broken connection.           *)
LEMMA AcceptedStep ==
  ASSUME TypeOK, Unopened, Addressed, AcceptedIsDelivered, [Next]_vars
  PROVE  Addressed' /\ AcceptedIsDelivered'
<1> SUFFICES ASSUME NEW r \in Requests, pc'[r] = "ok"
             PROVE  /\ to'[r] \in Sessions
                    /\ r \in got' \/ Underway(r, to[r])' \/ link'[to'[r]] \in {"shut", "dead"}
  BY DEF Addressed, AcceptedIsDelivered
<1>1. CASE pc[r] # "ok"
  BY <1>1, OkStarts
<1>2. CASE pc[r] = "ok"
  <2> DEFINE s == to[r]
  <2>1. s \in Sessions /\ to'[r] = s
    BY <1>2, OkStays DEF Addressed
  <2>2. r \in got \/ Underway(r, s) \/ link[s] \in {"shut", "dead"}
    BY <1>2 DEF AcceptedIsDelivered
  <2>3. Underway(r, s) => r \in got' \/ link'[s] \in {"shut", "dead"}
                          \/ out'[s] = r \/ In(r, chan'[s])
    BY <2>1, UnderwayStays, UnderwayInPrime
  <2>4. out'[s] = r \/ In(r, chan'[s]) => Underway(r, to[r])'
    BY <2>1 DEF Underway, In
  <2> QED
    BY <2>1, <2>2, <2>3, <2>4, NothingUndone
<1> QED
  BY <1>1, <1>2
-----------------------------------------------------------------------------
(* At the start nothing is registered, sent or waiting.                    *)
LEMMA HubInit == Init => Inv
<1> SUFFICES ASSUME Init PROVE Inv
  OBVIOUS
<1> USE HubAssumption DEF Init
<1>1. /\ << >> \in Seq(Messages) /\ << >> \in Seq(Sessions \cup Requests)
      /\ Len(<< >>) = 0 /\ 0 <= Cap
  OBVIOUS
<1>2. \A r \in Requests : pc[r] = "idle"
  BY DEF Tasks
<1>3. \A r \in Requests, s \in Sessions : ~Underway(r, s)
  BY DEF Underway
<1>4. pc \in [Tasks -> Places]
  BY DEF Places, Tasks
<1>5. TypeOK
  BY <1>1, <1>4 DEF TypeOK
<1>6. WaitsForTheRegistered /\ Unopened
  BY DEF WaitsForTheRegistered, Unopened
<1>7. Unsent /\ Addressed /\ AcceptedIsDelivered
  BY <1>2, <1>3 DEF Unsent, Addressed, AcceptedIsDelivered
<1> QED
  BY <1>5, <1>6, <1>7 DEF Inv

(* Every step keeps the invariant.                                         *)
LEMMA HubStep == Inv /\ [Next]_vars => Inv'
  BY TypeStep, WaitersStep, UnsentStep, UnopenedStep, AcceptedStep DEF Inv

(* The inductive invariant of the hub holds in every reachable state.      *)
THEOREM HubInvariant == Spec => []Inv
  BY HubInit, HubStep, PTL DEF Spec

(* TypeOK: no channel ever holds more than its capacity, however many      *)
(* handlers send at the same time (mpsc::channel of handle_socket).        *)
THEOREM ChannelsBounded == Spec => []TypeOK
<1>1. Inv => TypeOK
  BY DEF Inv
<1> QED
  BY <1>1, HubInvariant, PTL

(* Whoever awaits room in a channel awaits it in that of the registered    *)
(* connection: the guard of DashMap::get keeps the entry where it is.      *)
THEOREM WaitsForRegistered == Spec => []WaitsForTheRegistered
<1>1. Inv => WaitsForTheRegistered
  BY DEF Inv
<1> QED
  BY <1>1, HubInvariant, PTL

(* A command whose request was answered with an error, or abandoned, by    *)
(* send_to_device is never executed.                                       *)
THEOREM RefusedStaysUnexecuted == Spec => []RefusedIsNotExecuted
<1>1. Inv => RefusedIsNotExecuted
  BY DEF Inv, Unsent, RefusedIsNotExecuted
<1> QED
  BY <1>1, HubInvariant, PTL

(* A command that send_to_device accepted is executed or under way, as     *)
(* long as the connection that took it did not break.                      *)
THEOREM AcceptedArrives == Spec => []AcceptedIsDelivered
<1>1. Inv => AcceptedIsDelivered
  BY DEF Inv
<1> QED
  BY <1>1, HubInvariant, PTL
=============================================================================
