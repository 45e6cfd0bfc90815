------------------------- MODULE DaemonRuntimeProofs -------------------------
(***************************************************************************)
(* Theorems about DaemonRuntime, for channels of any capacity and any      *)
(* bounds on the environment: the state keeps its types, so that neither   *)
(* channel exceeds its capacity, the last word of the connection manager   *)
(* is true, each command id is in one place of the daemon at a time, and a *)
(* working server is given up only in a race with its pong.                *)
(***************************************************************************)
EXTENDS DaemonRuntime, TLAPS, SequenceTheorems, FiniteSetTheorems

(* The event the manager is about to send belongs to the place where it    *)
(* sends it.                                                               *)
CarryOK ==
  /\ cm = "announce" => carry = "Connected"
  /\ cm = "bye" => carry = "Disconnected"
  /\ cm = "forward" => carry \in Asks

Inv == TypeOK /\ CarryOK /\ LastWord

-----------------------------------------------------------------------------
(* What the main loop will believe, as events enter and leave the channel. *)

(* Requests are no news.                                                   *)
LEMMA AsksAreNoNews == \A a \in Asks : ~IsNews(a)
  BY RuntimeAssumption DEF Asks, IsNews, RuntimeAssumption

(* News that enters the channel decides what the main loop will believe.   *)
LEMMA NewsEnters ==
  ASSUME NEW ev \in Seq(Events), NEW c \in BOOLEAN, NEW e \in {"Connected", "Disconnected"}
  PROVE  Told(Append(ev, e), c) <=> e = "Connected"
<1> DEFINE more == Append(ev, e)
<1>1. /\ DOMAIN more = 1..(Len(ev) + 1) /\ more[Len(ev) + 1] = e
      /\ Len(ev) \in Nat
  OBVIOUS
<1>2. IsNews(e)
  BY DEF IsNews
<1> HIDE DEF more
<1>3. Len(ev) + 1 \in DOMAIN more
  BY <1>1
<1>4. ~\A k \in DOMAIN more : ~IsNews(more[k])
  BY <1>1, <1>2, <1>3
<1>5. ASSUME e = "Connected" PROVE Told(more, c)
  BY <1>1, <1>3, <1>5 DEF Told
<1>6. ASSUME Told(more, c) PROVE e = "Connected"
  <2>1. PICK k \in DOMAIN more :
          more[k] = "Connected" /\ \A j \in DOMAIN more : j > k => ~IsNews(more[j])
    BY <1>4, <1>6 DEF Told
  <2>2. k = Len(ev) + 1
    BY <1>1, <1>2, <1>3, <2>1
  <2> QED BY <1>1, <2>1, <2>2
<1> QED BY <1>5, <1>6 DEF more

(* Anything else that enters the channel changes nothing.                  *)
LEMMA AskEnters ==
  ASSUME NEW ev \in Seq(Events), NEW c \in BOOLEAN, NEW e, ~IsNews(e)
  PROVE  Told(Append(ev, e), c) <=> Told(ev, c)
<1> DEFINE more == Append(ev, e)
<1>1. /\ DOMAIN more = 1..(Len(ev) + 1) /\ more[Len(ev) + 1] = e
      /\ DOMAIN ev = 1..Len(ev) /\ Len(ev) \in Nat
      /\ \A k \in DOMAIN ev : more[k] = ev[k]
  OBVIOUS
<1>2. e # "Connected"
  BY DEF IsNews
<1> HIDE DEF more
<1>3. (\A k \in DOMAIN more : ~IsNews(more[k])) <=> (\A k \in DOMAIN ev : ~IsNews(ev[k]))
  BY <1>1
<1>4. \A k \in DOMAIN ev :
        (\A j \in DOMAIN more : j > k => ~IsNews(more[j]))
          <=> (\A j \in DOMAIN ev : j > k => ~IsNews(ev[j]))
  BY <1>1
<1>5. \A k \in DOMAIN more : more[k] = "Connected" => k \in DOMAIN ev /\ ev[k] = "Connected"
  BY <1>1, <1>2
<1>6. \A k \in DOMAIN ev : k \in DOMAIN more /\ more[k] = ev[k]
  BY <1>1
<1>7. Told(more, c) <=> Told(ev, c)
  BY <1>3, <1>4, <1>5, <1>6, Zenon DEF Told
<1> QED BY <1>7 DEF more

(* What the main loop has read is in its flag.                             *)
LEMMA EventLeaves ==
  ASSUME NEW ev \in Seq(Events), ev # << >>, NEW c \in BOOLEAN, NEW d \in BOOLEAN,
         Head(ev) = "Connected" => d = TRUE,
         Head(ev) = "Disconnected" => d = FALSE,
         ~IsNews(Head(ev)) => d = c
  PROVE  Told(Tail(ev), d) <=> Told(ev, c)
<1> DEFINE rest == Tail(ev)
<1>1. /\ DOMAIN ev = 1..Len(ev) /\ Len(ev) \in Nat /\ Len(ev) > 0
      /\ DOMAIN rest = 1..(Len(ev) - 1)
      /\ \A k \in DOMAIN rest : rest[k] = ev[k + 1]
      /\ Head(ev) = ev[1]
  OBVIOUS
<1> HIDE DEF rest
<1>2. ASSUME NEW k \in DOMAIN rest
      PROVE  k + 1 \in DOMAIN ev /\ rest[k] = ev[k + 1]
  BY <1>1
<1>3. ASSUME NEW k \in DOMAIN ev, k # 1
      PROVE  k - 1 \in DOMAIN rest /\ rest[k - 1] = ev[k]
  BY <1>1, <1>3
<1>4. CASE \A k \in DOMAIN rest : ~IsNews(rest[k])
  <2>1. Told(rest, d) <=> d = TRUE
    BY <1>4 DEF Told, IsNews
  <2>2. \A k \in DOMAIN ev : k # 1 => ~IsNews(ev[k])
    BY <1>3, <1>4
  <2>3. 1 \in DOMAIN ev /\ DOMAIN ev \subseteq Nat \ {0}
    BY <1>1
  <2>4. CASE ~IsNews(ev[1])
    <3>1. \A k \in DOMAIN ev : ~IsNews(ev[k])
      BY <2>2, <2>4
    <3>2. Told(ev, c) <=> c = TRUE
      BY <3>1 DEF Told, IsNews
    <3> QED BY <1>1, <2>1, <2>4, <3>2 DEF rest
  <2>5. CASE ev[1] = "Connected"
    <3>1. Told(ev, c)
      BY <2>2, <2>3, <2>5 DEF Told
    <3> QED BY <1>1, <2>1, <2>5, <3>1 DEF rest
  <2>6. CASE ev[1] = "Disconnected"
    <3>1. ~Told(ev, c)
      BY <2>2, <2>3, <2>6 DEF Told, IsNews
    <3> QED BY <1>1, <2>1, <2>6, <3>1 DEF rest
  <2> QED BY <2>4, <2>5, <2>6 DEF IsNews
<1>5. CASE \E k \in DOMAIN rest : IsNews(rest[k])
  <2>1. PICK n \in DOMAIN rest : IsNews(rest[n])
    BY <1>5
  <2>2. n + 1 \in DOMAIN ev /\ IsNews(ev[n + 1]) /\ n + 1 > 1
    BY <1>1, <1>2, <2>1
  <2>3. ASSUME Told(rest, d) PROVE Told(ev, c)
    <3>1. PICK k \in DOMAIN rest :
            rest[k] = "Connected" /\ \A j \in DOMAIN rest : j > k => ~IsNews(rest[j])
      BY <1>5, <2>3 DEF Told
    <3>2. ASSUME NEW j \in DOMAIN ev, j > k + 1 PROVE ~IsNews(ev[j])
      <4>1. j # 1 /\ j - 1 > k
        BY <1>1, <3>2
      <4> QED BY <1>3, <3>1, <4>1
    <3> QED BY <1>2, <3>1, <3>2 DEF Told
  <2>4. ASSUME Told(ev, c) PROVE Told(rest, d)
    <3>1. PICK k \in DOMAIN ev :
            ev[k] = "Connected" /\ \A j \in DOMAIN ev : j > k => ~IsNews(ev[j])
      BY <2>2, <2>4 DEF Told
    <3>2. k # 1
      BY <2>2, <3>1
    <3>3. ASSUME NEW j \in DOMAIN rest, j > k - 1 PROVE ~IsNews(rest[j])
      <4>1. j + 1 > k
        BY <1>1, <3>3
      <4> QED BY <1>2, <3>1, <4>1
    <3> QED BY <1>3, <3>1, <3>2, <3>3 DEF Told
  <2> QED BY <2>3, <2>4 DEF rest
<1> QED BY <1>4, <1>5

-----------------------------------------------------------------------------
(* Next, one named alternative per action.                                 *)
LEMMA NextCases ==
  ASSUME Next
  PROVE  \/ DialSucceeds \/ DialFails \/ Accepted \/ Refused \/ Announce
         \/ ReadPong \/ ReadEnd \/ ReadAsk \/ Forward
         \/ SendCommand \/ Ping \/ GiveUp \/ WriteTimesOut \/ ExitOnSignal
         \/ Bye \/ Wake
         \/ RecvEvent \/ Poll \/ Collected \/ SendOut
         \/ (\E i \in Ids : ScriptEnds(i)) \/ (\E i \in Ids : SendResult(i))
         \/ (\E a \in Asks : Request(a))
         \/ Answer \/ LinkDies \/ LinkEnds \/ Tick \/ Sigterm \/ Exited
  BY DEF Next, Manager, Loop, Scripts, World

-----------------------------------------------------------------------------
(* Types.                                                                  *)

(* The initial state has its types.                                        *)
LEMMA TypeInit == Init => TypeOK
<1> SUFFICES ASSUME Init PROVE TypeOK
  OBVIOUS
<1>1. << >> \in Seq(Events) /\ << >> \in Seq(Commands) /\ << >> \in Seq(Frames)
  OBVIOUS
<1>2. 0 <= EventCap /\ 0 <= CommandCap /\ 0 \in 0..MaxDue /\ 0 \in 0..MaxDrops
  BY RuntimeAssumption DEF RuntimeAssumption
<1>3. Len(events) <= EventCap /\ Len(commands) <= CommandCap
  BY <1>2 DEF Init
<1>4. events \in Seq(Events) /\ commands \in Seq(Commands) /\ inbox \in Seq(Frames)
  BY <1>1 DEF Init
<1> QED BY <1>2, <1>3, <1>4 DEF Init, TypeOK, Events, Commands

(* A return of connect_and_handle keeps the types of what it resets.       *)
LEMMA LeaveTypes ==
  ASSUME TypeOK, Leave
  PROVE  /\ cm' = "bye" /\ carry' \in Events
         /\ link' = "none" /\ inbox' \in Seq(Frames)
         /\ pinged' \in BOOLEAN /\ awaiting' \in BOOLEAN /\ caught' \in BOOLEAN
         /\ sig' \in BOOLEAN /\ asked' \in BOOLEAN /\ fresh' \in BOOLEAN
         /\ due' \in 0..MaxDue /\ drops' \in 0..MaxDrops
<1>1. << >> \in Seq(Frames)
  OBVIOUS
<1>2. 0 \in 0..MaxDue
  BY RuntimeAssumption DEF RuntimeAssumption
<1> QED BY <1>1, <1>2 DEF TypeOK, Leave, Events

(* The count of broken connections stays within its bound.                 *)
LEMMA BreakTypes ==
  ASSUME TypeOK, Break \/ UNCHANGED drops
  PROVE  drops' \in 0..MaxDrops
  BY RuntimeAssumption DEF TypeOK, Break, RuntimeAssumption

(* The end of the process keeps the types of what it clears.               *)
LEMMA ExitTypes ==
  ASSUME TypeOK, Exit
  PROVE  /\ cm' = "exited" /\ ml' = "exited" /\ link' = "none" /\ pinged' = FALSE
         /\ events' \in Seq(Events) /\ Len(events') <= EventCap
         /\ commands' \in Seq(Commands) /\ Len(commands') <= CommandCap
         /\ inbox' \in Seq(Frames)
         /\ tasks' \in [Ids -> {"none", "running", "sending"}]
         /\ owed' \subseteq Ids
<1>1. 0 <= EventCap /\ 0 <= CommandCap
  BY RuntimeAssumption DEF RuntimeAssumption
<1>2. /\ << >> \in Seq(Events) /\ << >> \in Seq(Commands) /\ << >> \in Seq(Frames)
      /\ Len(<< >>) = 0
  OBVIOUS
<1> QED BY <1>1, <1>2 DEF TypeOK, Exit

(* Every step keeps the types.                                             *)
LEMMA TypeStep == TypeOK /\ [Next]_vars => TypeOK'
<1> SUFFICES ASSUME TypeOK, [Next]_vars PROVE TypeOK'
  OBVIOUS
<1> USE DEF manager, socket, pings, signals, loop, history
<1>0. /\ EventCap \in Nat \ {0} /\ CommandCap \in Nat \ {0} /\ MaxDue \in Nat \ {0}
      /\ MaxDrops \in Nat
  BY RuntimeAssumption DEF RuntimeAssumption
<1>E. /\ Len(events) \in Nat /\ Len(commands) \in Nat
      /\ \A e \in Events : Append(events, e) \in Seq(Events)
                          /\ Len(Append(events, e)) = Len(events) + 1
      /\ \A c \in Commands : Append(commands, c) \in Seq(Commands)
                            /\ Len(Append(commands, c)) = Len(commands) + 1
      /\ \A f \in Frames : Append(inbox, f) \in Seq(Frames)
  BY DEF TypeOK
<1>T. /\ events # << >> => /\ Head(events) \in Events /\ Tail(events) \in Seq(Events)
                           /\ Len(Tail(events)) <= Len(events)
      /\ commands # << >> => /\ Head(commands) \in Commands
                             /\ Tail(commands) \in Seq(Commands)
                             /\ Len(Tail(commands)) <= Len(commands)
      /\ inbox # << >> => Head(inbox) \in Frames /\ Tail(inbox) \in Seq(Frames)
  BY DEF TypeOK
<1>N. /\ << >> \in Seq(Events) /\ << >> \in Seq(Commands) /\ << >> \in Seq(Frames)
      /\ <<"End">> \in Seq(Frames)
      /\ Len(<< >>) = 0
  BY DEF Frames
<1>1. CASE DialSucceeds
  BY <1>1 DEF DialSucceeds, TypeOK
<1>2. CASE DialFails
  BY <1>2, LeaveTypes DEF DialFails, TypeOK
<1>3. CASE Accepted
  <2>1. drops' \in 0..MaxDrops
    BY <1>3, BreakTypes DEF Accepted
  <2>2. link' \in {"none", "up", "dead", "ended"} /\ inbox' \in Seq(Frames)
    BY <1>3, <1>N DEF Accepted, TypeOK
  <2> QED BY <1>3, <2>1, <2>2 DEF Accepted, TypeOK, Events
<1>4. CASE Refused
  BY <1>4, LeaveTypes DEF Refused, TypeOK
<1>5. CASE Announce
  <2> DEFINE aged == [i \in DOMAIN commands |-> Aged(commands[i])]
  <2>1. DOMAIN commands = 1..Len(commands) /\ \A i \in DOMAIN commands : commands[i] \in Commands
    BY DEF TypeOK
  <2>2. \A c \in Commands : Aged(c) \in Commands
    BY DEF Aged, Commands
  <2>3. aged \in Seq(Commands) /\ Len(aged) = Len(commands)
    BY <1>E, <2>1, <2>2
  <2>4. commands' \in Seq(Commands) /\ Len(commands') <= CommandCap /\ out' \in Commands
    BY <1>5, <2>2, <2>3 DEF Announce, TypeOK
  <2>5. events' \in Seq(Events) /\ Len(events') <= EventCap
    BY <1>5, <1>0, <1>E DEF Announce, TypeOK
  <2> HIDE DEF aged
  <2> QED BY <1>5, <2>4, <2>5 DEF Announce, TypeOK, InLoop
<1>6. CASE ReadPong
  BY <1>6, <1>T DEF ReadPong, TypeOK
<1>7. CASE ReadEnd
  BY <1>7, LeaveTypes DEF ReadEnd, TypeOK
<1>8. CASE ReadAsk
  BY <1>8, <1>T DEF ReadAsk, TypeOK, Events, InLoop
<1>9. CASE Forward
  BY <1>9, <1>E, <1>0 DEF Forward, TypeOK, InLoop
<1>10. CASE SendCommand
  <2>1. commands' \in Seq(Commands) /\ Len(commands') <= CommandCap /\ owed' \subseteq Ids
    BY <1>10, <1>0, <1>E, <1>T DEF SendCommand, TypeOK
  <2>2. CASE WriteOk
    BY <1>10, <2>1, <2>2 DEF SendCommand, WriteOk, WriteStalls, WriteErrs, Leave, TypeOK
  <2>3. CASE WriteStalls
    BY <1>10, <2>1, <2>3 DEF SendCommand, WriteStalls, TypeOK, InLoop
  <2>4. CASE WriteErrs
    BY <1>10, <2>1, <2>4, LeaveTypes DEF SendCommand, WriteErrs, TypeOK
  <2> QED BY <1>10, <2>2, <2>3, <2>4 DEF SendCommand
<1>11. CASE Ping
  <2>1. CASE WriteOk /\ due' = due - 1 /\ awaiting' = TRUE
              /\ pinged' = (link = "up") /\ UNCHANGED <<fresh, drops>>
    BY <1>11, <1>0, <2>1 DEF Ping, WriteOk, TypeOK
  <2>2. CASE WriteStalls
    BY <1>11, <2>2 DEF Ping, WriteStalls, TypeOK, InLoop
  <2>3. CASE WriteErrs
    BY <1>11, <2>3, LeaveTypes DEF Ping, WriteErrs, TypeOK
  <2> QED BY <1>11, <2>1, <2>2, <2>3 DEF Ping
<1>12. CASE GiveUp
  BY <1>12, LeaveTypes DEF GiveUp, TypeOK
<1>13. CASE WriteTimesOut
  BY <1>13, LeaveTypes DEF WriteTimesOut, TypeOK
<1>14. CASE ExitOnSignal
  <2>1. Exit /\ UNCHANGED asked
    BY <1>14 DEF ExitOnSignal
  <2> QED BY <2>1, ExitTypes DEF Exit, TypeOK
<1>15. CASE Bye
  BY <1>15, <1>E, <1>0 DEF Bye, TypeOK
<1>16. CASE Wake
  BY <1>16 DEF Wake, TypeOK
<1>17. CASE RecvEvent
  <2>1. events' \in Seq(Events) /\ Len(events') <= EventCap
    BY <1>17, <1>T, <1>E, <1>0 DEF RecvEvent, TypeOK
  <2>2. /\ ml' \in {"select", "collect", "send", "exited"} /\ out' \in Commands
        /\ connected' \in BOOLEAN
        /\ tasks' \in [Ids -> {"none", "running", "sending"}]
    BY <1>17 DEF RecvEvent, Greet, Collect, Start, TypeOK, Commands
  <2> QED BY <1>17, <2>1, <2>2 DEF RecvEvent, TypeOK
<1>18. CASE Poll
  BY <1>18 DEF Poll, Collect, TypeOK, Commands
<1>19. CASE Collected
  BY <1>19 DEF Collected, TypeOK
<1>20. CASE SendOut
  BY <1>20, <1>E, <1>0 DEF SendOut, TypeOK
<1>21. ASSUME NEW i \in Ids, ScriptEnds(i) PROVE TypeOK'
  BY <1>21 DEF ScriptEnds, TypeOK
<1>22. ASSUME NEW i \in Ids, SendResult(i) PROVE TypeOK'
  BY <1>22, <1>E, <1>0 DEF SendResult, TypeOK, Commands
<1>23. ASSUME NEW a \in Asks, Request(a) PROVE TypeOK'
  BY <1>23, <1>E DEF Request, TypeOK, Frames
<1>24. CASE Answer
  BY <1>24, <1>E DEF Answer, TypeOK, Frames
<1>25. CASE LinkDies
  <2>1. drops' \in 0..MaxDrops
    BY <1>25, BreakTypes DEF LinkDies
  <2> QED BY <1>25, <2>1 DEF LinkDies, TypeOK
<1>26. CASE LinkEnds
  <2>1. drops' \in 0..MaxDrops
    BY <1>26, BreakTypes DEF LinkEnds
  <2>2. inbox' \in Seq(Frames)
    BY <1>26, <1>E DEF LinkEnds, Frames
  <2> QED BY <1>26, <2>1, <2>2 DEF LinkEnds, TypeOK
<1>27. CASE Tick
  BY <1>27, <1>0 DEF Tick, TypeOK
<1>28. CASE Sigterm
  <2>1. CASE Exit
    BY <1>28, <2>1, ExitTypes DEF Sigterm, Exit, TypeOK
  <2>2. CASE caught
    BY <1>28, <2>2, ExitTypes DEF Sigterm, Exit, TypeOK
  <2> QED BY <1>28, <2>1, <2>2 DEF Sigterm
<1>29. CASE Exited
  BY <1>29 DEF Exited, vars, TypeOK
<1>30. CASE UNCHANGED vars
  BY <1>30 DEF vars, TypeOK
<1> QED BY <1>1, <1>2, <1>3, <1>4, <1>5, <1>6, <1>7, <1>8, <1>9, <1>10, <1>11, <1>12, <1>13, <1>14, <1>15, <1>16, <1>17, <1>18, <1>19, <1>20, <1>21, <1>22, <1>23, <1>24, <1>25, <1>26, <1>27, <1>28, <1>29, <1>30, NextCases

-----------------------------------------------------------------------------
(* The last word.                                                          *)

(* Before the first connection nothing has been announced.                 *)
LEMMA WordInit == Init => CarryOK /\ LastWord
<1> SUFFICES ASSUME Init PROVE CarryOK /\ LastWord
  OBVIOUS
<1>1. DOMAIN events = {} /\ connected = FALSE /\ cm = "dial"
  BY DEF Init
<1> QED BY <1>1 DEF CarryOK, LastWord, Told, InLoop

(* A step that leaves the channel and the flag alone, and stays on the     *)
(* same side of an announcement, keeps the last word.                      *)
LEMMA SameWord ==
  ASSUME LastWord, UNCHANGED <<events, connected>>,
         cm' \in InLoop => cm \in InLoop,
         cm' \in {"dial", "hello", "announce", "sleep"}
           => cm \in {"dial", "hello", "announce", "sleep"}
  PROVE  LastWord'
<1>1. Told(events, connected)' <=> Told(events, connected)
  BY DEF Told
<1> QED BY <1>1 DEF LastWord, InLoop

(* Every step keeps the last word true.                                    *)
LEMMA WordStep == Inv /\ [Next]_vars => CarryOK' /\ LastWord'
<1> SUFFICES ASSUME TypeOK, CarryOK, LastWord, [Next]_vars PROVE CarryOK' /\ LastWord'
  BY DEF Inv
<1> USE DEF manager, socket, pings, signals, loop, history
<1>0. events \in Seq(Events) /\ connected \in BOOLEAN
  BY DEF TypeOK
<1>L. ASSUME Leave, UNCHANGED <<events, connected>> PROVE CarryOK' /\ LastWord'
  BY <1>L DEF Leave, CarryOK, LastWord, InLoop
<1>X. ASSUME Exit PROVE CarryOK' /\ LastWord'
  BY <1>X DEF Exit, CarryOK, LastWord, InLoop
<1>1. CASE DialSucceeds
  BY <1>1, SameWord DEF DialSucceeds, CarryOK, InLoop
<1>2. CASE DialFails
  BY <1>2, <1>L DEF DialFails
<1>3. CASE Accepted
  BY <1>3, SameWord DEF Accepted, CarryOK, InLoop
<1>4. CASE Refused
  BY <1>4, <1>L DEF Refused
<1>5. CASE Announce
  <2>1. events' = Append(events, "Connected") /\ connected' = connected
    BY <1>5 DEF Announce, CarryOK
  <2>2. Told(events, connected)' <=> "Connected" = "Connected"
    BY <1>0, <2>1, NewsEnters
  <2> QED BY <1>5, <2>2 DEF Announce, CarryOK, LastWord, InLoop
<1>6. CASE ReadPong
  BY <1>6, SameWord DEF ReadPong, CarryOK, InLoop
<1>7. CASE ReadEnd
  BY <1>7, <1>L DEF ReadEnd
<1>8. CASE ReadAsk
  BY <1>8, SameWord DEF ReadAsk, CarryOK, InLoop
<1>9. CASE Forward
  <2>1. events' = Append(events, carry) /\ connected' = connected /\ ~IsNews(carry)
    BY <1>9, AsksAreNoNews DEF Forward, CarryOK
  <2>2. Told(events, connected)' <=> Told(events, connected)
    BY <1>0, <2>1, AskEnters
  <2> QED BY <1>9, <2>2 DEF Forward, CarryOK, LastWord, InLoop
<1>10. CASE SendCommand
  <2>1. CASE Leave
    BY <1>10, <1>L, <2>1 DEF SendCommand
  <2>2. CASE UNCHANGED carry /\ cm \in InLoop /\ cm' \in {"select", "write"}
    BY <1>10, <2>2, SameWord DEF SendCommand, CarryOK, InLoop
  <2> QED BY <1>10, <2>1, <2>2 DEF SendCommand, WriteOk, WriteStalls, WriteErrs, InLoop
<1>11. CASE Ping
  <2>1. CASE Leave
    BY <1>11, <1>L, <2>1 DEF Ping
  <2>2. CASE UNCHANGED carry /\ cm \in InLoop /\ cm' \in {"select", "write"}
    BY <1>11, <2>2, SameWord DEF Ping, CarryOK, InLoop
  <2> QED BY <1>11, <2>1, <2>2 DEF Ping, WriteOk, WriteStalls, WriteErrs, InLoop
<1>12. CASE GiveUp
  BY <1>12, <1>L DEF GiveUp
<1>13. CASE WriteTimesOut
  BY <1>13, <1>L DEF WriteTimesOut
<1>14. CASE ExitOnSignal
  BY <1>14, <1>X DEF ExitOnSignal
<1>15. CASE Bye
  <2>1. events' = Append(events, "Disconnected") /\ connected' = connected
    BY <1>15 DEF Bye, CarryOK
  <2>2. Told(events, connected)' <=> "Disconnected" = "Connected"
    BY <1>0, <2>1, NewsEnters
  <2> QED BY <1>15, <2>2 DEF Bye, CarryOK, LastWord, InLoop
<1>16. CASE Wake
  BY <1>16, SameWord DEF Wake, CarryOK, InLoop
<1>17. CASE RecvEvent
  <2>1. /\ events # << >> /\ events' = Tail(events) /\ UNCHANGED <<cm, carry>>
        /\ connected' \in BOOLEAN
        /\ Head(events) = "Connected" => connected' = TRUE
        /\ Head(events) = "Disconnected" => connected' = FALSE
        /\ ~IsNews(Head(events)) => connected' = connected
    <3>1. "RequestStatus" \in Asks /\ Ids \subseteq Asks
      BY DEF Asks
    <3>2. Head(events) \in Asks => ~IsNews(Head(events))
      BY AsksAreNoNews
    <3> QED BY <1>17, <1>0, <3>1, <3>2 DEF RecvEvent, IsNews
  <2>2. Told(events, connected)' <=> Told(events, connected)
    BY <1>0, <2>1, EventLeaves
  <2> QED BY <2>1, <2>2 DEF CarryOK, LastWord
<1>18. CASE Poll
  BY <1>18, SameWord DEF Poll, CarryOK, Collect
<1>19. CASE Collected
  BY <1>19, SameWord DEF Collected, CarryOK
<1>20. CASE SendOut
  BY <1>20, SameWord DEF SendOut, CarryOK
<1>21. ASSUME NEW i \in Ids, ScriptEnds(i) PROVE CarryOK' /\ LastWord'
  BY <1>21, SameWord DEF ScriptEnds, CarryOK
<1>22. ASSUME NEW i \in Ids, SendResult(i) PROVE CarryOK' /\ LastWord'
  BY <1>22, SameWord DEF SendResult, CarryOK
<1>23. ASSUME NEW a \in Asks, Request(a) PROVE CarryOK' /\ LastWord'
  BY <1>23, SameWord DEF Request, CarryOK
<1>24. CASE Answer
  BY <1>24, SameWord DEF Answer, CarryOK
<1>25. CASE LinkDies
  BY <1>25, SameWord DEF LinkDies, CarryOK
<1>26. CASE LinkEnds
  BY <1>26, SameWord DEF LinkEnds, CarryOK
<1>27. CASE Tick
  BY <1>27, SameWord DEF Tick, CarryOK
<1>28. CASE Sigterm
  <2>1. CASE Exit
    BY <1>X, <2>1
  <2>2. CASE UNCHANGED <<manager, events, loop>>
    BY <2>2, SameWord DEF CarryOK
  <2> QED BY <1>28, <2>1, <2>2 DEF Sigterm
<1>29. CASE Exited
  BY <1>29, SameWord DEF Exited, vars, CarryOK
<1>30. CASE UNCHANGED vars
  BY <1>30, SameWord DEF vars, CarryOK
<1> QED BY <1>1, <1>2, <1>3, <1>4, <1>5, <1>6, <1>7, <1>8, <1>9, <1>10, <1>11, <1>12, <1>13, <1>14, <1>15, <1>16, <1>17, <1>18, <1>19, <1>20, <1>21, <1>22, <1>23, <1>24, <1>25, <1>26, <1>27, <1>28, <1>29, <1>30, NextCases

-----------------------------------------------------------------------------
(* One answer.                                                             *)

(* The places an id can be in, one predicate for each; the socket is the   *)
(* first of them, though it is no place of the daemon.                     *)
Arriving(i) == InSeq(i, inbox)
Carried(i)  == cm = "forward" /\ carry = i
Queued(i)   == InSeq(i, events)
Runs(i)     == tasks[i] # "none"
Replied(i)  == ml = "send" /\ out = i
Returned(i) == InSeq(i, commands)

(* An id is in one place at most, ... *)
Apart(i) ==
  /\ Arriving(i) => ~Carried(i) /\ ~Queued(i) /\ ~Runs(i) /\ ~Replied(i) /\ ~Returned(i)
  /\ Carried(i) => ~Queued(i) /\ ~Runs(i) /\ ~Replied(i) /\ ~Returned(i)
  /\ Queued(i) => ~Runs(i) /\ ~Replied(i) /\ ~Returned(i)
  /\ Runs(i) => ~Replied(i) /\ ~Returned(i)
  /\ Replied(i) => ~Returned(i)

(* ... and once in a queue: what leaves a queue is no longer in it.        *)
Once(x, s) == \A j, k \in DOMAIN s : s[j] = x /\ s[k] = x => j = k

Alone(i) == Apart(i) /\ Once(i, inbox) /\ Once(i, events) /\ Once(i, commands)

(* A status is being collected, never the answer to a command.             *)
Collecting == ml = "collect" => out \notin Ids

Single == Collecting /\ \A i \in Ids : Alone(i)

(* What a queue holds once x has been put at its end.                      *)
LEMMA Entered ==
  ASSUME NEW S, NEW s \in Seq(S), NEW x \in S, NEW i
  PROVE  /\ InSeq(i, Append(s, x)) => InSeq(i, s) \/ i = x
         /\ (i = x => ~InSeq(i, s)) /\ Once(i, s) => Once(i, Append(s, x))
<1> DEFINE more == Append(s, x)
<1>1. /\ DOMAIN more = 1..(Len(s) + 1) /\ more[Len(s) + 1] = x
      /\ DOMAIN s = 1..Len(s) /\ Len(s) \in Nat
      /\ \A k \in DOMAIN s : more[k] = s[k]
  OBVIOUS
<1> HIDE DEF more
<1>2. \A k \in DOMAIN more : k \in DOMAIN s \/ k = Len(s) + 1
  BY <1>1
<1>3. InSeq(i, more) => InSeq(i, s) \/ i = x
  BY <1>1, <1>2 DEF InSeq
<1>4. ASSUME i = x => ~InSeq(i, s), Once(i, s) PROVE Once(i, more)
  BY <1>1, <1>2, <1>4 DEF InSeq, Once
<1> QED BY <1>3, <1>4 DEF more

(* What a queue holds once its head has been taken.                        *)
LEMMA Taken ==
  ASSUME NEW S, NEW s \in Seq(S), s # << >>, NEW i
  PROVE  /\ InSeq(i, Tail(s)) => InSeq(i, s)
         /\ i = Head(s) => InSeq(i, s)
         /\ Once(i, s) => Once(i, Tail(s))
         /\ Once(i, s) /\ i = Head(s) => ~InSeq(i, Tail(s))
<1> DEFINE rest == Tail(s)
<1>1. /\ DOMAIN s = 1..Len(s) /\ Len(s) \in Nat /\ Len(s) > 0
      /\ DOMAIN rest = 1..(Len(s) - 1)
      /\ \A k \in DOMAIN rest : rest[k] = s[k + 1]
      /\ Head(s) = s[1]
  OBVIOUS
<1> HIDE DEF rest
<1>2. \A k \in DOMAIN rest : k + 1 \in DOMAIN s /\ rest[k] = s[k + 1] /\ k + 1 # 1
  BY <1>1
<1>3. 1 \in DOMAIN s
  BY <1>1
<1>4. InSeq(i, rest) => InSeq(i, s)
  BY <1>2 DEF InSeq
<1>5. i = Head(s) => InSeq(i, s)
  BY <1>1, <1>3 DEF InSeq
<1>6. Once(i, s) => Once(i, rest)
  <2> SUFFICES ASSUME Once(i, s), NEW j \in DOMAIN rest, NEW k \in DOMAIN rest,
                      rest[j] = i, rest[k] = i
               PROVE  j = k
    BY DEF Once
  <2>1. j + 1 = k + 1
    BY <1>2 DEF Once
  <2> QED BY <1>1, <2>1
<1>7. ASSUME Once(i, s), i = Head(s) PROVE ~InSeq(i, rest)
  BY <1>1, <1>2, <1>3, <1>7 DEF InSeq, Once
<1> QED BY <1>4, <1>5, <1>6, <1>7 DEF rest

(* The empty queue holds nothing.                                          *)
LEMMA Emptied == \A i : ~InSeq(i, << >>) /\ Once(i, << >>)
  BY DEF InSeq, Once

(* A frame that is alone in the socket.                                    *)
LEMMA OnlyFrame == \A i : (InSeq(i, <<"End">>) => i = "End") /\ Once(i, <<"End">>)
<1>1. DOMAIN <<"End">> = {1} /\ <<"End">>[1] = "End"
  OBVIOUS
<1> QED BY <1>1 DEF InSeq, Once

(* No id is the name of anything else that travels.                        *)
LEMMA IdNames ==
  ASSUME NEW i \in Ids
  PROVE  /\ i \notin {"RequestStatus", "Connected", "Disconnected", "Pong", "End"}
         /\ i \notin {"status", "oldStatus"}
         /\ \A c : Aged(c) = i <=> c = i
  BY RuntimeAssumption DEF RuntimeAssumption, Aged

(* A status that ages in the command channel moves no id.                  *)
LEMMA AgedHolds ==
  ASSUME NEW i \in Ids, NEW s \in Seq(Commands)
  PROVE  LET old == [k \in DOMAIN s |-> Aged(s[k])] IN
         /\ InSeq(i, old) <=> InSeq(i, s)
         /\ Once(i, old) <=> Once(i, s)
<1> DEFINE old == [k \in DOMAIN s |-> Aged(s[k])]
<1>1. DOMAIN old = DOMAIN s /\ \A k \in DOMAIN s : old[k] = i <=> s[k] = i
  BY IdNames
<1> HIDE DEF old
<1>2. (InSeq(i, old) <=> InSeq(i, s)) /\ (Once(i, old) <=> Once(i, s))
  BY <1>1 DEF InSeq, Once
<1> QED BY <1>2 DEF old

(* A step that brings the id to no place, and puts it into no queue, keeps *)
(* it alone.                                                               *)
LEMMA Fewer ==
  ASSUME NEW i \in Ids, Alone(i),
         Arriving(i)' => Arriving(i), Carried(i)' => Carried(i),
         Queued(i)' => Queued(i), Runs(i)' => Runs(i),
         Replied(i)' => Replied(i), Returned(i)' => Returned(i),
         Once(i, inbox)', Once(i, events)', Once(i, commands)'
  PROVE  Alone(i)'
  BY DEF Alone, Apart

(* A step of the connection manager, or of the world, that brings no id to *)
(* the main loop.                                                          *)
LEMMA LoopRests ==
  ASSUME NEW i \in Ids, Alone(i), UNCHANGED <<events, commands, ml, out, tasks>>,
         Arriving(i)' => Arriving(i), Once(i, inbox)', Carried(i)' => Carried(i)
  PROVE  Alone(i)'
<1>1. /\ Queued(i)' <=> Queued(i)
      /\ Runs(i)' <=> Runs(i)
      /\ Replied(i)' <=> Replied(i)
      /\ Returned(i)' <=> Returned(i)
  BY DEF Queued, Runs, Replied, Returned, InSeq
<1>2. Once(i, events)' /\ Once(i, commands)'
  BY DEF Alone, Once
<1> QED BY <1>1, <1>2, Fewer

(* What does not touch the socket leaves in it what was there.             *)
LEMMA SocketRests ==
  ASSUME NEW i \in Ids, Alone(i), UNCHANGED inbox
  PROVE  (Arriving(i)' <=> Arriving(i)) /\ Once(i, inbox)'
  BY DEF Alone, Arriving, InSeq, Once

(* A return of connect_and_handle drops what had arrived; what the main    *)
(* loop and the scripts hold stays where it is.                            *)
LEMMA LeaveAlone ==
  ASSUME NEW i \in Ids, Alone(i), Leave, UNCHANGED <<events, commands, ml, out, tasks>>
  PROVE  Alone(i)'
<1>1. ~InSeq(i, inbox') /\ Once(i, inbox') /\ cm' = "bye"
  BY Emptied DEF Leave
<1>2. ~Arriving(i)' /\ Once(i, inbox)' /\ ~Carried(i)'
  BY <1>1 DEF Arriving, Carried, InSeq, Once
<1> QED BY <1>2, LoopRests

(* The process that ended holds nothing.                                   *)
LEMMA ExitAlone ==
  ASSUME NEW i \in Ids, Exit
  PROVE  Alone(i)'
<1>1. /\ inbox' = << >> /\ events' = << >> /\ commands' = << >>
      /\ cm' = "exited" /\ ml' = "exited" /\ tasks'[i] = "none"
  BY DEF Exit
<1>2. /\ ~InSeq(i, inbox') /\ ~InSeq(i, events') /\ ~InSeq(i, commands')
      /\ Once(i, inbox') /\ Once(i, events') /\ Once(i, commands')
  BY <1>1, Emptied
<1>3. /\ ~Arriving(i)' /\ ~Carried(i)' /\ ~Queued(i)' /\ ~Runs(i)'
      /\ ~Replied(i)' /\ ~Returned(i)'
  BY <1>1, <1>2 DEF Arriving, Carried, Queued, Runs, Replied, Returned, InSeq
<1>4. Once(i, inbox)' /\ Once(i, events)' /\ Once(i, commands)'
  BY <1>2 DEF Once
<1> QED BY <1>3, <1>4 DEF Alone, Apart

(* Every step keeps each id alone.                                         *)
LEMMA AloneStep ==
  ASSUME TypeOK, CarryOK, Collecting, [Next]_vars, NEW i \in Ids, Alone(i)
  PROVE  Alone(i)'
<1> USE DEF manager, socket, pings, signals, loop, history
<1>0. /\ events \in Seq(Events) /\ commands \in Seq(Commands) /\ inbox \in Seq(Frames)
      /\ tasks \in [Ids -> {"none", "running", "sending"}]
      /\ carry \in Events /\ out \in Commands
      /\ Ids \subseteq Asks /\ Ids \subseteq Commands /\ Asks \subseteq Frames
      /\ {"Pong", "End"} \subseteq Frames
  BY DEF TypeOK, Asks, Commands, Frames
<1>S. UNCHANGED inbox => (Arriving(i)' <=> Arriving(i)) /\ Once(i, inbox)'
  BY SocketRests
<1>E. UNCHANGED events => (Queued(i)' <=> Queued(i)) /\ Once(i, events)'
  BY DEF Alone, Queued, InSeq, Once
<1>C. UNCHANGED commands => (Returned(i)' <=> Returned(i)) /\ Once(i, commands)'
  BY DEF Alone, Returned, InSeq, Once
<1>H. inbox # << >> =>
        /\ InSeq(i, Tail(inbox)) => Arriving(i)
        /\ i = Head(inbox) => Arriving(i) /\ ~InSeq(i, Tail(inbox))
        /\ Once(i, Tail(inbox))
  BY <1>0, Taken DEF Alone, Arriving
<1>1. CASE DialSucceeds
  BY <1>1, <1>S, LoopRests DEF DialSucceeds, Carried
<1>2. CASE DialFails
  BY <1>2, LeaveAlone DEF DialFails
<1>3. CASE Accepted
  <2>1. Arriving(i)' => Arriving(i)
    BY <1>3, <1>S, OnlyFrame, IdNames DEF Accepted, Arriving
  <2>2. Once(i, inbox)'
    BY <1>3, <1>S, OnlyFrame DEF Accepted
  <2> QED BY <1>3, <2>1, <2>2, LoopRests DEF Accepted, Carried
<1>4. CASE Refused
  BY <1>4, LeaveAlone DEF Refused
<1>5. CASE Announce
  <2>1. PICK old : /\ old = [k \in DOMAIN commands |-> Aged(commands[k])]
                   /\ commands' = old /\ out' = Aged(out)
                   /\ InSeq(i, old) <=> InSeq(i, commands)
                   /\ Once(i, old) <=> Once(i, commands)
    BY <1>0, <1>5, AgedHolds DEF Announce
  <2>2. (Returned(i)' <=> Returned(i)) /\ Once(i, commands)'
    BY <2>1 DEF Returned, Alone
  <2>3. Replied(i)' <=> Replied(i)
    BY <1>5, <2>1, IdNames DEF Announce, Replied
  <2>4. carry = "Connected" /\ i # carry
    BY <1>5, IdNames DEF Announce, CarryOK
  <2>5. (InSeq(i, events') => Queued(i)) /\ Once(i, events')
    BY <1>0, <1>5, <2>4, Entered DEF Announce, Alone, Queued
  <2>6. (Queued(i)' => Queued(i)) /\ Once(i, events)'
    BY <2>5 DEF Queued
  <2>7. (Arriving(i)' <=> Arriving(i)) /\ Once(i, inbox)' /\ (Runs(i)' <=> Runs(i))
          /\ (Carried(i)' => Carried(i))
    BY <1>5, <1>S DEF Announce, Runs, Carried
  <2> QED BY <2>2, <2>3, <2>6, <2>7, Fewer
<1>6. CASE ReadPong
  <2>1. (Arriving(i)' => Arriving(i)) /\ Once(i, inbox)'
    BY <1>6, <1>H DEF ReadPong, Arriving
  <2> QED BY <1>6, <2>1, LoopRests DEF ReadPong, Carried
<1>7. CASE ReadEnd
  BY <1>7, LeaveAlone DEF ReadEnd
<1>8. CASE ReadAsk
  <2>1. (Arriving(i)' => Arriving(i)) /\ Once(i, inbox)'
    BY <1>8, <1>H DEF ReadAsk, Arriving
  <2>2. CASE i = Head(inbox)
    <3>1. Arriving(i) /\ ~Arriving(i)'
      BY <1>8, <1>H, <2>2 DEF ReadAsk, Arriving
    <3>2. (Queued(i)' <=> Queued(i)) /\ (Returned(i)' <=> Returned(i))
            /\ (Runs(i)' <=> Runs(i)) /\ (Replied(i)' <=> Replied(i))
            /\ Once(i, events)' /\ Once(i, commands)'
      BY <1>8, <1>E, <1>C DEF ReadAsk, Runs, Replied
    <3> QED BY <2>1, <3>1, <3>2 DEF Alone, Apart
  <2>3. CASE i # Head(inbox)
    BY <1>8, <2>1, <2>3, LoopRests DEF ReadAsk, Carried
  <2> QED BY <2>2, <2>3
<1>9. CASE Forward
  <2>1. /\ InSeq(i, events') => Queued(i) \/ i = carry
        /\ (i = carry => ~Queued(i)) => Once(i, events')
    BY <1>0, <1>9, Entered DEF Forward, Alone, Queued
  <2>2. ~Carried(i)' /\ (i = carry => Carried(i))
    BY <1>9 DEF Forward, Carried
  <2>3. (Queued(i)' => Queued(i) \/ Carried(i)) /\ Once(i, events)'
    BY <2>1, <2>2 DEF Queued, Alone, Apart
  <2>4. (Arriving(i)' <=> Arriving(i)) /\ (Returned(i)' <=> Returned(i))
          /\ (Runs(i)' <=> Runs(i)) /\ (Replied(i)' <=> Replied(i))
          /\ Once(i, inbox)' /\ Once(i, commands)'
    BY <1>9, <1>S, <1>C DEF Forward, Runs, Replied
  <2> QED BY <2>2, <2>3, <2>4 DEF Alone, Apart
<1>10. CASE SendCommand
  <2>1. /\ InSeq(i, commands') => Returned(i)
        /\ Once(i, commands')
    BY <1>0, <1>10, Taken DEF SendCommand, Alone, Returned
  <2>2. (Returned(i)' => Returned(i)) /\ Once(i, commands)'
    BY <2>1 DEF Returned
  <2>3. (Queued(i)' <=> Queued(i)) /\ Once(i, events)' /\ (Runs(i)' <=> Runs(i))
          /\ (Replied(i)' <=> Replied(i))
    BY <1>10, <1>E DEF SendCommand, Runs, Replied
  <2>4. (Arriving(i)' => Arriving(i)) /\ Once(i, inbox)' /\ (Carried(i)' => Carried(i))
    <3>1. CASE Leave
      <4>1. ~InSeq(i, inbox') /\ Once(i, inbox') /\ cm' = "bye"
        BY <3>1, Emptied DEF Leave
      <4> QED BY <4>1 DEF Arriving, Carried
    <3>2. CASE UNCHANGED inbox /\ (cm' = cm \/ cm' = "write") /\ UNCHANGED carry
      BY <3>2, <1>S DEF Carried
    <3> QED BY <1>10, <3>1, <3>2 DEF SendCommand, WriteOk, WriteStalls, WriteErrs
  <2> QED BY <2>2, <2>3, <2>4, Fewer
<1>11. CASE Ping
  <2>1. CASE Leave
    BY <1>11, <2>1, LeaveAlone DEF Ping
  <2>2. CASE UNCHANGED inbox /\ (cm' = cm \/ cm' = "write") /\ UNCHANGED carry
    BY <1>11, <1>S, <2>2, LoopRests DEF Ping, Carried
  <2> QED BY <1>11, <2>1, <2>2 DEF Ping, WriteOk, WriteStalls, WriteErrs
<1>12. CASE GiveUp
  BY <1>12, LeaveAlone DEF GiveUp
<1>13. CASE WriteTimesOut
  BY <1>13, LeaveAlone DEF WriteTimesOut
<1>14. CASE ExitOnSignal
  BY <1>14, ExitAlone DEF ExitOnSignal
<1>15. CASE Bye
  <2>1. carry = "Disconnected" /\ i # carry
    BY <1>15, IdNames DEF Bye, CarryOK
  <2>2. (InSeq(i, events') => Queued(i)) /\ Once(i, events')
    BY <1>0, <1>15, <2>1, Entered DEF Bye, Alone, Queued
  <2>3. (Queued(i)' => Queued(i)) /\ Once(i, events)'
    BY <2>2 DEF Queued
  <2>4. (Arriving(i)' <=> Arriving(i)) /\ Once(i, inbox)' /\ (Runs(i)' <=> Runs(i))
          /\ (Carried(i)' => Carried(i)) /\ (Returned(i)' <=> Returned(i))
          /\ Once(i, commands)' /\ (Replied(i)' <=> Replied(i))
    BY <1>15, <1>S, <1>C DEF Bye, Runs, Carried, Replied
  <2> QED BY <2>3, <2>4, Fewer
<1>16. CASE Wake
  BY <1>16, <1>S, LoopRests DEF Wake, Carried
<1>17. CASE RecvEvent
  <2>1. /\ InSeq(i, events') => Queued(i)
        /\ i = Head(events) => Queued(i) /\ ~InSeq(i, events')
        /\ Once(i, events')
    BY <1>0, <1>17, Taken DEF RecvEvent, Alone, Queued
  <2>2. /\ Queued(i)' => Queued(i)
        /\ i = Head(events) => Queued(i) /\ ~Queued(i)'
        /\ Once(i, events)'
    BY <2>1 DEF Queued
  <2>3. (Arriving(i)' <=> Arriving(i)) /\ Once(i, inbox)' /\ (Carried(i)' <=> Carried(i))
          /\ (Returned(i)' <=> Returned(i)) /\ Once(i, commands)'
    BY <1>17, <1>S, <1>C DEF RecvEvent, Carried
  <2>4. CASE i = Head(events)
    <3>1. Head(events) \in Ids /\ Start(Head(events))
      BY <1>17, <2>4, IdNames DEF RecvEvent
    <3>2. ml = "select"
      BY <1>17 DEF RecvEvent
    <3>3. \/ ~Replied(i)'
          \/ Runs(i)' <=> Runs(i)
      BY <3>1, <3>2 DEF Start, Runs, Replied
    <3> QED BY <2>2, <2>3, <2>4, <3>3 DEF Alone, Apart
  <2>5. CASE i # Head(events)
    <3>1. (Runs(i)' => Runs(i)) /\ (Replied(i)' => Replied(i))
      BY <1>0, <1>17, <2>5, IdNames DEF RecvEvent, Greet, Collect, Start, Runs, Replied
    <3> QED BY <2>2, <2>3, <3>1, Fewer
  <2> QED BY <2>4, <2>5
<1>18. CASE Poll
  <2>1. ~Replied(i)' /\ (Runs(i)' <=> Runs(i)) /\ (Carried(i)' <=> Carried(i))
    BY <1>18 DEF Poll, Collect, Replied, Runs, Carried
  <2> QED BY <1>18, <1>S, <1>E, <1>C, <2>1, Fewer DEF Poll
<1>19. CASE Collected
  <2>1. ~Replied(i)' /\ (Runs(i)' <=> Runs(i)) /\ (Carried(i)' <=> Carried(i))
    BY <1>19 DEF Collected, Collecting, Replied, Runs, Carried
  <2> QED BY <1>19, <1>S, <1>E, <1>C, <2>1, Fewer DEF Collected
<1>20. CASE SendOut
  <2>1. /\ InSeq(i, commands') => Returned(i) \/ i = out
        /\ (i = out => ~Returned(i)) => Once(i, commands')
    BY <1>0, <1>20, Entered DEF SendOut, Alone, Returned
  <2>2. ~Replied(i)' /\ (i = out => Replied(i))
    BY <1>20 DEF SendOut, Replied
  <2>3. (Returned(i)' => Returned(i) \/ Replied(i)) /\ Once(i, commands)'
    BY <2>1, <2>2 DEF Returned, Alone, Apart
  <2>4. (Arriving(i)' <=> Arriving(i)) /\ (Queued(i)' <=> Queued(i))
          /\ (Runs(i)' <=> Runs(i)) /\ (Carried(i)' <=> Carried(i))
          /\ Once(i, inbox)' /\ Once(i, events)'
    BY <1>20, <1>S, <1>E DEF SendOut, Runs, Carried
  <2> QED BY <2>2, <2>3, <2>4 DEF Alone, Apart
<1>21. ASSUME NEW j \in Ids, ScriptEnds(j) PROVE Alone(i)'
  <2>1. Runs(i)' => Runs(i)
    BY <1>0, <1>21 DEF ScriptEnds, Runs
  <2>2. (Carried(i)' <=> Carried(i)) /\ (Replied(i)' <=> Replied(i))
    BY <1>21 DEF ScriptEnds, Carried, Replied
  <2> QED BY <1>21, <1>S, <1>E, <1>C, <2>1, <2>2, Fewer DEF ScriptEnds
<1>22. ASSUME NEW j \in Ids, SendResult(j) PROVE Alone(i)'
  <2>1. /\ InSeq(i, commands') => Returned(i) \/ i = j
        /\ (i = j => ~Returned(i)) => Once(i, commands')
    BY <1>0, <1>22, Entered DEF SendResult, Alone, Returned
  <2>2. /\ Runs(i)' => Runs(i)
        /\ i = j => Runs(i) /\ ~Runs(i)'
    BY <1>0, <1>22 DEF SendResult, Runs
  <2>3. (Returned(i)' => Returned(i) \/ (i = j /\ Runs(i) /\ ~Runs(i)')) /\ Once(i, commands)'
    BY <2>1, <2>2 DEF Returned, Alone, Apart
  <2>4. (Arriving(i)' <=> Arriving(i)) /\ (Queued(i)' <=> Queued(i))
          /\ (Carried(i)' <=> Carried(i)) /\ (Replied(i)' <=> Replied(i))
          /\ Once(i, inbox)' /\ Once(i, events)'
    BY <1>22, <1>S, <1>E DEF SendResult, Carried, Replied
  <2> QED BY <2>2, <2>3, <2>4 DEF Alone, Apart
<1>23. ASSUME NEW a \in Asks, Request(a) PROVE Alone(i)'
  <2>1. /\ InSeq(i, inbox') => Arriving(i) \/ i = a
        /\ (i = a => ~Arriving(i)) => Once(i, inbox')
    BY <1>0, <1>23, Entered DEF Request, Alone, Arriving
  <2>2. i = a => /\ ~Arriving(i) /\ ~Carried(i) /\ ~Queued(i) /\ ~Runs(i)
                 /\ ~Replied(i) /\ ~Returned(i)
    BY <1>23 DEF Request, Places, Arriving, Carried, Queued, Runs, Replied, Returned
  <2>3. (Arriving(i)' => Arriving(i) \/ i = a) /\ Once(i, inbox)'
    BY <2>1, <2>2 DEF Arriving
  <2>4. (Returned(i)' <=> Returned(i)) /\ (Queued(i)' <=> Queued(i))
          /\ (Runs(i)' <=> Runs(i)) /\ (Carried(i)' <=> Carried(i))
          /\ (Replied(i)' <=> Replied(i)) /\ Once(i, commands)' /\ Once(i, events)'
    BY <1>23, <1>C, <1>E DEF Request, Runs, Carried, Replied
  <2> QED BY <2>2, <2>3, <2>4 DEF Alone, Apart
<1>24. CASE Answer
  <2>1. (InSeq(i, inbox') => Arriving(i)) /\ Once(i, inbox')
    BY <1>0, <1>24, Entered, IdNames DEF Answer, Alone, Arriving
  <2>2. (Arriving(i)' => Arriving(i)) /\ Once(i, inbox)'
    BY <2>1 DEF Arriving
  <2> QED BY <1>24, <2>2, LoopRests DEF Answer, Carried
<1>25. CASE LinkDies
  BY <1>25, <1>S, LoopRests DEF LinkDies, Carried
<1>26. CASE LinkEnds
  <2>1. (InSeq(i, inbox') => Arriving(i)) /\ Once(i, inbox')
    BY <1>0, <1>26, Entered, IdNames DEF LinkEnds, Alone, Arriving
  <2>2. (Arriving(i)' => Arriving(i)) /\ Once(i, inbox)'
    BY <2>1 DEF Arriving
  <2> QED BY <1>26, <2>2, LoopRests DEF LinkEnds, Carried
<1>27. CASE Tick
  BY <1>27, <1>S, LoopRests DEF Tick, Carried
<1>28. CASE Sigterm
  <2>1. CASE Exit
    BY <2>1, ExitAlone
  <2>2. CASE UNCHANGED <<manager, events, commands, loop, tasks, inbox>>
    BY <2>2, <1>S, LoopRests DEF Carried
  <2> QED BY <1>28, <2>1, <2>2 DEF Sigterm
<1>29. CASE Exited
  BY <1>29, <1>S, LoopRests DEF Exited, vars, Carried
<1>30. CASE UNCHANGED vars
  BY <1>30, <1>S, LoopRests DEF vars, Carried
<1> QED BY <1>1, <1>2, <1>3, <1>4, <1>5, <1>6, <1>7, <1>8, <1>9, <1>10, <1>11, <1>12, <1>13, <1>14, <1>15, <1>16, <1>17, <1>18, <1>19, <1>20, <1>21, <1>22, <1>23, <1>24, <1>25, <1>26, <1>27, <1>28, <1>29, <1>30, NextCases

(* The main loop collects nothing but a status.                            *)
LEMMA CollectingStep == TypeOK /\ Collecting /\ [Next]_vars => Collecting'
<1> SUFFICES ASSUME TypeOK, Collecting, [Next]_vars PROVE Collecting'
  OBVIOUS
<1> USE DEF manager, loop
<1>1. CASE UNCHANGED <<ml, out>>
  BY <1>1 DEF Collecting
<1>2. CASE ml' = "collect" /\ out' = "status"
  BY <1>2, IdNames DEF Collecting
<1>3. CASE ml' \in {"select", "send", "exited"}
  BY <1>3 DEF Collecting
<1>4. CASE Announce
  BY <1>4, IdNames DEF Announce, Collecting
<1>5. CASE DialSucceeds \/ DialFails \/ Accepted \/ Refused \/ ReadPong \/ ReadEnd
            \/ ReadAsk \/ Forward \/ SendCommand \/ Ping \/ GiveUp \/ WriteTimesOut
            \/ Bye \/ Wake
  BY <1>1, <1>5 DEF DialSucceeds, DialFails, Accepted, Refused, ReadPong, ReadEnd, ReadAsk,
     Forward, SendCommand, Ping, GiveUp, WriteTimesOut, Bye, Wake
<1>6. CASE RecvEvent
  BY <1>1, <1>2, <1>3, <1>6 DEF RecvEvent, Greet, Collect, Start
<1>7. CASE Poll \/ Collected \/ SendOut
  BY <1>2, <1>3, <1>7 DEF Poll, Collect, Collected, SendOut
<1>8. CASE ExitOnSignal \/ Sigterm
  BY <1>1, <1>3, <1>8 DEF ExitOnSignal, Sigterm, Exit
<1>9. CASE (\E i \in Ids : ScriptEnds(i) \/ SendResult(i)) \/ (\E a \in Asks : Request(a))
  BY <1>1, <1>9 DEF ScriptEnds, SendResult, Request
<1>10. CASE Answer \/ LinkDies \/ LinkEnds \/ Tick \/ Exited \/ UNCHANGED vars
  BY <1>1, <1>10 DEF Answer, LinkDies, LinkEnds, Tick, Exited, vars
<1> QED BY <1>4, <1>5, <1>6, <1>7, <1>8, <1>9, <1>10, NextCases

(* A daemon that has just started holds no command.                        *)
LEMMA SingleInit == Init => Single
<1> SUFFICES ASSUME Init PROVE Single
  OBVIOUS
<1>1. Collecting
  BY DEF Init, Collecting
<1>2. ASSUME NEW i \in Ids PROVE Alone(i)
  <2>1. ~InSeq(i, << >>) /\ Once(i, << >>)
    BY Emptied
  <2> QED
    BY <2>1 DEF Init, Alone, Apart, Arriving, Carried, Queued, Runs, Replied, Returned
<1> QED BY <1>1, <1>2 DEF Single

(* What is alone is in one place of the daemon at most.                    *)
LEMMA AloneIsOnePlace ==
  ASSUME NEW i \in Ids, Alone(i)
  PROVE  Cardinality(Places(i)) <= 1
<1>1. /\ "carry" \in Places(i) <=> Carried(i)
      /\ "events" \in Places(i) <=> Queued(i)
      /\ "task" \in Places(i) <=> Runs(i)
      /\ "out" \in Places(i) <=> Replied(i)
      /\ "commands" \in Places(i) <=> Returned(i)
      /\ Places(i) \subseteq {"carry", "events", "task", "out", "commands"}
  BY DEF Places, Carried, Queued, Runs, Replied, Returned
<1>2. \A p, q \in Places(i) : p = q
  BY <1>1 DEF Alone, Apart
<1>3. CASE Places(i) = {}
  BY <1>3, FS_EmptySet
<1>4. ASSUME NEW p \in Places(i) PROVE Cardinality(Places(i)) <= 1
  <2>1. Places(i) = {p}
    BY <1>2
  <2> QED BY <2>1, FS_Singleton
<1> QED BY <1>3, <1>4

-----------------------------------------------------------------------------
(* Pongs.                                                                  *)

(* A pong that is awaited from a server that is there is on its way, or    *)
(* has arrived and was not read; a new socket awaits none.                 *)
PongComes ==
  /\ cm \in {"dial", "bye", "sleep"} => ~awaiting
  /\ link = "up" /\ awaiting => pinged \/ InSeq("Pong", inbox)

(* What has been put into a queue is in it, and so is what was.            *)
LEMMA Stays ==
  ASSUME NEW S, NEW s \in Seq(S), NEW x \in S, NEW f
  PROVE  InSeq(f, s) \/ f = x => InSeq(f, Append(s, x))
<1> DEFINE more == Append(s, x)
<1>1. /\ DOMAIN more = 1..(Len(s) + 1) /\ more[Len(s) + 1] = x
      /\ DOMAIN s = 1..Len(s) /\ Len(s) \in Nat
      /\ \A k \in DOMAIN s : more[k] = s[k]
  OBVIOUS
<1> HIDE DEF more
<1>2. DOMAIN s \subseteq DOMAIN more /\ Len(s) + 1 \in DOMAIN more
  BY <1>1
<1>3. InSeq(f, s) \/ f = x => InSeq(f, more)
  BY <1>1, <1>2 DEF InSeq
<1> QED BY <1>3 DEF more

(* What is not at the head of a queue stays when the head is taken.        *)
LEMMA Rest ==
  ASSUME NEW S, NEW s \in Seq(S), s # << >>, NEW f, f # Head(s)
  PROVE  InSeq(f, s) => InSeq(f, Tail(s))
<1> DEFINE rest == Tail(s)
<1>1. /\ DOMAIN s = 1..Len(s) /\ Len(s) \in Nat /\ Len(s) > 0
      /\ DOMAIN rest = 1..(Len(s) - 1)
      /\ \A k \in DOMAIN rest : rest[k] = s[k + 1]
      /\ Head(s) = s[1]
  OBVIOUS
<1> HIDE DEF rest
<1>2. ASSUME NEW k \in DOMAIN s, k # 1
      PROVE  k - 1 \in DOMAIN rest /\ rest[k - 1] = s[k]
  BY <1>1, <1>2
<1>3. InSeq(f, s) => InSeq(f, rest)
  BY <1>1, <1>2 DEF InSeq
<1> QED BY <1>3 DEF rest

(* A step that leaves the pong where it is, and dials nothing.             *)
LEMMA PongRests ==
  ASSUME PongComes, UNCHANGED <<link, awaiting, pinged>>,
         InSeq("Pong", inbox) => InSeq("Pong", inbox)',
         cm' \in {"dial", "bye", "sleep"} => cm \in {"dial", "bye", "sleep"}
  PROVE  PongComes'
  BY DEF PongComes

(* A return of connect_and_handle awaits no pong, and has no socket.       *)
LEMMA LeavePong == Leave => PongComes'
  BY DEF Leave, PongComes

(* Nor does the end of the process.                                        *)
LEMMA ExitPong == Exit => PongComes'
  BY DEF Exit, PongComes

(* Every step of a daemon whose timers expire at any moment: what is       *)
(* awaited comes.                                                          *)
LEMMA PongStep ==
  ASSUME TypeOK, PongComes, [Next]_vars
  PROVE  PongComes'
<1> USE DEF manager, socket, pings, signals, loop, history
<1>0. /\ inbox \in Seq(Frames) /\ "Pong" \in Frames /\ ~InSeq("Pong", << >>)
  BY Emptied DEF TypeOK, Frames
<1>1. CASE DialSucceeds
  BY <1>1 DEF DialSucceeds, PongComes
<1>2. CASE DialFails
  BY <1>2, LeavePong DEF DialFails
<1>3. CASE Accepted
  BY <1>3 DEF Accepted, PongComes
<1>4. CASE Refused
  BY <1>4, LeavePong DEF Refused
<1>5. CASE Announce
  BY <1>5, PongRests DEF Announce, InSeq
<1>6. CASE ReadPong
  BY <1>6 DEF ReadPong, PongComes
<1>7. CASE ReadEnd
  BY <1>7, LeavePong DEF ReadEnd
<1>8. CASE ReadAsk
  <2>1. Head(inbox) # "Pong" /\ inbox' = Tail(inbox) /\ inbox # << >>
    BY <1>8, RuntimeAssumption DEF ReadAsk, Asks, RuntimeAssumption
  <2>2. InSeq("Pong", inbox) => InSeq("Pong", inbox')
    BY <1>0, <2>1, Rest
  <2>3. InSeq("Pong", inbox) => InSeq("Pong", inbox)'
    BY <2>2 DEF InSeq
  <2> QED BY <1>8, <2>3, PongRests DEF ReadAsk
<1>9. CASE Forward
  BY <1>9, PongRests DEF Forward, InSeq
<1>10. CASE SendCommand
  <2>1. CASE Leave
    BY <2>1, LeavePong
  <2>2. CASE UNCHANGED <<link, awaiting, pinged, inbox>> /\ (cm' = cm \/ cm' = "write")
    BY <2>2, PongRests DEF InSeq
  <2> QED BY <1>10, <2>1, <2>2 DEF SendCommand, WriteOk, WriteStalls, WriteErrs
<1>11. CASE Ping
  <2>1. CASE Leave
    BY <2>1, LeavePong
  <2>2. CASE UNCHANGED <<link, awaiting, pinged, inbox>> /\ cm' = "write"
    BY <2>2, PongRests DEF InSeq
  <2>3. CASE WriteOk /\ pinged' = (link = "up")
    <3>1. cm' = "select" /\ UNCHANGED link
      BY <1>11, <2>3 DEF Ping, WriteOk
    <3>2. link' = "up" => pinged' = TRUE
      BY <2>3, <3>1, Zenon
    <3> QED BY <3>1, <3>2 DEF PongComes
  <2> QED BY <1>11, <2>1, <2>2, <2>3 DEF Ping, WriteStalls, WriteErrs
<1>12. CASE GiveUp
  BY <1>12, LeavePong DEF GiveUp
<1>13. CASE WriteTimesOut
  BY <1>13, LeavePong DEF WriteTimesOut
<1>14. CASE ExitOnSignal
  BY <1>14, ExitPong DEF ExitOnSignal
<1>15. CASE Bye \/ Wake
  BY <1>15, PongRests DEF Bye, Wake, InSeq
<1>16. CASE RecvEvent \/ Poll \/ Collected \/ SendOut
  BY <1>16, PongRests DEF RecvEvent, Poll, Collected, SendOut, InSeq
<1>17. CASE \E i \in Ids : ScriptEnds(i) \/ SendResult(i)
  BY <1>17, PongRests DEF ScriptEnds, SendResult, InSeq
<1>18. ASSUME NEW a \in Asks, Request(a) PROVE PongComes'
  <2>1. inbox' = Append(inbox, a) /\ a \in Frames
    BY <1>18 DEF Request, Frames
  <2>2. InSeq("Pong", inbox) => InSeq("Pong", inbox)'
    BY <1>0, <2>1, Stays DEF InSeq
  <2> QED BY <1>18, <2>2, PongRests DEF Request
<1>19. CASE Answer
  <2>1. InSeq("Pong", inbox')
    BY <1>0, <1>19, Stays DEF Answer
  <2>2. InSeq("Pong", inbox)'
    BY <2>1 DEF InSeq
  <2> QED BY <1>19, <2>2 DEF Answer, PongComes
<1>20. CASE LinkDies \/ LinkEnds
  BY <1>20 DEF LinkDies, LinkEnds, PongComes
<1>21. CASE Tick
  BY <1>21, PongRests DEF Tick, InSeq
<1>22. CASE Sigterm
  <2>1. CASE Exit
    BY <2>1, ExitPong
  <2>2. CASE UNCHANGED <<manager, events, commands, loop, tasks, socket, pings>>
    BY <2>2, PongRests DEF InSeq
  <2> QED BY <1>22, <2>1, <2>2 DEF Sigterm
<1>23. CASE Exited \/ UNCHANGED vars
  BY <1>23, PongRests DEF Exited, vars, InSeq
<1> QED BY <1>1, <1>2, <1>3, <1>4, <1>5, <1>6, <1>7, <1>8, <1>9, <1>10, <1>11, <1>12, <1>13, <1>14, <1>15, <1>16, <1>17, <1>18, <1>19, <1>20, <1>21, <1>22, <1>23, NextCases

-----------------------------------------------------------------------------
(* Theorems.                                                               *)

(* The inductive invariant of types, announcements and the last word.      *)
LEMMA InvHolds == Spec => []Inv
<1>1. Init => Inv
  BY TypeInit, WordInit DEF Inv
<1>2. Inv /\ [Next]_vars => Inv'
  BY TypeStep, WordStep DEF Inv
<1> QED BY <1>1, <1>2, PTL DEF Spec

(* The daemon's state keeps its types: neither channel ever holds more     *)
(* than its capacity.                                                      *)
THEOREM ChannelsBounded == Spec => []TypeOK
<1>1. Inv => TypeOK
  BY DEF Inv
<1> QED BY <1>1, InvHolds, PTL

(* The main loop, once it has read the events sent to it, believes it is   *)
(* connected exactly while connect_and_handle is in its select loop.       *)
THEOREM LastWordIsTrue == Spec => []LastWord
<1>1. Inv => LastWord
  BY DEF Inv
<1> QED BY <1>1, InvHolds, PTL

(* No command id is in two places of the daemon, whatever connections come *)
(* and go: no request is executed or answered twice.                       *)
THEOREM EachAnsweredOnce == Spec => []OneAnswer
<1>1. Init => Single
  BY SingleInit
<1>2. Inv /\ Single /\ [Next]_vars => Single'
  <2> SUFFICES ASSUME Inv, Single, [Next]_vars PROVE Single'
    OBVIOUS
  <2>1. \A i \in Ids : Alone(i)'
    BY AloneStep DEF Inv, Single
  <2>2. Collecting'
    BY CollectingStep DEF Inv, Single
  <2> QED BY <2>1, <2>2 DEF Single
<1>3. Single => OneAnswer
  BY AloneIsOnePlace DEF Single, OneAnswer
<1> QED BY <1>1, <1>2, <1>3, InvHolds, PTL DEF Spec

(* A server that is there is given up as stale only in a race: its pong is *)
(* on its way, or has arrived and was not read, when the next tick comes   *)
(* up (ticks that a long await made overdue, select! that picks the tick). *)
(* No pong is forgotten, and no flag of an earlier connection or ping is   *)
(* taken for a missing answer.  Timers may expire at any moment.           *)
THEOREM FalseAlarmIsARace ==
  Spec => [][GiveUp /\ link = "up" => pinged \/ InSeq("Pong", inbox)]_vars
<1>1. Init => PongComes
  BY DEF Init, PongComes
<1>2. TypeOK /\ PongComes /\ [Next]_vars => PongComes'
  BY PongStep
<1>3. PongComes => (GiveUp /\ link = "up" => pinged \/ InSeq("Pong", inbox))
  BY DEF GiveUp, PongComes
<1> QED BY <1>1, <1>2, <1>3, ChannelsBounded, PTL DEF Spec
=============================================================================
