---------------------------- MODULE DaemonRuntime ----------------------------
(***************************************************************************)
(* The two tasks of collar-daemon and the scripts it runs.  The connection *)
(* manager (cm) dials the server, authenticates, and then selects among    *)
(* frames from the server, commands to send, ping ticks and SIGTERM; the   *)
(* main loop (ml) selects among the events of the manager and its poll     *)
(* timer.  They talk through two bounded channels, events and commands,    *)
(* and each blocks in send().await while the channel it writes is full.    *)
(*                                                                         *)
(* One await of the code separates two steps.  The channels of a socket    *)
(* are FIFO; a socket is dropped with everything in it when                *)
(* connect_and_handle returns.                                             *)
(*                                                                         *)
(* ByeQuiet, ByeForGood, ForwardUnbounded, StartBoth, ReadPongKept,        *)
(* GreetQuiet, PingUnawaited and UnknownUnanswered are mutants: the same   *)
(* code with a plausible bug, which one of the properties rules out.  No   *)
(* specification uses them.                                                *)
(***************************************************************************)
EXTENDS Naturals, Sequences, FiniteSets

CONSTANTS
  Ids,         \* ids of commands the server asks this daemon to execute
  EventCap,    \* capacity of the event channel (32)
  CommandCap,  \* capacity of the command channel (32)
  Load,        \* bound: requests and answers the server keeps in progress
  MaxDue,      \* bound: ping ticks that may be overdue at once
  MaxDrops,    \* bound: connections the network or the server breaks
  Prompt,      \* timers expire only when no task has anything to do
  Signals      \* SIGTERM may arrive, once

Asks == Ids \cup {"RequestStatus"}

Events == Asks \cup {"Connected", "Disconnected"}

(* The result of a script; a status collected since this connection was    *)
(* announced; one collected before it.                                     *)
Commands == Ids \cup {"status", "oldStatus"}

Frames == Asks \cup {"Pong", "End"}

ASSUME RuntimeAssumption ==
  /\ {EventCap, CommandCap, MaxDue} \subseteq Nat \ {0}
  /\ {Load, MaxDrops} \subseteq Nat
  /\ {Prompt, Signals} \subseteq BOOLEAN
  /\ Ids \cap {"RequestStatus", "Connected", "Disconnected", "status",
               "oldStatus", "Pong", "End"} = {}

VARIABLES
  cm,         \* where the connection manager is
  carry,      \* the event it is sending
  events,     \* channel from the connection manager to the main loop
  commands,   \* channel from the main loop and the scripts to the manager
  ml,         \* where the main loop is
  out,        \* the command it is collecting or sending
  connected,  \* its idea of the connection
  tasks,      \* the spawned task of each command id
  link,       \* the socket: none, up, dead (silent) or ended (closed or reset)
  inbox,      \* frames that have reached this end of the socket
  pinged,     \* a ping is on its way to the server, or its pong back
  awaiting,   \* awaiting_pong
  due,        \* ping ticks that have come and were not handled
  caught,     \* the process has installed its SIGTERM handler
  sig,        \* the signal stream of this connection holds a SIGTERM
  asked,      \* history: SIGTERM was sent
  fresh,      \* history: a status of this connection was written to it
  drops,      \* history: connections broken so far
  owed        \* history: command ids read, and not handed to a socket since

manager == <<cm, carry>>
socket  == <<link, inbox, pinged>>
pings   == <<awaiting, due>>
signals == <<caught, sig, asked>>
loop    == <<ml, out, connected>>
history == <<fresh, drops, owed>>

vars == <<manager, events, commands, loop, tasks, socket, pings, signals, history>>

(* In the select loop of connect_and_handle, or in the body of a branch.   *)
InLoop == {"select", "forward", "write"}

Init ==
  /\ cm = "dial" /\ carry = "Disconnected"
  /\ events = << >> /\ commands = << >>
  /\ ml = "select" /\ out = "oldStatus" /\ connected = FALSE
  /\ tasks = [i \in Ids |-> "none"]
  /\ link = "none" /\ inbox = << >> /\ pinged = FALSE
  /\ awaiting = FALSE /\ due = 0
  /\ caught = FALSE /\ sig = FALSE /\ asked = FALSE
  /\ fresh = FALSE /\ drops = 0 /\ owed = {}

(* Nothing is left to do before the next timer expires: the server has     *)
(* answered, and each task waits, for something to come or for room in the *)
(* channel it writes.                                                      *)
Idle ==
  /\ \/ ml = "select" /\ events = << >>
     \/ ml = "send" /\ Len(commands) = CommandCap
  /\ \/ cm = "sleep"
     \/ cm \in {"announce", "forward", "bye"} /\ Len(events) = EventCap
     \/ cm = "select" /\ commands = << >> /\ inbox = << >> /\ due = 0 /\ ~sig
  /\ ~pinged
  /\ Len(commands) < CommandCap => \A i \in Ids : tasks[i] # "sending"

TimerMayExpire == Prompt => Idle

-----------------------------------------------------------------------------
(* The connection manager.                                                 *)

(* connect_and_handle returns, with an error or without: the socket and    *)
(* the signal stream are dropped.                                          *)
Leave ==
  /\ cm' = "bye" /\ carry' = "Disconnected"
  /\ link' = "none" /\ inbox' = << >> /\ pinged' = FALSE
  /\ awaiting' = FALSE /\ due' = 0
  /\ sig' = FALSE /\ UNCHANGED <<caught, asked, fresh, drops>>

DialSucceeds ==
  /\ cm = "dial"
  /\ cm' = "hello" /\ link' = "up"
  /\ UNCHANGED <<carry, events, commands, loop, tasks, inbox, pinged, pings, signals,
                 history>>

DialFails ==
  /\ cm = "dial"
  /\ Leave
  /\ UNCHANGED <<events, commands, loop, tasks, owed>>

Break == drops < MaxDrops /\ drops' = drops + 1

(* An AuthResult with success, or any frame that is not text: a Close in   *)
(* place of the answer passes as well, and ends the socket next.           *)
Accepted ==
  /\ cm = "hello" /\ link = "up"
  /\ cm' = "announce" /\ carry' = "Connected"
  /\ \/ UNCHANGED <<link, inbox>>
     \/ link' = "ended" /\ inbox' = <<"End">>
  /\ IF link' = "ended" THEN Break ELSE UNCHANGED drops
  /\ UNCHANGED <<events, commands, loop, tasks, pinged, pings, signals, fresh,
                 owed>>

(* A refusal, a closed or broken socket, no answer within 10 s.            *)
Refused ==
  /\ cm = "hello"
  /\ Leave
  /\ UNCHANGED <<events, commands, loop, tasks, owed>>

Aged(c) == IF c = "status" THEN "oldStatus" ELSE c

(* event_tx.send(Connected).await; then a new ping timer and signal stream.*)
Announce ==
  /\ cm = "announce" /\ Len(events) < EventCap
  /\ events' = Append(events, carry)
  /\ cm' = "select" /\ UNCHANGED carry
  /\ caught' = TRUE
  /\ fresh' = FALSE
  /\ commands' = [i \in DOMAIN commands |-> Aged(commands[i])]
  /\ out' = Aged(out)
  /\ UNCHANGED <<drops, owed, ml, connected, tasks, socket, pings, sig, asked>>

ReadPongKept ==
  /\ cm = "select" /\ inbox # << >> /\ Head(inbox) = "Pong"
  /\ inbox' = Tail(inbox)
  /\ UNCHANGED <<manager, events, commands, loop, tasks, link, pinged, pings,
                 signals, history>>

ReadPong ==
  /\ cm = "select" /\ inbox # << >> /\ Head(inbox) = "Pong"
  /\ inbox' = Tail(inbox) /\ awaiting' = FALSE
  /\ UNCHANGED <<manager, events, commands, loop, tasks, link, pinged, due,
                 signals, history>>

(* Close, an error, or the end of the stream.                              *)
ReadEnd ==
  /\ cm = "select" /\ inbox # << >> /\ Head(inbox) = "End"
  /\ Leave
  /\ UNCHANGED <<events, commands, loop, tasks, owed>>

(* Execute or RequestStatus: handle_server_message awaits event_tx.send,   *)
(* and nothing else of the select loop runs meanwhile.                     *)
ReadAsk ==
  /\ cm = "select" /\ inbox # << >> /\ Head(inbox) \in Asks
  /\ inbox' = Tail(inbox)
  /\ cm' = "forward" /\ carry' = Head(inbox)
  /\ owed' = owed \cup ({Head(inbox)} \cap Ids)
  /\ UNCHANGED <<events, commands, loop, tasks, link, pinged, pings, signals, fresh,
                 drops>>

ForwardUnbounded ==
  /\ cm = "forward"
  /\ events' = Append(events, carry)
  /\ cm' = "select" /\ UNCHANGED carry
  /\ UNCHANGED <<commands, loop, tasks, socket, pings, signals, history>>

Forward ==
  /\ cm = "forward" /\ Len(events) < EventCap
  /\ events' = Append(events, carry)
  /\ cm' = "select" /\ UNCHANGED carry
  /\ UNCHANGED <<commands, loop, tasks, socket, pings, signals, history>>

(* write.send: into the socket's buffer; or it blocks, when nothing        *)
(* acknowledges the buffer; or it fails, when the socket has ended.        *)
WriteOk ==
  UNCHANGED <<manager, link, inbox, caught, sig, asked>>

WriteStalls ==
  /\ link = "dead"
  /\ cm' = "write"
  /\ UNCHANGED <<carry, socket, pings, signals, fresh, drops>>

WriteErrs ==
  /\ link = "ended"
  /\ Leave

SendCommand ==
  /\ cm = "select" /\ commands # << >>
  /\ commands' = Tail(commands)
  /\ owed' = owed \ {Head(commands)}
  /\ \/ WriteOk /\ fresh' = (fresh \/ Head(commands) = "status")
        /\ UNCHANGED <<pinged, pings, drops>>
     \/ WriteStalls
     \/ WriteErrs
  /\ UNCHANGED <<events, loop, tasks>>

PingUnawaited ==
  /\ cm = "select" /\ due > 0 /\ ~awaiting
  /\ WriteOk
  /\ due' = due - 1
  /\ pinged' = (link = "up")
  /\ UNCHANGED <<awaiting, events, commands, loop, tasks, history>>

Ping ==
  /\ cm = "select" /\ due > 0 /\ ~awaiting
  /\ \/ WriteOk /\ due' = due - 1 /\ awaiting' = TRUE
        /\ pinged' = (link = "up") /\ UNCHANGED <<fresh, drops>>
     \/ WriteStalls
     \/ WriteErrs
  /\ UNCHANGED <<events, commands, loop, tasks, owed>>

GiveUp ==
  /\ cm = "select" /\ due > 0 /\ awaiting
  /\ Leave
  /\ UNCHANGED <<events, commands, loop, tasks, owed>>

(* The kernel gives up on a write that nothing acknowledges.               *)
WriteTimesOut ==
  /\ cm = "write"
  /\ Leave
  /\ UNCHANGED <<events, commands, loop, tasks, owed>>

(* std::process::exit(0), or the default action of SIGTERM: everything the *)
(* process holds is gone.                                                  *)
Exit ==
  /\ cm' = "exited" /\ ml' = "exited"
  /\ events' = << >> /\ commands' = << >>
  /\ owed' = {}
  /\ tasks' = [i \in Ids |-> "none"]
  /\ link' = "none" /\ inbox' = << >> /\ pinged' = FALSE
  /\ UNCHANGED <<carry, out, connected, pings, caught, sig, fresh, drops>>

ExitOnSignal ==
  /\ cm = "select" /\ sig
  /\ Exit /\ UNCHANGED asked

ByeQuiet ==
  /\ cm = "bye" /\ cm' = "sleep"
  /\ UNCHANGED <<carry, events, commands, loop, tasks, socket, pings, signals, history>>

ByeForGood ==
  /\ cm = "bye" /\ cm' = "exited"
  /\ UNCHANGED <<carry, events, commands, loop, tasks, socket, pings, signals, history>>

(* event_tx.send(Disconnected).await                                       *)
Bye ==
  /\ cm = "bye" /\ Len(events) < EventCap
  /\ events' = Append(events, carry)
  /\ cm' = "sleep" /\ UNCHANGED carry
  /\ UNCHANGED <<commands, loop, tasks, socket, pings, signals, history>>

(* tokio::time::sleep(RECONNECT_DELAY).await                               *)
Wake ==
  /\ cm = "sleep" /\ TimerMayExpire
  /\ cm' = "dial"
  /\ UNCHANGED <<carry, events, commands, loop, tasks, socket, pings, signals, history>>

-----------------------------------------------------------------------------
(* The main loop and the scripts.                                          *)

Collect == ml' = "collect" /\ out' = "status"

StartBoth(i) ==
  \/ ml' = "send" /\ out' = i /\ tasks' = [tasks EXCEPT ![i] = "running"]
  \/ tasks' = [tasks EXCEPT ![i] = "running"] /\ UNCHANGED <<ml, out>>

UnknownUnanswered(i) ==
  \/ tasks' = [tasks EXCEPT ![i] = "running"] /\ UNCHANGED <<ml, out>>
  \/ UNCHANGED <<ml, out, tasks>>

(* A known script runs in a task of its own; the loop itself answers for   *)
(* an unknown one.                                                         *)
Start(i) ==
  \/ tasks' = [tasks EXCEPT ![i] = "running"] /\ UNCHANGED <<ml, out>>
  \/ ml' = "send" /\ out' = i /\ UNCHANGED tasks

GreetQuiet == UNCHANGED <<ml, out>>

(* "Immediately send status on connect so the server has current state"    *)
Greet == Collect

RecvEvent ==
  /\ ml = "select" /\ events # << >>
  /\ events' = Tail(events)
  /\ \/ Head(events) = "Connected" /\ connected' = TRUE
        /\ Greet /\ UNCHANGED tasks
     \/ Head(events) = "Disconnected" /\ connected' = FALSE
        /\ UNCHANGED <<ml, out, tasks>>
     \/ Head(events) = "RequestStatus" /\ Collect /\ UNCHANGED <<connected, tasks>>
     \/ Head(events) \in Ids /\ Start(Head(events)) /\ UNCHANGED connected
  /\ UNCHANGED <<manager, commands, socket, pings, signals, history>>

Poll ==
  /\ ml = "select" /\ connected /\ TimerMayExpire
  /\ Collect
  /\ UNCHANGED <<manager, events, commands, connected, tasks, socket, pings, signals,
                 history>>

(* collect_status: each status script ends or is abandoned after 5 s.      *)
Collected ==
  /\ ml = "collect" /\ ml' = "send"
  /\ UNCHANGED <<manager, events, commands, out, connected, tasks, socket, pings,
                 signals, history>>

SendOut ==
  /\ ml = "send" /\ Len(commands) < CommandCap
  /\ commands' = Append(commands, out)
  /\ ml' = "select"
  /\ UNCHANGED <<manager, events, out, connected, tasks, socket, pings, signals, history>>

ScriptEnds(i) ==
  /\ tasks[i] = "running"
  /\ tasks' = [tasks EXCEPT ![i] = "sending"]
  /\ UNCHANGED <<manager, events, commands, loop, socket, pings, signals, history>>

SendResult(i) ==
  /\ tasks[i] = "sending" /\ Len(commands) < CommandCap
  /\ commands' = Append(commands, i)
  /\ tasks' = [tasks EXCEPT ![i] = "none"]
  /\ UNCHANGED <<manager, events, loop, socket, pings, signals, history>>

-----------------------------------------------------------------------------
(* The server, the network, the timers and the service manager.            *)

InSeq(x, s) == \E k \in DOMAIN s : s[k] = x

IsAsk(x) == x \in Asks

(* The places of the daemon that hold a command id: one is enough.         *)
Places(i) ==
  {p \in {"carry", "events", "task", "out", "commands"} :
     \/ p = "carry" /\ cm = "forward" /\ carry = i
     \/ p = "events" /\ InSeq(i, events)
     \/ p = "task" /\ tasks[i] # "none"
     \/ p = "out" /\ ml = "send" /\ out = i
     \/ p = "commands" /\ InSeq(i, commands)}

InProgress ==
  Len(SelectSeq(inbox, IsAsk)) + Len(SelectSeq(events, IsAsk)) + Len(commands)
  + (IF cm = "forward" THEN 1 ELSE 0) + (IF ml = "select" THEN 0 ELSE 1)
  + Cardinality({i \in Ids : tasks[i] # "none"})

Request(a) ==
  /\ link = "up" /\ cm \in InLoop \cup {"announce"}
  /\ InProgress < Load
  /\ a \in Ids => ~InSeq(a, inbox) /\ Places(a) = {} /\ a \notin owed
  /\ inbox' = Append(inbox, a)
  /\ UNCHANGED <<manager, events, commands, loop, tasks, link, pinged, pings, signals,
                 history>>

Answer ==
  /\ pinged /\ link = "up"
  /\ inbox' = Append(inbox, "Pong") /\ pinged' = FALSE
  /\ UNCHANGED <<manager, events, commands, loop, tasks, link, pings, signals, history>>

LinkDies ==
  /\ link = "up"
  /\ link' = "dead" /\ pinged' = FALSE
  /\ Break
  /\ UNCHANGED <<manager, events, commands, loop, tasks, inbox, pings, signals, fresh,
                 owed>>

(* The server closes, or the network resets, the connection.               *)
LinkEnds ==
  /\ link \in {"up", "dead"}
  /\ link' = "ended" /\ inbox' = Append(inbox, "End") /\ pinged' = FALSE
  /\ IF link = "up" THEN Break ELSE UNCHANGED drops
  /\ UNCHANGED <<manager, events, commands, loop, tasks, pings, signals, fresh,
                 owed>>

(* The interval of the ping timer passes; a tick that cannot be handled    *)
(* now is handled later (MissedTickBehavior::Burst).                       *)
Tick ==
  /\ cm \in InLoop /\ due < MaxDue /\ TimerMayExpire
  /\ due' = due + 1
  /\ UNCHANGED <<manager, events, commands, loop, tasks, socket, awaiting, signals,
                 history>>

(* tokio never restores the default action of a signal it has caught, and  *)
(* a signal stream sees only the signals that come while it exists.        *)
Sigterm ==
  /\ Signals /\ ~asked /\ asked' = TRUE
  /\ \/ ~caught /\ Exit
     \/ caught /\ sig' = (cm \in InLoop)
        /\ UNCHANGED <<manager, events, commands, loop, tasks, socket, pings, caught,
                       history>>

Exited == cm = "exited" /\ UNCHANGED vars

-----------------------------------------------------------------------------
Manager ==
  \/ DialSucceeds \/ DialFails \/ Accepted \/ Refused \/ Announce
  \/ ReadPong \/ ReadEnd \/ ReadAsk \/ Forward
  \/ SendCommand \/ Ping \/ GiveUp \/ WriteTimesOut \/ ExitOnSignal
  \/ Bye \/ Wake

Loop == RecvEvent \/ Poll \/ Collected \/ SendOut

Scripts == \E i \in Ids : ScriptEnds(i) \/ SendResult(i)

World ==
  \/ \E a \in Asks : Request(a)
  \/ Answer \/ LinkDies \/ LinkEnds \/ Tick \/ Sigterm

Next == Manager \/ Loop \/ Scripts \/ World \/ Exited

Spec == Init /\ [][Next]_vars

(* select! picks at random among the branches that are ready, and a full   *)
(* channel serves its senders in the order they came: strong fairness.     *)
(* Outside the select loop one await follows the other, and each timeout   *)
(* expires.  The server accepts the daemon again and again.  No fairness   *)
(* for polls, requests, scripts, answers or failures.  The actions of one  *)
(* formula belong to different places of one task: fairness of their       *)
(* disjunction is fairness of each.                                        *)
Fairness ==
  /\ SF_vars(DialSucceeds) /\ SF_vars(Accepted)
  /\ WF_vars(Announce \/ Refused \/ Forward \/ WriteTimesOut \/ Bye)
  /\ SF_vars(ReadPong \/ ReadEnd \/ ReadAsk)
  /\ SF_vars(SendCommand) /\ SF_vars(Ping \/ GiveUp) /\ SF_vars(Tick \/ Wake)
  /\ SF_vars(RecvEvent) /\ SF_vars(Collected \/ SendOut)
  /\ \A i \in Ids : SF_vars(SendResult(i))

LiveSpec == Spec /\ Fairness

-----------------------------------------------------------------------------
(* The state keeps its types, and neither channel exceeds its capacity.    *)
TypeOK ==
  /\ cm \in {"dial", "hello", "announce", "bye", "sleep", "exited"} \cup InLoop
  /\ carry \in Events
  /\ events \in Seq(Events) /\ Len(events) <= EventCap
  /\ commands \in Seq(Commands) /\ Len(commands) <= CommandCap
  /\ ml \in {"select", "collect", "send", "exited"} /\ out \in Commands
  /\ connected \in BOOLEAN
  /\ tasks \in [Ids -> {"none", "running", "sending"}]
  /\ link \in {"none", "up", "dead", "ended"} /\ inbox \in Seq(Frames)
  /\ pinged \in BOOLEAN /\ awaiting \in BOOLEAN /\ caught \in BOOLEAN
  /\ sig \in BOOLEAN /\ asked \in BOOLEAN /\ fresh \in BOOLEAN
  /\ due \in 0..MaxDue /\ drops \in 0..MaxDrops /\ owed \subseteq Ids

IsNews(e) == e \in {"Connected", "Disconnected"}

(* What the main loop will believe once it has read the channel ev, if it  *)
(* believes c now: the last news decides.                                  *)
Told(ev, c) ==
  \/ c /\ \A k \in DOMAIN ev : ~IsNews(ev[k])
  \/ \E k \in DOMAIN ev :
       ev[k] = "Connected" /\ \A j \in DOMAIN ev : j > k => ~IsNews(ev[j])

(* The flag that gates polling may lag behind the connection, but the last *)
(* word the manager sent is always true: connected exactly while the       *)
(* select loop of connect_and_handle runs, whatever way it was left.       *)
LastWord ==
  /\ cm \in InLoop => Told(events, connected)
  /\ cm \in {"dial", "hello", "announce", "sleep"} => ~Told(events, connected)

(* A command id is in one place of the daemon at a time: no request is     *)
(* executed or answered twice, across reconnects too.                      *)
OneAnswer ==
  \A i \in Ids : Cardinality(Places(i)) <= 1

(* A working server is never given up as stale, as long as the daemon's    *)
(* tasks keep up with their timers.                                        *)
NoFalseAlarm == [][GiveUp => link # "up"]_vars

(* A connection whose other end went silent is given up.                   *)
DeadLinkNoticed == (link = "dead") ~> (link # "dead")

(* The daemon always comes back to a working connection.                   *)
AutoReconnects == []<>(cm = "select")

(* Every connection gets a status collected after it was announced, unless *)
(* it is lost first.                                                       *)
ConnectReportsStatus == (cm = "select") ~> (fresh \/ cm \notin InLoop)

(* A command that was read is answered, whatever connections come and go   *)
(* between: it is owed until its result has been handed to a socket, which *)
(* waits for nothing but the script.                                       *)
CommandsAnswered ==
  \A i \in Ids : (i \in owed) ~> (i \notin owed \/ tasks[i] = "running")
=============================================================================
