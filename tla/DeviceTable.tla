----------------------------- MODULE DeviceTable -----------------------------
(***************************************************************************)
(* What the device registry of collar-server promises: one table with at   *)
(* most one row per device, in which connecting, reporting and             *)
(* disconnecting are single steps, a row that is there never disappears    *)
(* while the server runs, and a disconnect or a reconnect keeps the status *)
(* and the LAN address the device last reported.  DeviceRegistry           *)
(* implements it with two concurrent maps and a sweeper, as long as the    *)
(* connections to one device do not overlap.                               *)
(***************************************************************************)
CONSTANTS Devices, Statuses, NoStatus, LanIps, NoIp, Absent

VARIABLE table

Rows == [online : BOOLEAN, status : Statuses \cup {NoStatus},
         lan : LanIps \cup {NoIp}]

Init == table = [d \in Devices |-> Absent]

Online(d) == table[d] # Absent /\ table[d].online

(* What connecting makes of the row of a device, or of its absence.        *)
Connected(r, ip) ==
  IF r = Absent THEN [online |-> TRUE, status |-> NoStatus, lan |-> ip]
  ELSE [online |-> TRUE, status |-> r.status,
        lan |-> IF ip = NoIp THEN r.lan ELSE ip]

(* register_device                                                         *)
Connect(d) ==
  /\ ~Online(d)
  /\ \E ip \in LanIps \cup {NoIp} : table' = [table EXCEPT ![d] = Connected(@, ip)]

(* update_status                                                           *)
Report(d) ==
  /\ Online(d)
  /\ \E st \in Statuses : table' = [table EXCEPT ![d].status = st]

(* unregister_device_if_session                                            *)
Disconnect(d) == Online(d) /\ table' = [table EXCEPT ![d].online = FALSE]

(* A restart brings back what the state file holds, nothing of it online.  *)
Restart ==
  /\ table' \in [Devices -> Rows \cup {Absent}]
  /\ \A d \in Devices : table'[d] # Absent => ~table'[d].online

Next == (\E d \in Devices : Connect(d) \/ Report(d) \/ Disconnect(d)) \/ Restart

Spec == Init /\ [][Next]_table
=============================================================================
