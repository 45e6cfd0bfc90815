------------------------------- MODULE WebSession ------------------------------
(***************************************************************************)
(* One tab of the web UI: its session, and the list of devices it shows.   *)
(* The session is a token in a cookie, which expires, is shared with other *)
(* tabs and is worthless after the server's secret changed; the tab finds  *)
(* out from a 401.  Polls and refreshes overlap, and their answers are     *)
(* applied in the order they arrive, some of them after the dashboard that *)
(* asked was unmounted, or under another session.                          *)
(*                                                                         *)
(* A request is sent and answered in one step and its answer arrives in    *)
(* another.  Each definition right before the one it resembles             *)
(* (PollDenied, PollUnlessError) is a mutant which one of the properties   *)
(* rules out.  No specification uses it.                                   *)
(***************************************************************************)
EXTENDS Naturals

CONSTANTS
  Idle,       \* nothing under way
  Denied,     \* an answer: 401
  Failed,     \* no answer, or another error
  Done,       \* an answer: success, without a body that matters
  Empty,      \* the empty list of devices
  Lists,      \* what list_devices may return, Empty among it
  Polls,      \* polls that overlap
  Refreshes,  \* refreshes that overlap
  Changes     \* bound: clicks, failures and changes

ASSUME SessionAssumption == Changes \in Nat /\ Empty \in Lists

VARIABLES
  cookie,   \* the token in the browser: "valid", "stale", or "none"
  devices,  \* what list_devices of the server returns
  ui,       \* the tab: "loading", "in" (the dashboard) or "out" (the login)
  shown,    \* the devices of the dashboard
  error,    \* its error banner
  due,      \* a dashboard was mounted and has not refreshed yet
  poll,     \* polls: Idle, or the answer and whether its dashboard is there
  refresh,  \* refreshes, with the step they are in
  login,    \* the answer to a login or to the check on loading
  logout,   \* the answer to a logout
  left      \* clicks, failures and changes left

vars == <<cookie, devices, ui, shown, error, due, poll, refresh, login, logout, left>>

dashboard == <<shown, error, due>>

auth == <<login, logout>>

Disturb == left > 0 /\ left' = left - 1

(* AuthUser: no token and an invalid one are both 401.                     *)
Guarded(answer) == IF cookie = "valid" THEN answer ELSE Denied
-----------------------------------------------------------------------------
(* The dashboard and what is left of it.                                   *)

Mount ==
  /\ ui' = "in"
  /\ shown' = Empty
  /\ error' = FALSE
  /\ due' = TRUE

Orphaned(requests) ==
  [r \in DOMAIN requests |->
     IF requests[r] = Idle THEN Idle ELSE [requests[r] EXCEPT !.own = FALSE]]

(* onAuthError, or a logout: the dashboard is unmounted, its requests stay *)
(* under way.                                                              *)
Leave(polls, refreshes) ==
  /\ ui' = IF ui = "in" THEN "out" ELSE ui
  /\ due' = FALSE
  /\ poll' = Orphaned(polls)
  /\ refresh' = Orphaned(refreshes)
  /\ UNCHANGED <<shown, error>>

(* What fetchDevices does with its answer.                                 *)
Received(request) ==
  /\ shown' = IF request.own /\ request.got # Failed THEN request.got ELSE shown
  /\ error' = (error \/ (request.own /\ request.got = Failed))
-----------------------------------------------------------------------------
(* Polls: setInterval does not wait for the last one.                      *)

PollUnlessError(p) ==
  /\ ui = "in"
  /\ poll[p] = Idle
  /\ poll' = IF error THEN poll ELSE [poll EXCEPT ![p] = [own |-> TRUE, got |-> Guarded(devices)]]
  /\ UNCHANGED <<cookie, devices, ui, dashboard, refresh, auth, left>>

SendPoll(p) ==
  /\ ui = "in"
  /\ poll[p] = Idle
  /\ poll' = [poll EXCEPT ![p] = [own |-> TRUE, got |-> Guarded(devices)]]
  /\ UNCHANGED <<cookie, devices, ui, dashboard, refresh, auth, left>>

PollDenied(p) ==
  /\ poll[p] # Idle
  /\ poll[p].got = Denied
  /\ poll' = [poll EXCEPT ![p] = Idle]
  /\ error' = (error \/ poll[p].own)
  /\ UNCHANGED <<cookie, devices, ui, shown, due, refresh, auth, left>>

PollTurnedAway(p) ==
  /\ poll[p] # Idle
  /\ poll[p].got = Denied
  /\ Leave([poll EXCEPT ![p] = Idle], refresh)
  /\ UNCHANGED <<cookie, devices, auth, left>>

PollArrives(p) ==
  /\ poll[p] # Idle
  /\ poll[p].got # Denied
  /\ Received(poll[p])
  /\ poll' = [poll EXCEPT ![p] = Idle]
  /\ UNCHANGED <<cookie, devices, ui, due, refresh, auth, left>>
-----------------------------------------------------------------------------
(* A refresh: the list, a request for the status of each device that is    *)
(* online, half a second, and the list again.  It goes on when its         *)
(* dashboard is gone.                                                      *)

Step(f, at, got) == refresh' = [refresh EXCEPT ![f] = [@ EXCEPT !.at = at, !.got = got]]

(* On mount, or by a click.                                                *)
StartRefresh(f) ==
  /\ ui = "in"
  /\ refresh[f] = Idle
  /\ IF due THEN UNCHANGED left ELSE Disturb
  /\ due' = FALSE
  /\ error' = FALSE
  /\ refresh' = [refresh EXCEPT ![f] = [own |-> TRUE, at |-> "list", got |-> Guarded(devices)]]
  /\ UNCHANGED <<cookie, devices, ui, shown, poll, auth>>

RefreshTurnedAway(f) ==
  /\ refresh[f] # Idle
  /\ refresh[f].got = Denied
  /\ Leave(poll, [refresh EXCEPT ![f] = IF @.at = "posts" THEN [@ EXCEPT !.at = "wait", !.got = Done]
                                        ELSE Idle])
  /\ UNCHANGED <<cookie, devices, auth, left>>

(* With no devices, or an error, it ends.                                  *)
ListArrives(f) ==
  /\ refresh[f] # Idle
  /\ refresh[f].at \in {"list", "again"}
  /\ refresh[f].got # Denied
  /\ Received(refresh[f])
  /\ IF refresh[f].at = "list" /\ refresh[f].got \notin {Empty, Failed}
     THEN Step(f, "posts", Guarded(Done))
     ELSE refresh' = [refresh EXCEPT ![f] = Idle]
  /\ UNCHANGED <<cookie, devices, ui, due, poll, auth, left>>

(* refresh_status, for each device; allSettled waits for all of them and   *)
(* ignores what fails.                                                     *)
PostsArrive(f) ==
  /\ refresh[f] # Idle
  /\ refresh[f].at = "posts"
  /\ refresh[f].got # Denied
  /\ Step(f, "wait", Done)
  /\ UNCHANGED <<cookie, devices, ui, dashboard, poll, auth, left>>

ListAgain(f) ==
  /\ refresh[f] # Idle
  /\ refresh[f].at = "wait"
  /\ Step(f, "again", Guarded(devices))
  /\ UNCHANGED <<cookie, devices, ui, dashboard, poll, auth, left>>
-----------------------------------------------------------------------------
(* checkSession when the page loads, login and logout.                     *)

CheckSession ==
  /\ ui = "loading"
  /\ login = Idle
  /\ login' = Guarded(Done)
  /\ UNCHANGED <<cookie, devices, ui, dashboard, poll, refresh, logout, left>>

(* The server checks name and password.                                    *)
Login ==
  /\ ui = "out"
  /\ login = Idle
  /\ Disturb
  /\ login' \in {Done, Denied}
  /\ UNCHANGED <<cookie, devices, ui, dashboard, poll, refresh, logout>>

(* The answer of a login sets the cookie.                                  *)
LoginArrives ==
  /\ login # Idle
  /\ login' = Idle
  /\ IF login = Done
     THEN /\ Mount
          /\ cookie' = IF ui = "out" THEN "valid" ELSE cookie
     ELSE ui' = "out" /\ UNCHANGED <<cookie, dashboard>>
  /\ UNCHANGED <<devices, poll, refresh, logout, left>>

Logout ==
  /\ ui = "in"
  /\ logout = Idle
  /\ Disturb
  /\ logout' = Done
  /\ UNCHANGED <<cookie, devices, ui, dashboard, poll, refresh, login>>

(* The answer clears the cookie.  If there is none, the tab stays as it is *)
(* with its session.                                                       *)
LogoutArrives ==
  /\ logout # Idle
  /\ logout' = Idle
  /\ IF logout = Done
     THEN cookie' = "none" /\ Leave(poll, refresh)
     ELSE UNCHANGED <<cookie, ui, dashboard, poll, refresh>>
  /\ UNCHANGED <<devices, login, left>>
-----------------------------------------------------------------------------
(* The world.                                                              *)

(* A device connects, leaves or reports.                                   *)
DevicesChange ==
  /\ Disturb
  /\ devices' \in Lists \ {devices}
  /\ UNCHANGED <<cookie, ui, dashboard, poll, refresh, auth>>

(* The cookie expires, another tab logs in or out, or the server restarts  *)
(* with another secret.                                                    *)
CookieChanges ==
  /\ Disturb
  /\ cookie' \in {"valid", "stale", "none"} \ {cookie}
  /\ UNCHANGED <<devices, ui, dashboard, poll, refresh, auth>>

(* An answer is lost.                                                      *)
Lose ==
  /\ Disturb
  /\ \/ \E p \in Polls : /\ poll[p] # Idle
                         /\ poll' = [poll EXCEPT ![p].got = Failed]
                         /\ UNCHANGED <<refresh, auth>>
     \/ \E f \in Refreshes : /\ refresh[f] # Idle
                             /\ refresh[f].at # "wait"
                             /\ Step(f, refresh[f].at, Failed)
                             /\ UNCHANGED <<poll, auth>>
     \/ /\ login # Idle
        /\ login' = Failed
        /\ UNCHANGED <<poll, refresh, logout>>
     \/ /\ logout # Idle
        /\ logout' = Failed
        /\ UNCHANGED <<poll, refresh, login>>
  /\ UNCHANGED <<cookie, devices, ui, dashboard>>
-----------------------------------------------------------------------------
Init ==
  /\ cookie \in {"valid", "stale", "none"}
  /\ devices \in Lists
  /\ ui = "loading"
  /\ shown = Empty
  /\ error = FALSE
  /\ due = FALSE
  /\ poll = [p \in Polls |-> Idle]
  /\ refresh = [f \in Refreshes |-> Idle]
  /\ login = Idle
  /\ logout = Idle
  /\ left = Changes

PollStep(p) == SendPoll(p) \/ PollTurnedAway(p) \/ PollArrives(p)

RefreshStep(f) ==
  RefreshTurnedAway(f) \/ ListArrives(f) \/ PostsArrive(f) \/ ListAgain(f)

Next ==
  \/ \E p \in Polls : PollStep(p)
  \/ \E f \in Refreshes : StartRefresh(f) \/ RefreshStep(f)
  \/ CheckSession
  \/ Login
  \/ LoginArrives
  \/ Logout
  \/ LogoutArrives
  \/ DevicesChange
  \/ CookieChanges
  \/ Lose

(* A timer starts a poll every ten seconds while the dashboard is mounted, *)
(* and answers arrive or fail.                                             *)
Fairness ==
  /\ \A p \in Polls : WF_vars(PollStep(p))
  /\ \A f \in Refreshes : WF_vars(RefreshStep(f))
  /\ WF_vars(CheckSession)
  /\ WF_vars(LoginArrives)
  /\ WF_vars(LogoutArrives)

Spec == Init /\ [][Next]_vars /\ Fairness
-----------------------------------------------------------------------------
(* A tab does not stay on the dashboard of a session that is over, however *)
(* it ended and whatever is under way (useAuth.tsx: "401 errors - auto     *)
(* logout").                                                               *)
EndedIsNoticed ==
  (ui = "in" /\ cookie # "valid") ~> (ui # "in" \/ cookie = "valid")

(* Once nothing changes any more, a dashboard comes to show the devices    *)
(* the server has, and keeps showing them: answers of overlapping polls    *)
(* and refreshes, of unmounted dashboards and errors leave nothing behind. *)
ListConverges == <>[](ui = "in" => shown = devices)
=============================================================================
