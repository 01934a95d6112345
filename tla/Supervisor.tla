----------------------------- MODULE Supervisor -----------------------------
(***************************************************************************)
(* The connection supervisor (whatevrd/internal/conn/conn.go) and the      *)
(* account's lifecycle around it (whatevrd/internal/whatsapp/client.go): a *)
(* machine of one goroutine that dials, watches, waits and runs the login, *)
(* against a network, a server, a person, and a logout that replaces the   *)
(* client under it.                                                        *)
(*                                                                         *)
(* whatsmeow's clients are external.  They have a socket that may be dead  *)
(* without anybody knowing, and dispatch events from goroutines of their   *)
(* own: an event on its way is a member of the set arriving, it comes in   *)
(* any order and possibly after the socket it tells of was replaced.       *)
(***************************************************************************)
EXTENDS Naturals, FiniteSets

CONSTANTS
    MaxClient, \* bound: clients made one after the other
    Storms     \* bounds: how often each kind of disturbance happens, by behaviour

(* A dial fails, an answer takes too long, the server closes, refuses,      *)
(* replaces or logs out, a line dies, the route changes, somebody asks for  *)
(* a reconnect, something else kicks, a logout is asked for, a code is      *)
(* scanned, a wipe fails, it can not delete an id.                          *)
Disturbances == {"dial", "slow", "close", "refuse", "replace", "remove", "line", "route",
                 "manual", "kick", "logout", "scan", "error", "undeleted"}

ASSUME ClientAssumption == MaxClient \in Nat \ {0}
ASSUME BoundAssumption == Storms \subseteq [Disturbances -> Nat]

VARIABLES
    phase,    \* where Run is
    mine,     \* the client that phase works with
    status,   \* what was published last
    timed,    \* the status held ends by itself
    dial,     \* the ConnectContext of the phase: none, running, returned, failed
    probe,    \* the ping of the phase: none, running, failed, answered
    quiet,    \* nothing heard: 0 lately, 1 for a keepalive's deadline, 2 for Silence
    arriving, \* events on their way to the machine, or in its channel
    kicks,    \* kicks in the channel
    attached, \* the token that says a client was attached
    current,  \* the newest client
    device,   \* per client: its store has an id
    session,  \* per client: the store behind it is open
    socket,   \* per client: none, open, up
    dead,     \* clients whose socket hears nothing any more
    pairing,  \* the client whatsmeow reconnects by itself after a pairing, or 0
    route,    \* the network watcher sees a route out
    wipes,    \* wipes that want the lifecycle lock
    wiping,   \* the client whose wipe has cleared it, or 0
    left      \* disturbances still to come

runVars == <<phase, mine, status, timed, dial, probe>>
acctVars == <<current, device, session, wipes, wiping, attached>>
netVars == <<socket, dead, pairing, route>>
vars == <<runVars, quiet, arriving, kicks, acctVars, netVars, left>>

Clients == 1..MaxClient
Fatal   == {"logged_out", "replaced", "outdated", "banned", "failure"}
Events  == Fatal \cup {"connected", "disconnected", "keepalive"}

-----------------------------------------------------------------------------
Event(c, e) == [cli |-> c, evt |-> e]
Arrives(c, e) == arriving' = arriving \cup {Event(c, e)}
Spend(d) == left[d] > 0 /\ left' = [left EXCEPT ![d] = @ - 1]

IsConnected(c) == socket[c] # "none"
Alive(c) == IsConnected(c) /\ c \notin dead

Hangup(c) == /\ socket' = [socket EXCEPT ![c] = "none"]
             /\ dead' = dead \ {c}

(* A socket that was not there comes up. *)
Dialed(c) == socket' = [socket EXCEPT ![c] = "open"]

Init ==
    /\ phase = "starting" /\ mine = 1 /\ status = "starting" /\ timed = FALSE
    /\ dial = "none" /\ probe = "none" /\ quiet = 0
    /\ arriving = {} /\ kicks = {} /\ attached = TRUE
    /\ current = 1
    /\ device \in {[c \in Clients |-> c = 1 /\ linked] : linked \in BOOLEAN}
    /\ session = [c \in Clients |-> c = 1]
    /\ socket = [c \in Clients |-> "none"] /\ dead = {} /\ pairing = 0
    /\ route \in BOOLEAN
    /\ wipes = {} /\ wiping = 0 /\ left \in Storms

-----------------------------------------------------------------------------
(* Run: what one phase hands to the next. *)

Goto(p) == /\ phase' = p /\ timed' = FALSE /\ dial' = "none" /\ probe' = "none"
           /\ UNCHANGED <<mine, status>>
Hold(kind, ends) ==
    /\ phase' = "hold" /\ status' = kind /\ timed' = ends
    /\ dial' = "none" /\ probe' = "none" /\ UNCHANGED mine
Pause(p, kind) == /\ phase' = p /\ status' = kind /\ timed' = FALSE
                  /\ dial' = "none" /\ probe' = "none" /\ UNCHANGED mine

(* mutant: cancels the attempt and leaves the socket *)
TeardownCancels == UNCHANGED <<socket, dead>>

Teardown == Hangup(mine)

Start ==
    /\ phase = "starting" /\ attached
    /\ attached' = FALSE /\ Goto("connect")
    /\ UNCHANGED <<quiet, arriving, kicks, current, device, session, wipes, wiping, netVars, left>>

NeedsLogin ==
    /\ phase = "connect" /\ ~device[current]
    /\ Goto("login")
    /\ UNCHANGED <<quiet, arriving, kicks, acctVars, netVars, left>>

NoNetwork ==
    /\ phase = "connect" /\ device[current] /\ ~route
    /\ Pause("no_network", "no_network")
    /\ UNCHANGED <<quiet, arriving, kicks, acctVars, netVars, left>>

(* Events that may still be on their way.  Client.event hears of a logout   *)
(* after the machine's handler, so once it wiped, the machine has the event *)
(* in its channel.                                                          *)
Late == {e \in arriving : e.evt = "logged_out" => [from |-> e.cli, asked |-> FALSE] \in wipes}

(* connect drains what is queued; what is still on its way comes later. *)
Connect ==
    /\ phase = "connect" /\ device[current] /\ route
    /\ phase' = "dial" /\ mine' = current /\ status' = "connecting" /\ dial' = "running"
    /\ arriving' \in SUBSET Late
    /\ UNCHANGED <<timed, probe, quiet, kicks, acctVars, netVars, left>>

(* ConnectContext: a socket, ErrAlreadyConnected where there is one, or an  *)
(* error.                                                                   *)
Dials ==
    /\ phase = "dial" /\ dial = "running"
    /\ IF IsConnected(mine) THEN UNCHANGED socket ELSE route /\ Dialed(mine)
    /\ dial' = "returned"
    /\ UNCHANGED <<phase, mine, status, timed, probe, quiet, arriving, kicks, acctVars,
                   dead, pairing, route, left>>

DialFails ==
    /\ phase = "dial" /\ dial = "running" /\ ~IsConnected(mine)
    /\ dial' = "failed"
    /\ IF route THEN Spend("dial") ELSE UNCHANGED left
    /\ UNCHANGED <<phase, mine, status, timed, probe, quiet, arriving, kicks, acctVars, netVars>>

DialError ==
    /\ phase = "dial" /\ dial = "failed"
    /\ Teardown /\ Pause("wait", "waiting")
    /\ UNCHANGED <<quiet, arriving, kicks, acctVars, pairing, route, left>>

(* Nothing the attempt could still hear says that it worked. *)
Mute == \/ dial = "returned" /\ ~(Alive(mine) /\ device[mine])
        \/ socket[mine] = "up" /\ Event(mine, "connected") \notin arriving

(* The deadline: 30 seconds after the dial began. *)
Deadline ==
    /\ phase = "dial"
    /\ IF Mute THEN UNCHANGED left ELSE Spend("slow")
    /\ Teardown /\ Pause("wait", "waiting")
    /\ UNCHANGED <<quiet, arriving, kicks, acctVars, pairing, route>>

-----------------------------------------------------------------------------
(* Events. *)

Take(e) == e \in arriving /\ arriving' = arriving \ {e}

(* fatal: what ends trying. *)
Ends(evt) ==
    \/ evt = "logged_out" /\ Pause("gone", "logged_out")
    \/ evt \in {"replaced", "outdated"} /\ Hold(evt, FALSE)
    \/ evt = "banned" /\ \E ends \in BOOLEAN : Hold("banned", ends)
    \/ evt = "failure" /\ Pause("wait", "waiting")

GoOnline == /\ phase' = "online" /\ status' = "online" /\ dial' = "none" /\ probe' = "none"
            /\ quiet' = 0 /\ timed' = FALSE

(* A connection that is lost is a first try again, at once. *)
Lost == Teardown /\ Goto("connect")

Connected(e) ==
    /\ phase = "dial" /\ Take(e) /\ e.cli = mine /\ e.evt = "connected"
    /\ GoOnline
    /\ UNCHANGED <<mine, kicks, acctVars, netVars, left>>

FatalEvent(e) ==
    /\ phase \in {"dial", "online"} /\ Take(e) /\ e.cli = mine /\ e.evt \in Fatal
    /\ Teardown /\ Ends(e.evt)
    /\ UNCHANGED <<quiet, kicks, acctVars, pairing, route, left>>

(* mutant: whichever socket it was that closed *)
ClosedAnyway(e) == e.cli = mine /\ e.evt = "disconnected"

(* A socket that closed may already be replaced. *)
Closed(e) == e.cli = mine /\ e.evt = "disconnected" /\ ~IsConnected(mine)

ClosedWhileDialing(e) ==
    /\ phase = "dial" /\ Take(e) /\ Closed(e)
    /\ Teardown /\ Pause("wait", "waiting")
    /\ UNCHANGED <<quiet, kicks, acctVars, pairing, route, left>>

(* Disconnected, or a keepalive that timed out with nothing heard since. *)
LostEvent(e) ==
    /\ phase = "online" /\ Take(e)
    /\ Closed(e) \/ (e.cli = mine /\ e.evt = "keepalive" /\ quiet > 0)
    /\ Lost
    /\ UNCHANGED <<quiet, kicks, acctVars, pairing, route, left>>

(* idleEvent: a socket that came up by itself is adopted. *)
Adopt(e) ==
    /\ phase \in {"no_network", "wait", "hold"} /\ Take(e)
    /\ e.cli = current /\ e.evt = "connected" /\ IsConnected(current)
    /\ mine' = current /\ GoOnline
    /\ UNCHANGED <<kicks, acctVars, netVars, left>>

Paired(e) ==
    /\ phase = "paired" /\ Take(e) /\ e.cli = mine /\ e.evt = "connected"
    /\ mine' = current /\ GoOnline
    /\ UNCHANGED <<kicks, acctVars, netVars, left>>

(* What none of these wants is dropped. *)
Ignored(e) ==
    \/ phase = "gone"
    \/ phase \in {"no_network", "wait", "hold"}
       /\ ~(e.cli = current /\ e.evt = "connected" /\ IsConnected(current))
    \/ phase = "paired" /\ ~(e.cli = mine /\ e.evt = "connected")
    \/ phase = "dial"
       /\ ~(e.cli = mine /\ e.evt \in Fatal \cup {"connected"}) /\ ~Closed(e)
    \/ phase = "online"
       /\ ~(e.cli = mine /\ e.evt \in Fatal) /\ ~Closed(e)
       /\ ~(e.cli = mine /\ e.evt = "keepalive" /\ quiet > 0)

DropEvent(e) ==
    /\ Take(e) /\ Ignored(e)
    /\ UNCHANGED <<runVars, quiet, kicks, acctVars, netVars, left>>

-----------------------------------------------------------------------------
(* Online: the tick and the probe. *)

TickClosed ==
    /\ phase = "online" /\ ~IsConnected(mine)
    /\ Lost
    /\ UNCHANGED <<quiet, arriving, kicks, acctVars, pairing, route, left>>

(* mutant: the tick only looks whether the socket is there *)
TickDeaf == FALSE /\ UNCHANGED vars

TickSilent ==
    /\ phase = "online" /\ IsConnected(mine) /\ quiet = 2
    /\ Lost
    /\ UNCHANGED <<quiet, arriving, kicks, acctVars, pairing, route, left>>

(* The ping goes out on whatever the client's socket is, and comes back or  *)
(* does not.                                                                *)
PingAnswered ==
    /\ probe = "running" /\ Alive(mine)
    /\ probe' = "answered" /\ quiet' = 0
    /\ UNCHANGED <<phase, mine, status, timed, dial, arriving, kicks, acctVars, netVars, left>>

PingFails ==
    /\ probe = "running"
    /\ IF Alive(mine) THEN Spend("slow") ELSE UNCHANGED left
    /\ probe' = "failed"
    /\ UNCHANGED <<phase, mine, status, timed, dial, quiet, arriving, kicks, acctVars, netVars>>

ProbeOver ==
    /\ phase = "online" /\ probe = "answered"
    /\ probe' = "none"
    /\ UNCHANGED <<phase, mine, status, timed, dial, quiet, arriving, kicks, acctVars, netVars, left>>

ProbeLost ==
    /\ phase = "online" /\ probe = "failed"
    /\ Lost
    /\ UNCHANGED <<quiet, arriving, kicks, acctVars, pairing, route, left>>

-----------------------------------------------------------------------------
(* Kicks and timers.  Of two kicks of one kind one is kept. *)

TakeKick(r) == r \in kicks /\ kicks' = kicks \ {r}

ManualKick ==
    /\ phase \in {"no_network", "dial", "online", "wait", "hold", "gone"} /\ TakeKick("manual")
    /\ Goto("connect")
    /\ IF phase \in {"dial", "online"} THEN Teardown ELSE UNCHANGED <<socket, dead>>
    /\ UNCHANGED <<quiet, arriving, acctVars, pairing, route, left>>

(* Anything else cuts a wait short, ends no_network once there is a route,  *)
(* and has an online line probed; elsewhere it is read for nothing.         *)
OtherKick ==
    /\ TakeKick("other")
    /\ \/ /\ phase = "wait" \/ (phase = "no_network" /\ route)
          /\ Goto("connect")
       \/ /\ phase = "online" /\ probe = "none"
          /\ probe' = "running" /\ UNCHANGED <<phase, mine, status, timed, dial>>
       \/ /\ \/ phase \in {"dial", "hold", "gone"}
             \/ phase = "no_network" /\ ~route
             \/ phase = "online" /\ probe # "none"
          /\ UNCHANGED runVars
    /\ UNCHANGED <<quiet, arriving, acctVars, netVars, left>>

(* The backoff, the cap of no_network, the end of a ban. *)
Timer ==
    /\ phase \in {"wait", "no_network"} \/ (phase = "hold" /\ timed)
    /\ Goto("connect")
    /\ UNCHANGED <<quiet, arriving, kicks, acctVars, netVars, left>>

-----------------------------------------------------------------------------
(* After a logout, and the login. *)

(* A client was attached, or the tick sees that the old one has no id.      *)
GoneEnds ==
    /\ phase = "gone"
    /\ \/ attached /\ attached' = FALSE
       \/ ~device[current] /\ UNCHANGED attached
    /\ Goto("connect")
    /\ UNCHANGED <<quiet, arriving, kicks, current, device, session, wipes, wiping, netVars, left>>

LoginSkipped ==
    /\ phase = "login" /\ dial = "none" /\ device[current]
    /\ Goto("connect")
    /\ UNCHANGED <<quiet, arriving, kicks, acctVars, netVars, left>>

(* qrLogin on the client there is: a socket that is up is closed first, the *)
(* new one stays open while codes are shown.                                *)
LoginConnects ==
    /\ phase = "login" /\ dial = "none" /\ ~device[current] /\ route
    /\ mine' = current /\ status' = "need_login" /\ dial' = "returned"
    /\ socket' = [socket EXCEPT ![current] = "open"] /\ dead' = dead \ {current}
    /\ UNCHANGED <<phase, timed, probe, quiet, arriving, kicks, acctVars, pairing, route, left>>

LoginFails ==
    /\ phase = "login" /\ dial = "none" /\ ~device[current]
    /\ IF route THEN Spend("dial") ELSE UNCHANGED left
    /\ mine' = current /\ status' = "need_login" /\ phase' = "failed"
    /\ Hangup(current)
    /\ UNCHANGED <<timed, dial, probe, quiet, arriving, kicks, acctVars, pairing, route>>

Scanning == phase = "login" /\ dial = "returned"

(* A scanned code: the id is saved, the server closes the socket and        *)
(* whatsmeow opens one by itself.  Without a store behind the client the    *)
(* pairing fails.  A person takes longer to scan than a wipe to finish.     *)
Scan ==
    /\ Scanning /\ wiping = 0 /\ wipes = {} /\ Spend("scan")
    /\ Hangup(mine)
    /\ IF session[mine] /\ Alive(mine)
       THEN /\ device' = [device EXCEPT ![mine] = TRUE] /\ pairing' = mine
            /\ phase' = "paired" /\ dial' = "none" /\ UNCHANGED <<mine, status, timed, probe>>
       ELSE /\ Goto("failed") /\ UNCHANGED <<device, pairing>>
    /\ UNCHANGED <<quiet, arriving, kicks, current, session, wipes, wiping, attached, route>>

(* A code scanned as the codes run out: the id is saved, and qrLogin has    *)
(* already given up; whatsmeow reconnects unless its socket was closed.     *)
ScanTooLate ==
    /\ Scanning /\ wiping = 0 /\ wipes = {} /\ Spend("scan")
    /\ session[mine] /\ Alive(mine)
    /\ Hangup(mine) /\ device' = [device EXCEPT ![mine] = TRUE] /\ pairing' \in {pairing, mine}
    /\ Goto("login")
    /\ UNCHANGED <<quiet, arriving, kicks, current, session, wipes, wiping, attached, route>>

(* mutant: qrLogin leaves its socket open *)
LoginEndsOpen ==
    /\ Scanning
    /\ \E p \in {"login", "failed"} : Goto(p)
    /\ UNCHANGED <<quiet, arriving, kicks, acctVars, netVars, left>>

(* The codes run out, or the pairing fails. *)
LoginEnds ==
    /\ Scanning /\ Hangup(mine)
    /\ \E p \in {"login", "failed"} : Goto(p)
    /\ UNCHANGED <<quiet, arriving, kicks, acctVars, pairing, route, left>>

LoginAgain ==
    /\ phase = "failed"
    /\ Goto("login")
    /\ kicks' \in {kicks} \cup {kicks \ {r} : r \in kicks}
    /\ UNCHANGED <<quiet, arriving, acctVars, netVars, left>>

(* afterPairing gives up. *)
PairingDeadline ==
    /\ phase = "paired"
    /\ IF pairing = 0 /\ ~(socket[mine] = "open" /\ Alive(mine))
          /\ Event(mine, "connected") \notin arriving
       THEN UNCHANGED left ELSE Spend("slow")
    /\ Teardown /\ Goto("connect")
    /\ UNCHANGED <<quiet, arriving, kicks, acctVars, pairing, route>>

-----------------------------------------------------------------------------
(* The server and the network. *)

(* success, for a client with an id. *)
Success(c) ==
    /\ socket[c] = "open" /\ Alive(c) /\ device[c]
    /\ socket' = [socket EXCEPT ![c] = "up"] /\ Arrives(c, "connected")
    /\ quiet' = 0
    /\ UNCHANGED <<runVars, kicks, acctVars, dead, pairing, route, left>>

Drops(c) == /\ Hangup(c) /\ UNCHANGED <<pairing, route>>

ServerCloses(c) ==
    /\ Alive(c) /\ Spend("close")
    /\ Drops(c) /\ Arrives(c, "disconnected")
    /\ UNCHANGED <<runVars, quiet, kicks, acctVars>>

(* A socket without an id is not kept for long. *)
UnpairedCloses(c) ==
    /\ Alive(c) /\ ~device[c]
    /\ Drops(c) /\ Arrives(c, "disconnected")
    /\ UNCHANGED <<runVars, quiet, kicks, acctVars, left>>

(* At login the server says no; no Disconnected follows. *)
ServerRefuses(c) ==
    /\ socket[c] = "open" /\ Alive(c) /\ device[c] /\ Spend("refuse")
    /\ Drops(c) /\ \E e \in {"outdated", "banned", "failure"} : Arrives(c, e)
    /\ UNCHANGED <<runVars, quiet, kicks, acctVars>>

Replaced(c) ==
    /\ socket[c] = "up" /\ Alive(c) /\ Spend("replace")
    /\ Drops(c) /\ Arrives(c, "replaced")
    /\ UNCHANGED <<runVars, quiet, kicks, acctVars>>

(* The phone removes the device, noticed at login or later: whatsmeow       *)
(* deletes the id, the machine and the client hear of it (Client.event).    *)
RemoteLogout(c) ==
    /\ Alive(c) /\ device[c] /\ Spend("remove")
    /\ Drops(c) /\ Arrives(c, "logged_out")
    /\ device' = [device EXCEPT ![c] = FALSE]
    /\ wipes' = wipes \cup {[from |-> c, asked |-> FALSE]}
    /\ UNCHANGED <<runVars, quiet, kicks, current, session, wiping, attached>>

LineDies(c) ==
    /\ Alive(c) /\ Spend("line")
    /\ dead' = dead \cup {c}
    /\ UNCHANGED <<runVars, quiet, arriving, kicks, acctVars, socket, pairing, route>>

(* Time without a frame: a healthy line is never silent for Silence.        *)
Quiet ==
    /\ quiet < IF \E c \in Clients : Alive(c) THEN 1 ELSE 2
    /\ quiet' = quiet + 1
    /\ UNCHANGED <<runVars, arriving, kicks, acctVars, netVars, left>>

Frame ==
    /\ \E c \in Clients : Alive(c)
    /\ quiet > 0 /\ quiet' = 0
    /\ UNCHANGED <<runVars, arriving, kicks, acctVars, netVars, left>>

KeepAliveTimeout(c) ==
    /\ socket[c] = "up" /\ c \in dead
    /\ Arrives(c, "keepalive")
    /\ UNCHANGED <<runVars, quiet, kicks, acctVars, netVars, left>>

(* whatsmeow's own connect after a pairing. *)
PairReconnect ==
    /\ pairing # 0 /\ pairing' = 0
    /\ \/ /\ ~IsConnected(pairing) /\ device[pairing] /\ route
          /\ Dialed(pairing) /\ UNCHANGED left
       \/ /\ IsConnected(pairing) \/ ~device[pairing] \/ ~route
          /\ UNCHANGED <<socket, left>>
       \/ Spend("dial") /\ UNCHANGED socket
    /\ UNCHANGED <<runVars, quiet, arriving, kicks, acctVars, dead, route>>

(* The watcher of the route kicks at every change. *)
RouteChanges ==
    /\ Spend("route")
    /\ route' = ~route /\ kicks' = kicks \cup {"other"}
    /\ UNCHANGED <<runVars, quiet, arriving, acctVars, socket, dead, pairing>>

(* Reconnect, WantLogin; a send, a resume, a clock that jumped. *)
Kick ==
    /\ \/ Spend("manual") /\ kicks' = kicks \cup {"manual"}
       \/ Spend("kick") /\ kicks' = kicks \cup {"other"}
    /\ UNCHANGED <<runVars, quiet, arriving, acctVars, netVars>>

-----------------------------------------------------------------------------
(* The account's lifecycle (client.go). *)

(* Logout: whatsmeow tells the server, closes the socket and deletes the    *)
(* id; or there is no id, no line or no answer, and both stay until the     *)
(* wipe.                                                                    *)
Logout ==
    /\ Spend("logout")
    /\ \/ /\ socket[current] = "up" /\ Alive(current)
          /\ Hangup(current) /\ device' = [device EXCEPT ![current] = FALSE]
       \/ UNCHANGED <<socket, dead, device>>
    /\ wipes' = wipes \cup {[from |-> current, asked |-> TRUE]}
    /\ UNCHANGED <<runVars, quiet, arriving, kicks, current, session, wiping, attached,
                   pairing, route>>

(* A remote logout of a client already replaced does nothing. *)
WipeWanted(w) == w.asked \/ w.from = current

(* The preferences can not be read: nothing was touched, the wipe is over.  *)
WipeAborts(w) ==
    /\ wiping = 0 /\ w \in wipes /\ WipeWanted(w) /\ Spend("error")
    /\ wipes' = wipes \ {w}
    /\ UNCHANGED <<runVars, quiet, arriving, kicks, current, device, session, wiping, attached,
                   netVars>>

(* wipe, up to where the client is cleared, under the lifecycle lock: its   *)
(* socket is closed and its id deleted, or a store that fails to keeps it.  *)
WipeClears(w) ==
    /\ wiping = 0 /\ w \in wipes /\ WipeWanted(w) /\ current < MaxClient
    /\ wipes' = wipes \ {w} /\ wiping' = w.from
    /\ Hangup(w.from)
    /\ \/ device' = [device EXCEPT ![w.from] = FALSE] /\ UNCHANGED left
       \/ device[w.from] /\ Spend("undeleted") /\ UNCHANGED device
    /\ UNCHANGED <<runVars, quiet, arriving, kicks, current, session, attached, pairing, route>>

WipeIdle(w) ==
    /\ wiping = 0 /\ w \in wipes /\ ~WipeWanted(w)
    /\ wipes' = wipes \ {w}
    /\ UNCHANGED <<runVars, quiet, arriving, kicks, current, device, session, wiping, attached,
                   netVars, left>>

(* The store can not be reset, the cache not be removed: the cleared client *)
(* stays.  Or the session store is closed, and a new one can not be had:    *)
(* the client stays without one.                                            *)
WipeFails ==
    /\ wiping # 0 /\ Spend("error")
    /\ wiping' = 0
    /\ session' \in {session, [session EXCEPT ![current] = FALSE]}
    /\ UNCHANGED <<runVars, quiet, arriving, kicks, current, device, wipes, attached, netVars>>

(* The session store is closed, a new one opened, and a client made on it   *)
(* and attached to the machine.                                             *)
WipeEnds ==
    /\ wiping # 0 /\ current < MaxClient
    /\ wiping' = 0 /\ current' = current + 1 /\ attached' = TRUE
    /\ session' = [session EXCEPT ![current] = FALSE, ![current'] = TRUE]
    /\ UNCHANGED <<runVars, quiet, arriving, kicks, device, wipes, netVars, left>>

-----------------------------------------------------------------------------
OnEvent(e) ==
    \/ Connected(e) \/ FatalEvent(e) \/ ClosedWhileDialing(e) \/ LostEvent(e)
    \/ Adopt(e) \/ Paired(e) \/ DropEvent(e)

RunStep ==
    \/ Start \/ NeedsLogin \/ NoNetwork \/ Connect \/ Dials \/ DialFails \/ DialError \/ Deadline
    \/ \E e \in arriving : OnEvent(e)
    \/ TickClosed \/ TickSilent \/ PingAnswered \/ PingFails \/ ProbeOver \/ ProbeLost
    \/ ManualKick \/ OtherKick \/ Timer
    \/ GoneEnds \/ LoginSkipped \/ LoginConnects \/ LoginFails \/ Scan \/ ScanTooLate \/ LoginEnds \/ LoginAgain
    \/ PairingDeadline

NetStep ==
    \/ \E c \in Clients :
         \/ Success(c) \/ UnpairedCloses(c) \/ ServerCloses(c) \/ ServerRefuses(c)
         \/ Replaced(c) \/ RemoteLogout(c) \/ LineDies(c) \/ KeepAliveTimeout(c)
    \/ Quiet \/ Frame \/ PairReconnect \/ RouteChanges \/ Kick

AccountStep ==
    \/ Logout \/ WipeFails \/ WipeEnds
    \/ \E w \in wipes : WipeAborts(w) \/ WipeClears(w) \/ WipeIdle(w)

Next == RunStep \/ NetStep \/ AccountStep

Spec == Init /\ [][Next]_vars

(* What the machine does without anybody's help: its steps, its timers, its *)
(* tick.  A deadline that passes before an answer, and a dial that fails    *)
(* though there is a route, are disturbances.                               *)
Advance ==
    \/ Start \/ NeedsLogin \/ NoNetwork \/ Connect \/ Dials \/ DialError \/ (Mute /\ Deadline)
    \/ TickClosed \/ TickSilent \/ ProbeOver \/ ProbeLost \/ Timer
    \/ GoneEnds \/ LoginSkipped \/ LoginConnects \/ LoginEnds \/ LoginAgain \/ PairingDeadline
    \/ (~route /\ (DialFails \/ LoginFails))

(* Besides, pings end, an open socket hears from the server, a dead line    *)
(* stays silent, a socket without an id is closed, and wipes finish.        *)
Fairness ==
    /\ WF_vars(Advance)
    /\ WF_vars(\E e \in arriving : OnEvent(e)) /\ WF_vars(ManualKick)
    /\ WF_vars(PingAnswered) /\ WF_vars(~Alive(mine) /\ PingFails)
    /\ \A c \in Clients : WF_vars(Success(c)) /\ WF_vars(UnpairedCloses(c))
    /\ WF_vars((\A c \in Clients : ~Alive(c)) /\ Quiet)
    /\ WF_vars(PairReconnect)
    /\ WF_vars(\E w \in wipes : WipeClears(w) \/ WipeIdle(w)) /\ WF_vars(WipeEnds)

FairSpec == Spec /\ Fairness

-----------------------------------------------------------------------------
(* Every variable keeps its type. *)
TypeOK ==
    /\ phase \in {"starting", "connect", "dial", "online", "wait", "no_network", "hold", "gone",
                 "login", "failed", "paired"}
    /\ mine \in Clients /\ current \in Clients
    /\ status \in {"starting", "no_network", "connecting", "online", "waiting", "need_login",
                  "logged_out", "banned", "outdated", "replaced"}
    /\ timed \in BOOLEAN
    /\ dial \in {"none", "running", "returned", "failed"}
    /\ probe \in {"none", "running", "answered", "failed"} /\ quiet \in 0..2
    /\ arriving \subseteq [cli : Clients, evt : Events] /\ kicks \subseteq {"manual", "other"}
    /\ attached \in BOOLEAN
    /\ device \in [Clients -> BOOLEAN] /\ session \in [Clients -> BOOLEAN]
    /\ socket \in [Clients -> {"none", "open", "up"}] /\ dead \subseteq Clients
    /\ pairing \in 0..MaxClient /\ route \in BOOLEAN
    /\ wipes \subseteq [from : Clients, asked : BOOLEAN] /\ wiping \in 0..MaxClient
    /\ left \in [Disturbances -> Nat]

Watched(c) ==
    \/ mine = c /\ phase \in {"dial", "online", "paired"}
    \/ Event(c, "connected") \in arriving /\ c = current

(* No socket is up that nobody watches: the machine is on it, or its        *)
(* Connected is on its way to a machine that will adopt it ("one nobody     *)
(* watches is how the old core sat online on a dead line").                 *)
UpIsWatched == \A c \in Clients : socket[c] = "up" => Watched(c)

(* One client at a time has a socket, through logouts and pairings.         *)
OneSocket == Cardinality({c \in Clients : IsConnected(c)}) <= 1

(* A line that works is only given up because somebody asked, a ping of it  *)
(* failed, a keepalive timed out with nothing heard since, or whatsmeow     *)
(* said something final: never for a Disconnected of a socket already       *)
(* replaced, for a keepalive's report that a frame has refuted, or for want *)
(* of frames.                                                               *)
HealthyKept ==
    [][phase = "online" /\ socket[mine] = "up" /\ Alive(mine) /\ phase' # "online"
       => \/ kicks \ kicks' = {"manual"} \/ probe = "failed"
          \/ \E e \in arriving \ arriving' :
               e.cli = mine /\ (e.evt \in Fatal \/ (e.evt = "keepalive" /\ quiet > 0))]_vars

(* Whatever happened to the network, the server and the account, it ends on *)
(* a line that works, at the login of the newest client, without a route,   *)
(* or in a state only a person ends.  The line is the newest client's, or   *)
(* an older one's whose id its wipe could not delete: nobody takes the      *)
(* machine off that one.                                                    *)
Settled ==
    \/ status = "online" /\ socket[mine] = "up" /\ Alive(mine) /\ (mine = current \/ device[mine])
    \/ status = "need_login" /\ mine = current /\ ~device[current]
    \/ status = "no_network" /\ ~route
    \/ phase = "hold" /\ ~timed
Settles == <>[]Settled

=============================================================================
