--------------------------- MODULE SupervisorProofs ---------------------------
(***************************************************************************)
(* What is proved of Supervisor, for every number of clients and every     *)
(* mix of disturbances.                                                    *)
(***************************************************************************)
EXTENDS Supervisor, FiniteSetTheorems, TLAPS

(* TypeOK in parts: the machine, its channels, the account, the network.    *)
RunOK ==
    /\ phase \in {"starting", "connect", "dial", "online", "wait", "no_network", "hold", "gone",
                 "login", "failed", "paired"}
    /\ mine \in Clients
    /\ status \in {"starting", "no_network", "connecting", "online", "waiting", "need_login",
                  "logged_out", "banned", "outdated", "replaced"}
    /\ timed \in BOOLEAN
    /\ dial \in {"none", "running", "returned", "failed"}
    /\ probe \in {"none", "running", "answered", "failed"} /\ quiet \in 0..2
MailOK == arriving \subseteq [cli : Clients, evt : Events] /\ kicks \subseteq {"manual", "other"}
AccountOK ==
    /\ current \in Clients /\ attached \in BOOLEAN
    /\ device \in [Clients -> BOOLEAN] /\ session \in [Clients -> BOOLEAN]
    /\ wipes \subseteq [from : Clients, asked : BOOLEAN] /\ wiping \in 0..MaxClient
NetOK ==
    /\ socket \in [Clients -> {"none", "open", "up"}] /\ dead \subseteq Clients
    /\ pairing \in 0..MaxClient /\ route \in BOOLEAN
LeftOK == left \in [Disturbances -> Nat]

LEMMA TypeParts == TypeOK <=> RunOK /\ MailOK /\ AccountOK /\ NetOK /\ LeftOK
BY DEF TypeOK, RunOK, MailOK, AccountOK, NetOK, LeftOK

LEMMA TypePartsNext == TypeOK' <=> RunOK' /\ MailOK' /\ AccountOK' /\ NetOK' /\ LeftOK'
BY TypeParts, PTL

LEMMA InitType == Init => TypeOK
<1>1. 1 \in Clients
  BY ClientAssumption DEF Clients
<1>2. SUFFICES ASSUME Init PROVE TypeOK
  OBVIOUS
<1>3. RunOK
  <2>1. timed \in BOOLEAN
    BY <1>2 DEF Init
  <2>. QED
    BY <1>1, <1>2, <2>1 DEF Init, RunOK
<1>4. MailOK
  BY <1>2 DEF Init, MailOK
<1>5. AccountOK
  <2>1. attached \in BOOLEAN
    BY <1>2 DEF Init
  <2>2. device \in [Clients -> BOOLEAN]
    <3>1. PICK linked \in BOOLEAN : device = [c \in Clients |-> c = 1 /\ linked]
      BY <1>2, Zenon DEF Init
    <3>. QED
      BY <3>1
  <2>3. session \in [Clients -> BOOLEAN]
    BY <1>2 DEF Init
  <2>. QED
    BY <1>1, <1>2, <2>1, <2>2, <2>3, ClientAssumption DEF Init, AccountOK
<1>6. NetOK
  BY <1>1, <1>2, ClientAssumption DEF Init, NetOK
<1>7. LeftOK
  BY <1>2, BoundAssumption DEF Init, LeftOK
<1>. QED
  BY <1>3, <1>4, <1>5, <1>6, <1>7, TypeParts

(* A disturbance is spent once.                                             *)
LEMMA Spent ==
    ASSUME LeftOK, NEW d \in Disturbances, Spend(d)
    PROVE  /\ LeftOK' /\ left'[d] = left[d] - 1 /\ left[d] > 0
           /\ \A b \in Disturbances : b # d => left'[b] = left[b]
BY DEF LeftOK, Spend

LEMMA Sent ==
    ASSUME MailOK, NEW c \in Clients, NEW e \in Events, Arrives(c, e), UNCHANGED kicks
    PROVE  MailOK'
BY DEF MailOK, Arrives, Event

LEMMA OnlineType ==
    ASSUME RunOK, AccountOK, GoOnline, mine' \in {mine, current}
    PROVE  RunOK'
<1>1. timed' \in BOOLEAN
  BY DEF GoOnline
<1>2. mine' \in Clients
  BY DEF RunOK, AccountOK
<1>. QED
  BY <1>1, <1>2 DEF GoOnline, RunOK

LEMMA RunStepType ==
    ASSUME TypeOK, RunStep
    PROVE  TypeOK'
<1>. SUFFICES RunOK' /\ MailOK' /\ AccountOK' /\ NetOK' /\ LeftOK'
  BY TypePartsNext
<1>. RunOK /\ MailOK /\ AccountOK /\ NetOK /\ LeftOK
  BY TypeParts
<1>1. CASE Start
  BY <1>1 DEF Start, Goto, netVars, RunOK, MailOK, AccountOK, NetOK, LeftOK, Disturbances
<1>2. CASE NeedsLogin
  BY <1>2 DEF NeedsLogin, Goto, acctVars, netVars, RunOK, MailOK, AccountOK, NetOK, LeftOK, Disturbances
<1>3. CASE NoNetwork
  BY <1>3 DEF NoNetwork, Pause, acctVars, netVars, RunOK, MailOK, AccountOK, NetOK, LeftOK, Disturbances
<1>4. CASE Connect
  BY <1>4 DEF Connect, Late, acctVars, netVars, RunOK, MailOK, AccountOK, NetOK, LeftOK, Disturbances
<1>5. CASE Dials
  BY <1>5 DEF Dials, Dialed, acctVars, RunOK, MailOK, AccountOK, NetOK, LeftOK, Disturbances
<1>6. CASE DialFails
  BY <1>6 DEF DialFails, Spend, acctVars, netVars, RunOK, MailOK, AccountOK, NetOK, LeftOK, Disturbances
<1>7. CASE DialError
  BY <1>7 DEF DialError, Teardown, Hangup, Pause, acctVars, RunOK, MailOK, AccountOK, NetOK, LeftOK,
     Disturbances
<1>8. CASE Deadline
  <2>1. RunOK'
    BY <1>8 DEF Deadline, Spend, Teardown, Hangup, Pause, acctVars, RunOK, Disturbances
  <2>2. MailOK'
    BY <1>8 DEF Deadline, Spend, Teardown, Hangup, Pause, acctVars, MailOK, Disturbances
  <2>3. AccountOK'
    BY <1>8 DEF Deadline, Spend, Teardown, Hangup, Pause, acctVars, AccountOK, Disturbances
  <2>4. NetOK'
    BY <1>8 DEF Deadline, Spend, Teardown, Hangup, Pause, acctVars, NetOK, Disturbances
  <2>5. LeftOK'
    BY <1>8 DEF Deadline, Spend, Teardown, Hangup, Pause, acctVars, LeftOK, Disturbances
  <2>. QED
    BY <2>1, <2>2, <2>3, <2>4, <2>5
<1>9. CASE TickClosed
  BY <1>9 DEF TickClosed, Lost, Teardown, Hangup, Goto, acctVars, RunOK, MailOK, AccountOK, NetOK,
     LeftOK, Disturbances
<1>10. CASE TickSilent
  BY <1>10 DEF TickSilent, Lost, Teardown, Hangup, Goto, acctVars, RunOK, MailOK, AccountOK, NetOK,
     LeftOK, Disturbances
<1>11. CASE PingAnswered
  BY <1>11 DEF PingAnswered, acctVars, netVars, RunOK, MailOK, AccountOK, NetOK, LeftOK, Disturbances
<1>12. CASE PingFails
  BY <1>12 DEF PingFails, Spend, acctVars, netVars, RunOK, MailOK, AccountOK, NetOK, LeftOK, Disturbances
<1>13. CASE ProbeOver
  BY <1>13 DEF ProbeOver, acctVars, netVars, RunOK, MailOK, AccountOK, NetOK, LeftOK, Disturbances
<1>14. CASE ProbeLost
  BY <1>14 DEF ProbeLost, Lost, Teardown, Hangup, Goto, acctVars, RunOK, MailOK, AccountOK, NetOK,
     LeftOK, Disturbances
<1>15. CASE ManualKick
  BY <1>15 DEF ManualKick, TakeKick, Goto, Teardown, Hangup, acctVars, RunOK, MailOK, AccountOK,
     NetOK, LeftOK, Disturbances
<1>16. CASE OtherKick
  <2>1. RunOK'
    BY <1>16 DEF OtherKick, TakeKick, Goto, runVars, acctVars, netVars, RunOK, Disturbances
  <2>2. MailOK'
    BY <1>16 DEF OtherKick, TakeKick, Goto, runVars, acctVars, netVars, MailOK, Disturbances
  <2>3. AccountOK'
    BY <1>16 DEF OtherKick, TakeKick, Goto, runVars, acctVars, netVars, AccountOK, Disturbances
  <2>4. NetOK'
    BY <1>16 DEF OtherKick, TakeKick, Goto, runVars, acctVars, netVars, NetOK, Disturbances
  <2>5. LeftOK'
    BY <1>16 DEF OtherKick, TakeKick, Goto, runVars, acctVars, netVars, LeftOK, Disturbances
  <2>. QED
    BY <2>1, <2>2, <2>3, <2>4, <2>5
<1>17. CASE Timer
  BY <1>17 DEF Timer, Goto, acctVars, netVars, RunOK, MailOK, AccountOK, NetOK, LeftOK, Disturbances
<1>18. CASE GoneEnds
  BY <1>18 DEF GoneEnds, Goto, netVars, RunOK, MailOK, AccountOK, NetOK, LeftOK, Disturbances
<1>19. CASE LoginSkipped
  BY <1>19 DEF LoginSkipped, Goto, acctVars, netVars, RunOK, MailOK, AccountOK, NetOK, LeftOK,
     Disturbances
<1>20. CASE LoginConnects
  BY <1>20 DEF LoginConnects, acctVars, RunOK, MailOK, AccountOK, NetOK, LeftOK, Disturbances
<1>21. CASE LoginFails
  BY <1>21 DEF LoginFails, Spend, Hangup, acctVars, RunOK, MailOK, AccountOK, NetOK, LeftOK, Disturbances
<1>22. CASE Scan
  <2>1. RunOK'
    BY <1>22 DEF Scan, Spend, Hangup, Goto, RunOK, Disturbances
  <2>2. MailOK'
    BY <1>22 DEF Scan, Spend, Hangup, Goto, MailOK, Disturbances
  <2>3. AccountOK'
    BY <1>22 DEF Scan, Spend, Hangup, Goto, AccountOK, Disturbances
  <2>4. NetOK'
    BY <1>22 DEF Scan, Hangup, Goto, RunOK, NetOK, Clients
  <2>5. LeftOK'
    BY <1>22 DEF Scan, Spend, Hangup, Goto, LeftOK, Disturbances
  <2>. QED
    BY <2>1, <2>2, <2>3, <2>4, <2>5
<1>23. CASE ScanTooLate
  <2>1. RunOK'
    BY <1>23 DEF ScanTooLate, Spend, Hangup, Goto, RunOK, Disturbances
  <2>2. MailOK'
    BY <1>23 DEF ScanTooLate, Spend, Hangup, Goto, MailOK, Disturbances
  <2>3. AccountOK'
    BY <1>23 DEF ScanTooLate, Spend, Hangup, Goto, AccountOK, Disturbances
  <2>4. NetOK'
    BY <1>23 DEF ScanTooLate, Hangup, Goto, RunOK, NetOK, Clients
  <2>5. LeftOK'
    BY <1>23 DEF ScanTooLate, Spend, Hangup, Goto, LeftOK, Disturbances
  <2>. QED
    BY <2>1, <2>2, <2>3, <2>4, <2>5
<1>24. CASE LoginEnds
  BY <1>24 DEF LoginEnds, Hangup, Goto, acctVars, RunOK, MailOK, AccountOK, NetOK, LeftOK, Disturbances
<1>25. CASE LoginAgain
  BY <1>25 DEF LoginAgain, Goto, acctVars, netVars, RunOK, MailOK, AccountOK, NetOK, LeftOK, Disturbances
<1>26. CASE PairingDeadline
  <2>1. RunOK'
    BY <1>26 DEF PairingDeadline, Spend, Teardown, Hangup, Goto, acctVars, RunOK, Disturbances
  <2>2. MailOK'
    BY <1>26 DEF PairingDeadline, Spend, Teardown, Hangup, Goto, acctVars, MailOK, Disturbances
  <2>3. AccountOK'
    BY <1>26 DEF PairingDeadline, Spend, Teardown, Hangup, Goto, acctVars, AccountOK, Disturbances
  <2>4. NetOK'
    BY <1>26 DEF PairingDeadline, Spend, Teardown, Hangup, Goto, acctVars, NetOK, Disturbances
  <2>5. LeftOK'
    BY <1>26 DEF PairingDeadline, Spend, Teardown, Hangup, Goto, acctVars, LeftOK, Disturbances
  <2>. QED
    BY <2>1, <2>2, <2>3, <2>4, <2>5
<1>27. CASE \E e \in arriving : OnEvent(e)
  <2>. PICK e \in arriving : OnEvent(e)
    BY <1>27
  <2>1. CASE Connected(e)
    <3>1. RunOK'
      BY <2>1, OnlineType DEF Connected
    <3>2. MailOK'
      BY <2>1 DEF Connected, Take, GoOnline, netVars, acctVars, MailOK, Disturbances
    <3>3. AccountOK'
      BY <2>1 DEF Connected, Take, GoOnline, netVars, acctVars, AccountOK, Disturbances
    <3>4. NetOK'
      BY <2>1 DEF Connected, Take, GoOnline, netVars, acctVars, NetOK, Disturbances
    <3>5. LeftOK'
      BY <2>1 DEF Connected, Take, GoOnline, netVars, acctVars, LeftOK, Disturbances
    <3>. QED
      BY <3>1, <3>2, <3>3, <3>4, <3>5
  <2>2. CASE FatalEvent(e)
    BY <2>2 DEF FatalEvent, Take, Teardown, Hangup, Ends, Pause, Hold, acctVars, RunOK, MailOK,
       AccountOK, NetOK, LeftOK, Disturbances
  <2>3. CASE ClosedWhileDialing(e)
    BY <2>3 DEF ClosedWhileDialing, Take, Teardown, Hangup, Pause, acctVars, RunOK, MailOK,
       AccountOK, NetOK, LeftOK, Disturbances
  <2>4. CASE LostEvent(e)
    BY <2>4 DEF LostEvent, Take, Lost, Teardown, Hangup, Goto, acctVars, RunOK, MailOK, AccountOK,
       NetOK, LeftOK, Disturbances
  <2>5. CASE Adopt(e)
    <3>1. RunOK'
      BY <2>5, OnlineType DEF Adopt
    <3>2. MailOK'
      BY <2>5 DEF Adopt, Take, GoOnline, netVars, acctVars, MailOK, Disturbances
    <3>3. AccountOK'
      BY <2>5 DEF Adopt, Take, GoOnline, netVars, acctVars, AccountOK, Disturbances
    <3>4. NetOK'
      BY <2>5 DEF Adopt, Take, GoOnline, netVars, acctVars, NetOK, Disturbances
    <3>5. LeftOK'
      BY <2>5 DEF Adopt, Take, GoOnline, netVars, acctVars, LeftOK, Disturbances
    <3>. QED
      BY <3>1, <3>2, <3>3, <3>4, <3>5
  <2>6. CASE Paired(e)
    <3>1. RunOK'
      BY <2>6, OnlineType DEF Paired
    <3>2. MailOK'
      BY <2>6 DEF Paired, Take, GoOnline, netVars, acctVars, MailOK, Disturbances
    <3>3. AccountOK'
      BY <2>6 DEF Paired, Take, GoOnline, netVars, acctVars, AccountOK, Disturbances
    <3>4. NetOK'
      BY <2>6 DEF Paired, Take, GoOnline, netVars, acctVars, NetOK, Disturbances
    <3>5. LeftOK'
      BY <2>6 DEF Paired, Take, GoOnline, netVars, acctVars, LeftOK, Disturbances
    <3>. QED
      BY <3>1, <3>2, <3>3, <3>4, <3>5
  <2>7. CASE DropEvent(e)
    BY <2>7 DEF DropEvent, Take, runVars, netVars, acctVars, RunOK, MailOK, AccountOK, NetOK,
       LeftOK, Disturbances
  <2>. QED
    BY <2>1, <2>2, <2>3, <2>4, <2>5, <2>6, <2>7 DEF OnEvent
<1>. QED
  BY <1>1, <1>2, <1>3, <1>4, <1>5, <1>6, <1>7, <1>8, <1>9, <1>10, <1>11, <1>12, <1>13, <1>14, <1>15,
     <1>16, <1>17, <1>18, <1>19, <1>20, <1>21, <1>22, <1>23, <1>24, <1>25, <1>26, <1>27 DEF RunStep

LEMMA IsWipe ==
    ASSUME NEW c \in Clients, NEW b \in BOOLEAN
    PROVE  [from |-> c, asked |-> b] \in [from : Clients, asked : BOOLEAN]
OBVIOUS

LEMMA NetStepType ==
    ASSUME TypeOK, NetStep
    PROVE  TypeOK'
<1>. SUFFICES RunOK' /\ MailOK' /\ AccountOK' /\ NetOK' /\ LeftOK'
  BY TypePartsNext
<1>. RunOK /\ MailOK /\ AccountOK /\ NetOK /\ LeftOK
  BY TypeParts
<1>1. CASE \E c \in Clients : 
         \/ Success(c) \/ UnpairedCloses(c) \/ ServerCloses(c) \/ ServerRefuses(c)
         \/ Replaced(c) \/ RemoteLogout(c) \/ LineDies(c) \/ KeepAliveTimeout(c)
  <2>. PICK c \in Clients :
         \/ Success(c) \/ UnpairedCloses(c) \/ ServerCloses(c) \/ ServerRefuses(c)
         \/ Replaced(c) \/ RemoteLogout(c) \/ LineDies(c) \/ KeepAliveTimeout(c)
    BY <1>1
  <2>1. CASE Success(c)
    BY <2>1 DEF Success, acctVars, runVars, Arrives, Event, Events, Fatal, RunOK, MailOK, AccountOK,
       NetOK, LeftOK, Disturbances
  <2>2. CASE UnpairedCloses(c)
    BY <2>2 DEF UnpairedCloses, Drops, Hangup, acctVars, runVars, Arrives, Event, Events, Fatal,
       RunOK, MailOK, AccountOK, NetOK, LeftOK, Disturbances
  <2>3. CASE ServerCloses(c)
    BY <2>3 DEF ServerCloses, Spend, Drops, Hangup, acctVars, runVars, Arrives, Event, Events,
       Fatal, RunOK, MailOK, AccountOK, NetOK, LeftOK, Disturbances
  <2>4. CASE ServerRefuses(c)
    BY <2>4 DEF ServerRefuses, Spend, Drops, Hangup, acctVars, runVars, Arrives, Event, Events,
       Fatal, RunOK, MailOK, AccountOK, NetOK, LeftOK, Disturbances
  <2>5. CASE Replaced(c)
    BY <2>5 DEF Replaced, Spend, Drops, Hangup, acctVars, runVars, Arrives, Event, Events, Fatal,
       RunOK, MailOK, AccountOK, NetOK, LeftOK, Disturbances
  <2>6. CASE RemoteLogout(c)
    <3>1. RunOK'
      BY <2>6 DEF RemoteLogout, Spend, Drops, Hangup, runVars, Arrives, Event, Events, Fatal,
         Disturbances, RunOK
    <3>2. MailOK'
      BY <2>6 DEF RemoteLogout, Spend, Drops, Hangup, runVars, Arrives, Event, Events, Fatal,
         Disturbances, MailOK
    <3>3. AccountOK'
      <4>1. device' \in [Clients -> BOOLEAN]
        BY <2>6 DEF RemoteLogout, AccountOK
      <4>2. wipes' \subseteq [from : Clients, asked : BOOLEAN]
        BY <2>6, IsWipe, FALSE \in BOOLEAN DEF RemoteLogout, AccountOK
      <4>. QED
        BY <2>6, <4>1, <4>2 DEF RemoteLogout, AccountOK
    <3>4. NetOK'
      BY <2>6 DEF RemoteLogout, Spend, Drops, Hangup, runVars, Arrives, Event, Events, Fatal,
         Disturbances, NetOK
    <3>5. LeftOK'
      BY <2>6 DEF RemoteLogout, Spend, Drops, Hangup, runVars, Arrives, Event, Events, Fatal,
         Disturbances, LeftOK
    <3>. QED
      BY <3>1, <3>2, <3>3, <3>4, <3>5
  <2>7. CASE LineDies(c)
    BY <2>7 DEF LineDies, Spend, acctVars, runVars, Arrives, Event, Events, Fatal, RunOK, MailOK,
       AccountOK, NetOK, LeftOK, Disturbances
  <2>8. CASE KeepAliveTimeout(c)
    BY <2>8 DEF KeepAliveTimeout, acctVars, netVars, runVars, Arrives, Event, Events, Fatal, RunOK,
       MailOK, AccountOK, NetOK, LeftOK, Disturbances
  <2>. QED
    BY <2>1, <2>2, <2>3, <2>4, <2>5, <2>6, <2>7, <2>8
<1>2. CASE Quiet
  BY <1>2 DEF Quiet, acctVars, netVars, runVars, RunOK, MailOK, AccountOK, NetOK, LeftOK, Disturbances
<1>3. CASE Frame
  BY <1>3 DEF Frame, acctVars, netVars, runVars, RunOK, MailOK, AccountOK, NetOK, LeftOK, Disturbances
<1>4. CASE PairReconnect
  <2>1. RunOK'
    BY <1>4 DEF PairReconnect, Spend, Dialed, acctVars, runVars, Clients, Disturbances, RunOK
  <2>2. MailOK'
    BY <1>4 DEF PairReconnect, Spend, Dialed, acctVars, runVars, Clients, Disturbances, MailOK
  <2>3. AccountOK'
    BY <1>4 DEF PairReconnect, Spend, Dialed, acctVars, runVars, Clients, Disturbances, AccountOK
  <2>4. NetOK'
    <3>1. pairing' \in 0..MaxClient /\ pairing \in Clients
      BY <1>4, ClientAssumption DEF PairReconnect, NetOK, Clients
    <3>2. socket' \in [Clients -> {"none", "open", "up"}]
      BY <1>4, <3>1 DEF PairReconnect, Dialed, NetOK
    <3>. QED
      BY <1>4, <3>1, <3>2 DEF PairReconnect, NetOK
  <2>5. LeftOK'
    BY <1>4 DEF PairReconnect, Spend, Dialed, acctVars, runVars, Clients, Disturbances, LeftOK
  <2>. QED
    BY <2>1, <2>2, <2>3, <2>4, <2>5
<1>5. CASE RouteChanges
  BY <1>5 DEF RouteChanges, Spend, acctVars, runVars, RunOK, MailOK, AccountOK, NetOK, LeftOK,
     Disturbances
<1>6. CASE Kick
  <2>1. RunOK'
    BY <1>6 DEF Kick, Spend, acctVars, netVars, runVars, Disturbances, RunOK
  <2>2. MailOK'
    BY <1>6 DEF Kick, Spend, acctVars, netVars, runVars, Disturbances, MailOK
  <2>3. AccountOK'
    BY <1>6 DEF Kick, Spend, acctVars, netVars, runVars, Disturbances, AccountOK
  <2>4. NetOK'
    BY <1>6 DEF Kick, Spend, acctVars, netVars, runVars, Disturbances, NetOK
  <2>5. LeftOK'
    BY <1>6 DEF Kick, Spend, acctVars, netVars, runVars, Disturbances, LeftOK
  <2>. QED
    BY <2>1, <2>2, <2>3, <2>4, <2>5
<1>. QED
  BY <1>1, <1>2, <1>3, <1>4, <1>5, <1>6 DEF NetStep

LEMMA AccountStepType ==
    ASSUME TypeOK, AccountStep
    PROVE  TypeOK'
<1>. SUFFICES RunOK' /\ MailOK' /\ AccountOK' /\ NetOK' /\ LeftOK'
  BY TypePartsNext
<1>. RunOK /\ MailOK /\ AccountOK /\ NetOK /\ LeftOK
  BY TypeParts
<1>1. CASE Logout
  <2>1. RunOK'
    BY <1>1 DEF Logout, Spend, Hangup, runVars, AccountOK, Disturbances, RunOK
  <2>2. MailOK'
    BY <1>1 DEF Logout, Spend, Hangup, runVars, AccountOK, Disturbances, MailOK
  <2>3. AccountOK'
    <3>1. device' \in [Clients -> BOOLEAN]
      BY <1>1 DEF Logout, AccountOK
    <3>2. wipes' \subseteq [from : Clients, asked : BOOLEAN]
      BY <1>1, IsWipe, TRUE \in BOOLEAN DEF Logout, AccountOK
    <3>. QED
      BY <1>1, <3>1, <3>2 DEF Logout, AccountOK
  <2>4. NetOK'
    BY <1>1 DEF Logout, Spend, Hangup, runVars, AccountOK, Disturbances, NetOK
  <2>5. LeftOK'
    BY <1>1 DEF Logout, Spend, Hangup, runVars, AccountOK, Disturbances, LeftOK
  <2>. QED
    BY <2>1, <2>2, <2>3, <2>4, <2>5
<1>2. ASSUME NEW w \in wipes, WipeClears(w)
      PROVE  RunOK' /\ MailOK' /\ AccountOK' /\ NetOK' /\ LeftOK'
  <2>1. w.from \in Clients /\ w.from \in 0..MaxClient
    BY DEF AccountOK, Clients
  <2>2. AccountOK'
    <3>1. device' \in [Clients -> BOOLEAN] /\ wiping' \in 0..MaxClient
      BY <1>2, <2>1 DEF WipeClears, AccountOK
    <3>. QED
      BY <1>2, <3>1 DEF WipeClears, AccountOK
  <2>3. NetOK'
    BY <1>2 DEF WipeClears, Hangup, NetOK
  <2>4. RunOK' /\ MailOK'
    BY <1>2 DEF WipeClears, runVars, RunOK, MailOK
  <2>5. LeftOK'
    BY <1>2, Spent DEF WipeClears, LeftOK, Disturbances
  <2>. QED
    BY <2>2, <2>3, <2>4, <2>5
<1>5. ASSUME NEW w \in wipes, WipeIdle(w)
      PROVE  RunOK' /\ MailOK' /\ AccountOK' /\ NetOK' /\ LeftOK'
  BY <1>5 DEF WipeIdle, runVars, netVars, RunOK, MailOK, AccountOK, NetOK, LeftOK
<1>3. CASE WipeFails
  <2>1. RunOK'
    BY <1>3 DEF WipeFails, Spend, runVars, netVars, Disturbances, RunOK
  <2>2. MailOK'
    BY <1>3 DEF WipeFails, Spend, runVars, netVars, Disturbances, MailOK
  <2>3. AccountOK'
    <3>1. wiping' \in 0..MaxClient
      BY <1>3, ClientAssumption DEF WipeFails
    <3>2. session' \in [Clients -> BOOLEAN]
      BY <1>3 DEF WipeFails, AccountOK
    <3>. QED
      BY <1>3, <3>1, <3>2 DEF WipeFails, AccountOK
  <2>4. NetOK'
    BY <1>3 DEF WipeFails, Spend, runVars, netVars, Disturbances, NetOK
  <2>5. LeftOK'
    BY <1>3 DEF WipeFails, Spend, runVars, netVars, Disturbances, LeftOK
  <2>. QED
    BY <2>1, <2>2, <2>3, <2>4, <2>5
<1>4. CASE WipeEnds
  <2>1. RunOK'
    BY <1>4 DEF WipeEnds, runVars, netVars, Clients, RunOK
  <2>2. MailOK'
    BY <1>4 DEF WipeEnds, runVars, netVars, Clients, MailOK
  <2>3. AccountOK'
    <3>1. current' \in Clients
      BY <1>4, ClientAssumption DEF WipeEnds, AccountOK, Clients
    <3>2. session' \in [Clients -> BOOLEAN]
      BY <1>4 DEF WipeEnds, AccountOK
    <3>3. attached' \in BOOLEAN
      BY <1>4 DEF WipeEnds
    <3>4. wiping' \in 0..MaxClient
      BY <1>4, ClientAssumption DEF WipeEnds
    <3>. QED
      BY <1>4, <3>1, <3>2, <3>3, <3>4 DEF WipeEnds, AccountOK
  <2>4. NetOK'
    BY <1>4 DEF WipeEnds, runVars, netVars, Clients, NetOK
  <2>5. LeftOK'
    BY <1>4 DEF WipeEnds, runVars, netVars, Clients, LeftOK
  <2>. QED
    BY <2>1, <2>2, <2>3, <2>4, <2>5
<1>6. ASSUME NEW w \in wipes, WipeAborts(w)
      PROVE  RunOK' /\ MailOK' /\ AccountOK' /\ NetOK' /\ LeftOK'
  BY <1>6, Spent DEF WipeAborts, runVars, netVars, RunOK, MailOK, AccountOK, NetOK, Disturbances
<1>. QED
  BY <1>1, <1>2, <1>3, <1>4, <1>5, <1>6 DEF AccountStep

LEMMA TypeStep == TypeOK /\ [Next]_vars => TypeOK'
<1>. SUFFICES ASSUME TypeOK, [Next]_vars PROVE TypeOK'
  OBVIOUS
<1>1. CASE UNCHANGED vars
  BY <1>1 DEF vars, runVars, acctVars, netVars, TypeOK
<1>. QED
  BY <1>1, RunStepType, NetStepType, AccountStepType DEF Next

(* Every variable keeps its type.                                           *)
THEOREM SupervisorTypeSafe == Spec => []TypeOK
  BY InitType, TypeStep, PTL DEF Spec

-----------------------------------------------------------------------------
(* What holds however the account fails.  The machine has a socket of its   *)
(* own to tear down while it works; a login works with a client that has no *)
(* id; and silence while a session is up means that its line died.          *)
Working == phase \in {"dial", "online"} \/ (phase = "login" /\ dial = "returned")
LoginBare == Scanning => ~device[mine] /\ socket[mine] # "up"
UpIsHeard == quiet = 2 => \A c \in Clients : socket[c] = "up" => c \in dead

LineInv == TypeOK /\ LoginBare /\ UpIsHeard

(* What a step does to the sockets: the machine quits the one it has, goes  *)
(* on with it, or begins with the newest client's.                          *)
Quits == ~Working' /\ \A c \in Clients : IsConnected(c)' => IsConnected(c) /\ ~(c = mine /\ Working)
Same == /\ mine' = mine /\ Working' = Working
        /\ \A c \in Clients : IsConnected(c)' => IsConnected(c) \/ (c = mine /\ Working)
Begins == /\ ~Working /\ mine' = current
          /\ \A c \in Clients : IsConnected(c)' => IsConnected(c) \/ (c = current /\ Working')

(* No session comes up, no line is mended, no silence grows.                *)
UpKept == /\ \A c \in Clients : socket'[c] = "up" => socket[c] = "up" /\ (c \in dead => c \in dead')
          /\ quiet' \in {0, quiet}

AccountKept == /\ UNCHANGED <<current, device, session, wipes, wiping, pairing>>
               /\ mine' \in {mine, current}

Spends == UNCHANGED left \/ \E d \in Disturbances : Spend(d)
OnClient == phase \in {"dial", "online", "paired"}

(* What can not happen any more stays so.                                   *)
LEMMA SpentStays ==
    ASSUME LeftOK, Spends, NEW b \in Disturbances, left[b] = 0
    PROVE  left'[b] = 0
<1>1. ASSUME NEW d \in Disturbances, Spend(d)
      PROVE  left'[b] = 0
  BY <1>1, Spent DEF LeftOK
<1>. QED
  BY <1>1 DEF Spends

LEMMA RunAccount ==
    ASSUME RunStep
    PROVE  AccountKept \/ Scan \/ ScanTooLate
<1>1. CASE Start \/ NeedsLogin \/ NoNetwork \/ Timer \/ GoneEnds \/ LoginSkipped \/ LoginAgain
  BY <1>1 DEF Start, NeedsLogin, NoNetwork, Timer, GoneEnds, LoginSkipped, LoginAgain, Goto,
     acctVars, netVars, Pause, AccountKept
<1>2. CASE Connect \/ Dials \/ DialFails
  BY <1>2 DEF Connect, Dials, DialFails, acctVars, netVars, AccountKept
<1>3. CASE DialError \/ Deadline \/ PairingDeadline
  BY <1>3 DEF DialError, Deadline, PairingDeadline, Pause, acctVars, netVars, Goto, AccountKept
<1>4. CASE TickClosed \/ TickSilent \/ ProbeLost
  BY <1>4 DEF TickClosed, TickSilent, ProbeLost, Lost, Goto, acctVars, netVars, AccountKept
<1>5. CASE PingAnswered \/ PingFails \/ ProbeOver
  BY <1>5 DEF PingAnswered, PingFails, ProbeOver, acctVars, netVars, AccountKept
<1>6. CASE ManualKick \/ OtherKick
  BY <1>6 DEF ManualKick, OtherKick, Goto, acctVars, netVars, runVars, AccountKept
<1>7. CASE LoginConnects \/ LoginFails \/ LoginEnds
  BY <1>7 DEF LoginConnects, LoginFails, LoginEnds, acctVars, netVars, Goto, AccountKept
<1>8. CASE Scan \/ ScanTooLate
  BY <1>8
<1>9. CASE \E e \in arriving : OnEvent(e)
  <2>. PICK e \in arriving : OnEvent(e)
    BY <1>9
  <2>1. CASE Connected(e) \/ Adopt(e) \/ Paired(e)
    BY <2>1 DEF Connected, Adopt, Paired, GoOnline, acctVars, netVars, AccountKept
  <2>2. CASE FatalEvent(e) \/ ClosedWhileDialing(e) \/ LostEvent(e)
    BY <2>2 DEF FatalEvent, ClosedWhileDialing, LostEvent, Ends, Pause, Hold, Lost, Goto, acctVars, netVars,
       AccountKept
  <2>3. CASE DropEvent(e)
    BY <2>3 DEF DropEvent, runVars, acctVars, netVars, AccountKept
  <2>. QED
    BY <2>1, <2>2, <2>3 DEF OnEvent
<1>. QED
  BY <1>1, <1>2, <1>3, <1>4, <1>5, <1>6, <1>7, <1>8, <1>9 DEF RunStep

LEMMA RunSockets ==
    ASSUME RunOK, NetOK, current \in Clients, RunStep
    PROVE  (Quits \/ Same \/ Begins) /\ UpKept
<1>1. CASE Start \/ NeedsLogin \/ NoNetwork \/ Timer \/ GoneEnds \/ LoginSkipped \/ LoginAgain
  BY <1>1 DEF Start, NeedsLogin, NoNetwork, Timer, GoneEnds, LoginSkipped, LoginAgain, Goto,
     netVars, acctVars, Pause, Quits, Same, Begins, UpKept, Working, IsConnected, RunOK, NetOK
<1>2. CASE Connect \/ Dials \/ DialFails
  BY <1>2 DEF Connect, Dials, DialFails, acctVars, netVars, Dialed, Quits, Same, Begins, UpKept,
     Working, IsConnected, RunOK, NetOK
<1>3. CASE DialError \/ Deadline \/ PairingDeadline
  BY <1>3 DEF DialError, Deadline, PairingDeadline, Teardown, Hangup, Pause, acctVars, Goto, Quits,
     Same, Begins, UpKept, Working, IsConnected, RunOK, NetOK
<1>4. CASE TickClosed \/ TickSilent \/ ProbeLost
  BY <1>4 DEF TickClosed, TickSilent, ProbeLost, Lost, Teardown, Hangup, Goto, acctVars, Quits,
     Same, Begins, UpKept, Working, IsConnected, RunOK, NetOK
<1>5. CASE PingAnswered \/ PingFails \/ ProbeOver
  BY <1>5 DEF PingAnswered, PingFails, ProbeOver, acctVars, netVars, Quits, Same, Begins, UpKept,
     Working, IsConnected, RunOK, NetOK
<1>6. CASE ManualKick \/ OtherKick
  BY <1>6 DEF ManualKick, OtherKick, TakeKick, Goto, Teardown, Hangup, acctVars, runVars, netVars,
     Quits, Same, Begins, UpKept, Working, IsConnected, RunOK, NetOK
<1>7. CASE LoginConnects \/ LoginFails \/ LoginEnds
  BY <1>7 DEF LoginConnects, LoginFails, LoginEnds, acctVars, Hangup, Goto, Quits, Same, Begins,
     UpKept, Working, IsConnected, RunOK, NetOK
<1>8. CASE Scan \/ ScanTooLate
  BY <1>8 DEF Scan, ScanTooLate, Hangup, Goto, Quits, Same, Begins, UpKept, Working, IsConnected,
     RunOK, NetOK
<1>9. CASE \E e \in arriving : OnEvent(e)
  <2>. PICK e \in arriving : OnEvent(e)
    BY <1>9
  <2>1. CASE Connected(e) \/ Adopt(e) \/ Paired(e)
    BY <2>1 DEF Connected, Adopt, Paired, GoOnline, netVars, acctVars, Quits, Same, Begins, UpKept,
       Working, IsConnected, RunOK, NetOK
  <2>2. CASE FatalEvent(e) \/ ClosedWhileDialing(e) \/ LostEvent(e)
    BY <2>2 DEF FatalEvent, ClosedWhileDialing, LostEvent, Teardown, Hangup, Ends, Pause, Hold,
       Lost, Goto, acctVars, Quits, Same, Begins, UpKept, Working, IsConnected, RunOK, NetOK
  <2>3. CASE DropEvent(e)
    BY <2>3 DEF DropEvent, runVars, netVars, acctVars, Quits, Same, Begins, UpKept, Working,
       IsConnected, RunOK, NetOK
  <2>. QED
    BY <2>1, <2>2, <2>3 DEF OnEvent
<1>. QED
  BY <1>1, <1>2, <1>3, <1>4, <1>5, <1>6, <1>7, <1>8, <1>9 DEF RunStep

LEMMA RunMoves ==
    ASSUME RunOK, NetOK, RunStep
    PROVE  /\ arriving' \subseteq arriving /\ Spends
           /\ Scanning' => LoginConnects \/ (Scanning /\ UNCHANGED <<mine, device, socket>>)
           /\ phase' = "gone" => \/ phase = "gone"
                                \/ \E e \in arriving : FatalEvent(e) /\ e.evt = "logged_out"
           /\ OnClient => \/ socket'[mine] # "up" \/ (mine' = mine /\ OnClient')
                           \/ \E e \in arriving : Paired(e)
<1>1. CASE Start \/ NeedsLogin \/ NoNetwork \/ Timer \/ GoneEnds \/ LoginSkipped \/ LoginAgain
  BY <1>1 DEF Start, NeedsLogin, NoNetwork, Timer, GoneEnds, LoginSkipped, LoginAgain, Goto,
     netVars, acctVars, Pause, Spends, Scanning, OnClient, RunOK, NetOK, Disturbances, Take
<1>2. CASE Connect \/ Dials \/ DialFails
  BY <1>2 DEF Connect, Dials, DialFails, Late, acctVars, netVars, Dialed, Spends, Scanning,
     OnClient, RunOK, NetOK, Disturbances, Take
<1>3. CASE DialError \/ Deadline \/ PairingDeadline
  BY <1>3 DEF DialError, Deadline, PairingDeadline, Teardown, Hangup, Pause, acctVars, Goto, Spends,
     Scanning, OnClient, RunOK, NetOK, Disturbances, Take
<1>4. CASE TickClosed \/ TickSilent \/ ProbeLost
  BY <1>4 DEF TickClosed, TickSilent, ProbeLost, Lost, Teardown, Hangup, Goto, acctVars, Spends,
     Scanning, OnClient, RunOK, NetOK, Disturbances, Take
<1>5. CASE PingAnswered \/ PingFails \/ ProbeOver
  BY <1>5 DEF PingAnswered, PingFails, ProbeOver, acctVars, netVars, Spends, Scanning, OnClient,
     RunOK, NetOK, Disturbances, Take
<1>6. CASE ManualKick \/ OtherKick
  BY <1>6 DEF ManualKick, OtherKick, TakeKick, Goto, Teardown, Hangup, acctVars, runVars, netVars,
     Spends, Scanning, OnClient, RunOK, NetOK, Disturbances, Take
<1>7. CASE LoginConnects \/ LoginFails \/ LoginEnds
  BY <1>7 DEF LoginConnects, LoginFails, LoginEnds, acctVars, Hangup, Goto, Spends, Scanning,
     OnClient, RunOK, NetOK, Disturbances, Take
<1>8. CASE Scan \/ ScanTooLate
  BY <1>8 DEF Scan, ScanTooLate, Hangup, Goto, Spends, Scanning, OnClient, RunOK, NetOK,
     Disturbances, Take
<1>9. CASE \E e \in arriving : OnEvent(e)
  <2>. PICK e \in arriving : OnEvent(e)
    BY <1>9
  <2>1. CASE Connected(e) \/ Adopt(e) \/ Paired(e)
    BY <2>1 DEF Connected, Adopt, Paired, GoOnline, netVars, acctVars, Spends, Scanning, OnClient,
       RunOK, NetOK, Disturbances, Take
  <2>2. CASE FatalEvent(e) \/ ClosedWhileDialing(e) \/ LostEvent(e)
    BY <2>2 DEF FatalEvent, ClosedWhileDialing, LostEvent, Teardown, Hangup, Ends, Pause, Hold,
       Lost, Goto, acctVars, Spends, Scanning, OnClient, RunOK, NetOK, Disturbances, Take
  <2>3. CASE DropEvent(e)
    BY <2>3 DEF DropEvent, runVars, netVars, acctVars, Spends, Scanning, OnClient, RunOK, NetOK,
       Disturbances, Take
  <2>. QED
    BY <2>1, <2>2, <2>3 DEF OnEvent
<1>. QED
  BY <1>1, <1>2, <1>3, <1>4, <1>5, <1>6, <1>7, <1>8, <1>9 DEF RunStep

(* The network moves neither the machine nor the account, but for a phone   *)
(* that removes the device.                                                 *)
LEMMA NetAccount ==
    ASSUME NetStep
    PROVE  /\ UNCHANGED runVars /\ UNCHANGED <<current, session, wiping>>
           /\ UNCHANGED <<device, wipes>> \/ \E c \in Clients : RemoteLogout(c)
<1>1. CASE Quiet \/ Frame \/ PairReconnect \/ RouteChanges \/ Kick
  BY <1>1 DEF Quiet, Frame, PairReconnect, RouteChanges, Kick, acctVars
<1>2. ASSUME NEW c \in Clients,
             \/ Success(c) \/ UnpairedCloses(c) \/ ServerCloses(c) \/ ServerRefuses(c)
             \/ Replaced(c) \/ LineDies(c) \/ KeepAliveTimeout(c)
      PROVE  UNCHANGED runVars /\ UNCHANGED acctVars
  BY <1>2 DEF Success, UnpairedCloses, ServerCloses, ServerRefuses, Replaced, LineDies,
              KeepAliveTimeout
<1>3. ASSUME NEW c \in Clients, RemoteLogout(c)
      PROVE  UNCHANGED runVars /\ UNCHANGED <<current, session, wiping>>
  BY <1>3 DEF RemoteLogout
<1>. QED
  BY <1>1, <1>2, <1>3 DEF NetStep, acctVars

(* Nor does it open a socket, but for the reconnect after a pairing.        *)
LEMMA NetSockets ==
    ASSUME NetOK, quiet \in 0..2, UpIsHeard, NetStep
    PROVE  /\ \A c \in Clients : IsConnected(c)' => IsConnected(c) \/ (c = pairing /\ device[c])
           /\ UpIsHeard'
<1>. USE DEF NetOK, IsConnected, UpIsHeard
<1>1. ASSUME NEW c \in Clients, Success(c)
      PROVE  /\ \A d \in Clients : IsConnected(d)' => IsConnected(d)
             /\ UpIsHeard'
  BY <1>1 DEF Success
<1>2. ASSUME NEW c \in Clients,
             \/ UnpairedCloses(c) \/ ServerCloses(c) \/ ServerRefuses(c) \/ Replaced(c)
             \/ RemoteLogout(c)
      PROVE  /\ \A d \in Clients : IsConnected(d)' => IsConnected(d)
             /\ UpIsHeard'
  <2>1. Hangup(c) /\ UNCHANGED quiet
    BY <1>2 DEF UnpairedCloses, ServerCloses, ServerRefuses, Replaced, RemoteLogout, Drops
  <2>. QED
    BY <2>1 DEF Hangup
<1>3. ASSUME NEW c \in Clients, LineDies(c) \/ KeepAliveTimeout(c)
      PROVE  /\ \A d \in Clients : IsConnected(d)' => IsConnected(d)
             /\ UpIsHeard'
  BY <1>3 DEF LineDies, KeepAliveTimeout, netVars
<1>4. ASSUME Frame \/ RouteChanges \/ Kick
      PROVE  /\ \A d \in Clients : IsConnected(d)' => IsConnected(d)
             /\ UpIsHeard'
  BY <1>4 DEF Frame, RouteChanges, Kick, netVars
<1>5. ASSUME Quiet
      PROVE  /\ \A d \in Clients : IsConnected(d)' => IsConnected(d)
             /\ UpIsHeard'
  BY <1>5 DEF Quiet, netVars, Alive
<1>6. ASSUME PairReconnect
      PROVE  /\ \A c \in Clients : IsConnected(c)' => IsConnected(c) \/ (c = pairing /\ device[c])
             /\ UpIsHeard'
  BY <1>6 DEF PairReconnect, Dialed
<1>. QED
  BY <1>1, <1>2, <1>3, <1>4, <1>5, <1>6 DEF NetStep

LEMMA NetSpends ==
    ASSUME NetStep
    PROVE  Spends
<1>1. ASSUME NEW c \in Clients,
             \/ Success(c) \/ UnpairedCloses(c) \/ ServerCloses(c) \/ ServerRefuses(c)
             \/ Replaced(c) \/ RemoteLogout(c) \/ LineDies(c) \/ KeepAliveTimeout(c)
      PROVE  Spends
  BY <1>1 DEF Success, UnpairedCloses, ServerCloses, ServerRefuses, Replaced, RemoteLogout, LineDies,
              KeepAliveTimeout, Spends, Disturbances
<1>2. CASE Quiet \/ Frame \/ PairReconnect \/ RouteChanges \/ Kick
  BY <1>2 DEF Quiet, Frame, PairReconnect, RouteChanges, Kick, Spends, Disturbances
<1>. QED
  BY <1>1, <1>2 DEF NetStep

(* What the network's steps do to the reconnect that is owed, and which     *)
(* sessions come up.                                                        *)
LEMMA NetPairing ==
    ASSUME NetStep
    PROVE  pairing' \in {pairing, 0}
<1>1. ASSUME NEW c \in Clients,
             \/ Success(c) \/ UnpairedCloses(c) \/ ServerCloses(c) \/ ServerRefuses(c)
             \/ Replaced(c) \/ RemoteLogout(c) \/ LineDies(c) \/ KeepAliveTimeout(c)
      PROVE  pairing' \in {pairing, 0}
  BY <1>1 DEF Success, UnpairedCloses, ServerCloses, ServerRefuses, Replaced, RemoteLogout,
              LineDies, KeepAliveTimeout, Drops, netVars
<1>2. CASE Quiet \/ Frame \/ PairReconnect \/ RouteChanges \/ Kick
  BY <1>2 DEF Quiet, Frame, PairReconnect, RouteChanges, Kick, netVars
<1>. QED
  BY <1>1, <1>2 DEF NetStep

LEMMA NetUps ==
    ASSUME NetOK, NetStep, NEW d \in Clients, ~device[d], socket[d] # "up"
    PROVE  socket'[d] # "up"
<1>1. ASSUME NEW c \in Clients,
             \/ UnpairedCloses(c) \/ ServerCloses(c) \/ ServerRefuses(c) \/ Replaced(c)
             \/ RemoteLogout(c)
      PROVE  socket'[d] # "up"
  BY <1>1 DEF UnpairedCloses, ServerCloses, ServerRefuses, Replaced, RemoteLogout, Drops, Hangup,
              NetOK
<1>2. ASSUME NEW c \in Clients, Success(c) \/ LineDies(c) \/ KeepAliveTimeout(c)
      PROVE  socket'[d] # "up"
  BY <1>2 DEF Success, LineDies, KeepAliveTimeout, netVars, NetOK
<1>3. CASE Quiet \/ Frame \/ PairReconnect \/ RouteChanges \/ Kick
  BY <1>3 DEF Quiet, Frame, PairReconnect, RouteChanges, Kick, Dialed, netVars, NetOK
<1>. QED
  BY <1>1, <1>2, <1>3 DEF NetStep

(* The account's own steps: the machine is where it was, no socket opens,   *)
(* no id is saved, no event is sent.                                        *)
LEMMA AccountMoves ==
    ASSUME TypeOK, AccountStep
    PROVE  /\ UNCHANGED runVars /\ UNCHANGED <<phase, mine, dial, quiet, arriving, pairing>>
           /\ Spends
           /\ \A c \in Clients : /\ device'[c] => device[c]
                                 /\ socket'[c] \in {socket[c], "none"}
                                 /\ c \in dead /\ socket'[c] # "none" => c \in dead'
<1>0. AccountOK /\ NetOK
  BY TypeParts
<1>1. CASE Logout
  BY <1>0, <1>1 DEF Logout, Hangup, runVars, Spends, Disturbances, AccountOK, NetOK
<1>2. ASSUME NEW w \in wipes, WipeClears(w)
      PROVE  /\ UNCHANGED runVars /\ UNCHANGED <<phase, mine, dial, quiet, arriving, pairing>>
             /\ Spends
             /\ \A c \in Clients : /\ device'[c] => device[c]
                                   /\ socket'[c] \in {socket[c], "none"}
                                   /\ c \in dead /\ socket'[c] # "none" => c \in dead'
  BY <1>0, <1>2 DEF WipeClears, Hangup, runVars, Spends, Disturbances, AccountOK, NetOK
<1>3. ASSUME NEW w \in wipes, WipeIdle(w)
      PROVE  UNCHANGED runVars /\ UNCHANGED <<quiet, arriving, device, netVars, left>>
  BY <1>3 DEF WipeIdle
<1>4. CASE WipeFails \/ WipeEnds
  BY <1>4 DEF WipeFails, WipeEnds, Spends, Disturbances, runVars, netVars
<1>5. ASSUME NEW w \in wipes, WipeAborts(w)
      PROVE  UNCHANGED runVars /\ UNCHANGED <<quiet, arriving, device, netVars>> /\ Spends
  BY <1>5 DEF WipeAborts, Spends, Disturbances
<1>. QED
  BY <1>1, <1>2, <1>3, <1>4, <1>5 DEF AccountStep, runVars, netVars, Spends

LEMMA LineInit == Init => LineInv
BY InitType DEF Init, LineInv, LoginBare, Scanning, UpIsHeard

LEMMA LineStep == LineInv /\ [Next]_vars => LineInv'
<1>. SUFFICES ASSUME LineInv, [Next]_vars PROVE LoginBare' /\ UpIsHeard'
  BY TypeStep DEF LineInv
<1>0. TypeOK /\ RunOK /\ AccountOK /\ NetOK
  BY TypeParts DEF LineInv
<1>1. CASE RunStep
  <2>1. UpKept
    BY <1>0, <1>1, RunSockets DEF AccountOK
  <2>2. UpIsHeard'
    BY <1>0, <2>1 DEF UpKept, RunOK, LineInv, UpIsHeard
  <2>3. Scanning' => LoginConnects \/ (Scanning /\ UNCHANGED <<mine, device, socket>>)
    BY <1>0, <1>1, RunMoves
  <2>4. LoginConnects => LoginBare'
    BY <1>0 DEF LoginConnects, LoginBare, Scanning, NetOK, AccountOK, acctVars
  <2>. QED
    BY <2>2, <2>3, <2>4 DEF LineInv, LoginBare
<1>2. CASE NetStep
  <2>1. UpIsHeard'
    BY <1>0, <1>2, NetSockets DEF RunOK, LineInv
  <2>2. UNCHANGED <<phase, dial, mine>>
    BY <1>2, NetAccount DEF runVars
  <2>3. Scanning => ~device'[mine]
    <3>1. CASE UNCHANGED device
      BY <3>1 DEF LineInv, LoginBare
    <3>2. ASSUME NEW c \in Clients, RemoteLogout(c)
          PROVE  Scanning => ~device'[mine]
      BY <1>0, <3>2 DEF RemoteLogout, LineInv, LoginBare, AccountOK, RunOK
    <3>. QED
      BY <1>2, <3>1, <3>2, NetAccount
  <2>4. Scanning => socket'[mine] # "up"
    BY <1>0, <1>2, NetUps DEF LineInv, LoginBare, RunOK
  <2>. QED
    BY <2>1, <2>2, <2>3, <2>4 DEF LoginBare, Scanning
<1>3. CASE AccountStep
  <2>1. /\ UNCHANGED <<phase, dial, mine, quiet>>
        /\ \A c \in Clients : /\ device'[c] => device[c]
                              /\ socket'[c] \in {socket[c], "none"}
                              /\ c \in dead /\ socket'[c] # "none" => c \in dead'
    BY <1>0, <1>3, AccountMoves
  <2>. QED
    BY <1>0, <2>1 DEF LineInv, LoginBare, UpIsHeard, Scanning, RunOK
<1>4. CASE UNCHANGED vars
  BY <1>4 DEF vars, runVars, acctVars, netVars, LineInv, LoginBare, UpIsHeard, Scanning
<1>. QED
  BY <1>1, <1>2, <1>3, <1>4 DEF Next

LEMMA LineInvariant == Spec => []LineInv
BY LineInit, LineStep, PTL DEF Spec

-----------------------------------------------------------------------------
(* While nobody pairs, every socket is the machine's own, whatever fails.   *)
Alone ==
    /\ left["scan"] = 0 /\ pairing = 0
    /\ \A c \in Clients : IsConnected(c) => c = mine /\ Working

LEMMA AloneStep ==
    ASSUME LineInv, Alone, [Next]_vars
    PROVE  Alone'
<1>0. TypeOK /\ RunOK /\ AccountOK /\ NetOK /\ LeftOK /\ "scan" \in Disturbances
  BY TypeParts DEF LineInv, Disturbances
<1>1. CASE RunStep
  <2>1. AccountKept
    BY <1>0, <1>1, RunAccount, Spent DEF Alone, Scan, ScanTooLate
  <2>2. left'["scan"] = 0
    BY <1>0, <1>1, RunMoves, SpentStays DEF Alone
  <2>3. Quits \/ Same \/ Begins
    BY <1>0, <1>1, RunSockets DEF AccountOK
  <2>. QED
    BY <2>1, <2>2, <2>3 DEF Alone, AccountKept, Quits, Same, Begins
<1>2. CASE NetStep
  <2>1. UNCHANGED <<mine, Working>>
    BY <1>2, NetAccount DEF runVars, Working
  <2>2. \A c \in Clients : IsConnected(c)' => IsConnected(c)
    BY <1>0, <1>2, NetSockets DEF LineInv, RunOK, Alone, Clients
  <2>3. pairing' = 0
    BY <1>2, NetPairing DEF Alone
  <2>4. left'["scan"] = 0
    BY <1>0, <1>2, NetSpends, SpentStays DEF Alone
  <2>. QED
    BY <2>1, <2>2, <2>3, <2>4 DEF Alone
<1>3. CASE AccountStep
  <2>1. /\ UNCHANGED <<phase, dial, mine, pairing>> /\ Spends
        /\ \A c \in Clients : socket'[c] \in {socket[c], "none"}
    BY <1>0, <1>3, AccountMoves
  <2>2. left'["scan"] = 0
    BY <1>0, <2>1, SpentStays DEF Alone
  <2>. QED
    BY <2>1, <2>2 DEF Alone, IsConnected, Working
<1>4. CASE UNCHANGED vars
  BY <1>4 DEF vars, runVars, acctVars, netVars, Alone, IsConnected, Working
<1>. QED
  BY <1>1, <1>2, <1>3, <1>4 DEF Next

-----------------------------------------------------------------------------
(* While every wipe deletes the id it should, a client has an id, or a      *)
(* store behind it, only while it is the newest; not while a wipe clears    *)
(* one or one of an older client waits; and not while the machine works     *)
(* with an older one.                                                       *)
OnlyNewest == \A c \in Clients : device[c] \/ session[c] => c = current
WipedHasNoId == wiping # 0 \/ (\E w \in wipes : w.from # current) => ~device[current]
OldHasNone == mine # current => ~device[current]

(* A socket is the machine's own, or that of the newest client, which has   *)
(* an id: the one whatsmeow opens by itself after a pairing.                *)
Held == \A c \in Clients : IsConnected(c) => (c = mine /\ Working) \/ (c = current /\ device[c])

Deleting == left["undeleted"] = 0 /\ OnlyNewest /\ WipedHasNoId /\ OldHasNone /\ Held

LEMMA NewestStep ==
    ASSUME TypeOK, Deleting, [Next]_vars
    PROVE  OnlyNewest' /\ WipedHasNoId' /\ OldHasNone'
<1>. USE DEF Deleting, OnlyNewest, WipedHasNoId, OldHasNone
<1>0. RunOK /\ AccountOK /\ LeftOK
  BY TypeParts
<1>1. CASE RunStep
  <2>1. CASE AccountKept
    BY <2>1 DEF AccountKept
  <2>2. CASE Scan \/ ScanTooLate
    <3>1. /\ wipes = {} /\ wiping = 0 /\ mine' = mine
          /\ UNCHANGED <<current, session, wipes, wiping>>
      BY <2>2 DEF Scan, ScanTooLate, Goto
    <3>2. UNCHANGED device \/ (session[mine] /\ device' = [device EXCEPT ![mine] = TRUE])
      BY <2>2 DEF Scan, ScanTooLate
    <3>. QED
      BY <1>0, <3>1, <3>2 DEF RunOK, AccountOK
  <2>. QED
    BY <1>1, <2>1, <2>2, RunAccount
<1>2. CASE NetStep
  <2>1. UNCHANGED <<mine, current, session, wiping>>
    BY <1>2, NetAccount DEF runVars
  <2>2. CASE UNCHANGED <<device, wipes>>
    BY <2>1, <2>2
  <2>3. ASSUME NEW c \in Clients, RemoteLogout(c)
        PROVE  OnlyNewest' /\ WipedHasNoId' /\ OldHasNone'
    BY <1>0, <2>1, <2>3 DEF RemoteLogout, AccountOK
  <2>. QED
    BY <1>2, <2>2, <2>3, NetAccount
<1>3. CASE AccountStep
  <2>1. UNCHANGED mine /\ \A c \in Clients : device'[c] => device[c]
    BY <1>3, AccountMoves
  <2>2. CASE Logout
    BY <1>0, <2>1, <2>2 DEF Logout, AccountOK
  <2>3. ASSUME NEW w \in wipes, WipeClears(w)
        PROVE  OnlyNewest' /\ WipedHasNoId' /\ OldHasNone'
    <3>1. UNCHANGED <<current, session>> /\ w.from \in Clients /\ current \in Clients
      BY <1>0, <2>3 DEF WipeClears, AccountOK
    <3>2. device' = [device EXCEPT ![w.from] = FALSE]
      BY <1>0, <2>3, Spent DEF WipeClears, Disturbances
    <3>3. ~device'[current]
      BY <1>0, <3>1, <3>2 DEF AccountOK
    <3>. QED
      BY <2>1, <3>1, <3>3
  <2>4. ASSUME NEW w \in wipes, WipeIdle(w) \/ WipeAborts(w)
        PROVE  OnlyNewest' /\ WipedHasNoId' /\ OldHasNone'
    BY <2>1, <2>4 DEF WipeIdle, WipeAborts
  <2>5. CASE WipeFails
    BY <1>0, <2>1, <2>5 DEF WipeFails, AccountOK
  <2>6. CASE WipeEnds
    <3>1. /\ current' = current + 1 /\ current' \in Clients /\ current \in Clients
          /\ UNCHANGED <<device, wipes>> /\ ~device[current]
      BY <1>0, <2>6, ClientAssumption DEF WipeEnds, AccountOK, Clients
    <3>2. \A c \in Clients : ~device'[c]
      BY <3>1
    <3>3. \A c \in Clients : session'[c] => c = current'
      BY <1>0, <2>6, <3>1 DEF WipeEnds, AccountOK
    <3>. QED
      BY <3>1, <3>2, <3>3
  <2>. QED
    BY <1>3, <2>2, <2>3, <2>4, <2>5, <2>6 DEF AccountStep
<1>4. CASE UNCHANGED vars
  BY <1>4 DEF vars, runVars, acctVars
<1>. QED
  BY <1>1, <1>2, <1>3, <1>4 DEF Next

LEMMA HeldStep ==
    ASSUME LineInv, Deleting, [Next]_vars
    PROVE  Held'
<1>. USE DEF Deleting, Held
<1>0. TypeOK /\ RunOK /\ AccountOK /\ NetOK
  BY TypeParts DEF LineInv
<1>1. CASE RunStep
  <2>1. /\ current' = current /\ \A c \in Clients : device[c] => device'[c]
    <3>1. CASE AccountKept
      BY <3>1 DEF AccountKept
    <3>2. CASE Scan \/ ScanTooLate
      BY <1>0, <3>2 DEF Scan, ScanTooLate, AccountOK
    <3>. QED
      BY <1>1, <3>1, <3>2, RunAccount
  <2>2. Quits \/ Same \/ Begins
    BY <1>0, <1>1, RunSockets DEF AccountOK
  <2>3. CASE Quits
    BY <2>1, <2>3 DEF Quits
  <2>4. CASE Same
    BY <2>1, <2>4 DEF Same
  <2>5. CASE Begins
    BY <2>1, <2>5 DEF Begins
  <2>. QED
    BY <2>2, <2>3, <2>4, <2>5
<1>2. CASE NetStep
  <2>1. UNCHANGED <<mine, current>> /\ Working' = Working
    BY <1>2, NetAccount DEF runVars, Working
  <2>2. \A c \in Clients : IsConnected(c)' => IsConnected(c) \/ (c = pairing /\ device[c])
    BY <1>0, <1>2, NetSockets DEF LineInv, RunOK
  <2>3. CASE UNCHANGED device
    BY <2>1, <2>2, <2>3 DEF OnlyNewest
  <2>4. ASSUME NEW c \in Clients, RemoteLogout(c)
        PROVE  Held'
    BY <1>0, <2>1, <2>4 DEF RemoteLogout, Drops, Hangup, IsConnected, NetOK, AccountOK
  <2>. QED
    BY <1>2, <2>3, <2>4, NetAccount
<1>3. CASE AccountStep
  <2>1. /\ UNCHANGED <<phase, dial, mine>> /\ Working' = Working
        /\ \A c \in Clients : IsConnected(c)' => IsConnected(c)
    BY <1>0, <1>3, AccountMoves DEF IsConnected, Working
  <2>2. ASSUME NEW c \in Clients, Hangup(c), device' \in {device, [device EXCEPT ![c] = FALSE]},
               UNCHANGED current
        PROVE  Held'
    BY <1>0, <2>1, <2>2 DEF Hangup, IsConnected, NetOK, AccountOK
  <2>3. CASE UNCHANGED <<current, device>>
    BY <2>1, <2>3
  <2>4. CASE Logout
    BY <1>0, <2>2, <2>3, <2>4 DEF Logout, AccountOK
  <2>5. ASSUME NEW w \in wipes, WipeClears(w)
        PROVE  Held'
    BY <1>0, <2>2, <2>5 DEF WipeClears, AccountOK
  <2>6. ASSUME NEW w \in wipes, WipeIdle(w) \/ WipeAborts(w)
        PROVE  Held'
    BY <2>3, <2>6 DEF WipeIdle, WipeAborts
  <2>7. CASE WipeFails
    BY <2>3, <2>7 DEF WipeFails
  <2>8. CASE WipeEnds
    <3>1. \A c \in Clients : IsConnected(c) => c = mine /\ Working
      BY <2>8 DEF WipeEnds, WipedHasNoId
    <3>. QED
      BY <2>1, <3>1
  <2>. QED
    BY <1>3, <2>4, <2>5, <2>6, <2>7, <2>8 DEF AccountStep
<1>4. CASE UNCHANGED vars
  BY <1>4 DEF vars, runVars, acctVars, netVars, IsConnected, Working
<1>. QED
  BY <1>1, <1>2, <1>3, <1>4 DEF Next

LEMMA DeletingStep ==
    ASSUME LineInv, Deleting, [Next]_vars
    PROVE  Deleting'
<1>1. LeftOK /\ "undeleted" \in Disturbances /\ RunOK /\ NetOK /\ TypeOK
  BY TypeParts DEF LineInv, Disturbances
<1>2. Spends
  BY <1>1, RunMoves, NetSpends, AccountMoves DEF Next, vars, Spends
<1>3. left'["undeleted"] = 0
  BY <1>1, <1>2, SpentStays DEF Deleting
<1>. QED
  BY <1>1, <1>3, NewestStep, HeldStep DEF Deleting

LEMMA DeletingInit == Init /\ left["undeleted"] = 0 => Deleting
<1>. SUFFICES ASSUME Init, left["undeleted"] = 0 PROVE Deleting
  OBVIOUS
<1>1. \A c \in Clients : (device[c] => c = 1) /\ (session[c] => c = 1)
  <2>1. PICK linked \in BOOLEAN : device = [c \in Clients |-> c = 1 /\ linked]
    BY Zenon DEF Init
  <2>2. session = [c \in Clients |-> c = 1]
    BY DEF Init
  <2>. QED
    BY <2>1, <2>2, Zenon
<1>2. OnlyNewest /\ WipedHasNoId /\ OldHasNone
  BY <1>1 DEF Init, OnlyNewest, WipedHasNoId, OldHasNone
<1>3. Held
  BY DEF Init, Held, IsConnected
<1>. QED
  BY <1>2, <1>3 DEF Deleting

SocketInv == LineInv /\ (Alone \/ Deleting)

LEMMA AtMostOne ==
    ASSUME NEW x, \A c \in Clients : IsConnected(c) => c = x
    PROVE  OneSocket
<1>. DEFINE S == {c \in Clients : IsConnected(c)}
<1>1. IsFiniteSet({x}) /\ Cardinality({x}) = 1
  BY FS_Singleton
<1>2. S \subseteq {x}
  OBVIOUS
<1>3. Cardinality(S) <= Cardinality({x}) /\ Cardinality(S) \in Nat
  BY <1>1, <1>2, FS_Subset, FS_CardinalityType
<1>. QED
  BY <1>1, <1>3 DEF OneSocket

(* One client at a time has a socket, through logouts and pairings: what    *)
(* the machine dials (connect, qrLogin) and what whatsmeow reconnects by    *)
(* itself never meet.  It holds if every wipe deletes the id it should or   *)
(* nobody pairs anew: an older client that kept its id may reconnect beside *)
(* the newest one.                                                          *)
THEOREM OneSocketOnly ==
    Spec /\ (left["undeleted"] = 0 \/ left["scan"] = 0) => []OneSocket
<1>1. Init /\ (left["undeleted"] = 0 \/ left["scan"] = 0) => SocketInv
  BY LineInit, DeletingInit DEF Init, SocketInv, Alone, IsConnected
<1>2. SocketInv /\ [Next]_vars => SocketInv'
  BY LineStep, AloneStep, DeletingStep DEF SocketInv
<1>3. SocketInv => OneSocket
  <2>. SUFFICES ASSUME SocketInv PROVE OneSocket
    OBVIOUS
  <2>1. \E x : \A c \in Clients : IsConnected(c) => c = x
    <3>1. CASE Alone
      BY <3>1 DEF Alone
    <3>2. CASE Deleting
      BY <3>2 DEF Deleting, Held, OldHasNone
    <3>. QED
      BY <3>1, <3>2 DEF SocketInv
  <2>. QED
    BY <2>1, AtMostOne
<1>. QED
  BY <1>1, <1>2, <1>3, PTL DEF Spec

(* A line that works is only given up because somebody asked, a ping of it  *)
(* failed, a keepalive timed out with nothing heard since, or whatsmeow     *)
(* said something final: not for a Disconnected of a socket already         *)
(* replaced, and not for want of frames (online).                           *)
THEOREM HealthyStays == Spec => HealthyKept
<1>1. LineInv /\ [Next]_vars
      => (phase = "online" /\ socket[mine] = "up" /\ Alive(mine) /\ phase' # "online"
          => \/ kicks \ kicks' = {"manual"} \/ probe = "failed"
             \/ \E e \in arriving \ arriving' :
                  e.cli = mine /\ (e.evt \in Fatal \/ (e.evt = "keepalive" /\ quiet > 0)))
  <2>. SUFFICES ASSUME LineInv, [Next]_vars,
                       phase = "online", socket[mine] = "up", Alive(mine), phase' # "online"
                PROVE  \/ kicks \ kicks' = {"manual"} \/ probe = "failed"
                       \/ \E e \in arriving \ arriving' :
                            e.cli = mine /\ (e.evt \in Fatal \/ (e.evt = "keepalive" /\ quiet > 0))
    OBVIOUS
  <2>1. quiet # 2 /\ IsConnected(mine)
    BY TypeParts DEF LineInv, UpIsHeard, Alive, IsConnected, RunOK
  <2>2. RunStep
    <3>1. CASE NetStep
      BY <3>1, NetAccount DEF runVars
    <3>2. CASE AccountStep
      BY <3>2, AccountMoves DEF LineInv
    <3>3. CASE UNCHANGED vars
      BY <3>3 DEF vars, runVars
    <3>. QED
      BY <3>1, <3>2, <3>3 DEF Next
  <2>3. CASE \E e \in arriving : OnEvent(e)
    <3>. PICK e \in arriving : OnEvent(e)
      BY <2>3
    <3>1. FatalEvent(e) \/ LostEvent(e)
      BY DEF OnEvent, Connected, ClosedWhileDialing, Adopt, Paired, DropEvent, runVars
    <3>2. e \in arriving \ arriving' /\ e.cli = mine
      BY <3>1 DEF FatalEvent, LostEvent, Closed, Take
    <3>3. e.evt \in Fatal \/ (e.evt = "keepalive" /\ quiet > 0)
      BY <2>1, <3>1 DEF FatalEvent, LostEvent, Closed
    <3>. QED
      BY <3>2, <3>3
  <2>4. CASE ManualKick
    BY <2>4 DEF ManualKick, TakeKick
  <2>5. CASE ProbeLost
    BY <2>5 DEF ProbeLost
  <2>6. ~(TickClosed \/ TickSilent)
    BY <2>1 DEF TickClosed, TickSilent
  <2>7. ~(\/ Start \/ NeedsLogin \/ NoNetwork \/ Connect \/ Dials \/ DialFails \/ DialError
          \/ Deadline)
    BY DEF Start, NeedsLogin, NoNetwork, Connect, Dials, DialFails, DialError, Deadline
  <2>8. ~(PingAnswered \/ PingFails \/ ProbeOver \/ OtherKick \/ Timer)
    BY DEF PingAnswered, PingFails, ProbeOver, OtherKick, Timer, runVars
  <2>9. ~(\/ GoneEnds \/ LoginSkipped \/ LoginConnects \/ LoginFails \/ Scan \/ ScanTooLate
          \/ LoginEnds \/ LoginAgain \/ PairingDeadline)
    BY DEF GoneEnds, LoginSkipped, LoginConnects, LoginFails, Scan, ScanTooLate, Scanning,
           LoginEnds, LoginAgain, PairingDeadline
  <2>. QED
    BY <2>2, <2>3, <2>4, <2>5, <2>6, <2>7, <2>8, <2>9 DEF RunStep
<1>. QED
  BY <1>1, LineInvariant, PTL DEF Spec, HealthyKept

-----------------------------------------------------------------------------
(* Who watches.  Clients are made in order, and an event is of one made.    *)
MadeOnly == mine <= current /\ \A e \in arriving : e.cli <= current

(* After a logout there is no id, until somebody pairs again.               *)
GoneBare == phase = "gone" => ~device[current]
LogoutTakesId == Event(current, "logged_out") \in arriving => ~device[current]

(* And nobody pairs the same client again: its wipe follows the logout.     *)
WipeFollows == Event(current, "logged_out") \in arriving
               => [from |-> current, asked |-> FALSE] \in wipes \/ wiping = current

WatchInv == /\ LineInv /\ Deleting /\ left["error"] = 0
            /\ MadeOnly /\ GoneBare /\ LogoutTakesId /\ WipeFollows /\ UpIsWatched

(* Only connect and the handlers of events take one away.                   *)
LEMMA RunTakes ==
    ASSUME RunStep, ~Connect, arriving' # arriving
    PROVE  \E e \in arriving : OnEvent(e)
<1>1. ASSUME \/ Start \/ NeedsLogin \/ NoNetwork \/ Dials \/ DialFails
             \/ DialError \/ Deadline \/ TickClosed
      PROVE  UNCHANGED arriving
  BY <1>1 DEF Start, NeedsLogin, NoNetwork, Dials, DialFails, DialError, Deadline, TickClosed
<1>2. ASSUME \/ TickSilent \/ PingAnswered \/ PingFails \/ ProbeOver \/ ProbeLost
             \/ ManualKick \/ OtherKick \/ Timer \/ GoneEnds
      PROVE  UNCHANGED arriving
  BY <1>2 DEF TickSilent, PingAnswered, PingFails, ProbeOver, ProbeLost, ManualKick, OtherKick,
     Timer, GoneEnds
<1>3. ASSUME \/ LoginSkipped \/ LoginConnects \/ LoginFails \/ Scan \/ ScanTooLate
             \/ LoginEnds \/ LoginAgain \/ PairingDeadline
      PROVE  UNCHANGED arriving
  BY <1>3 DEF LoginSkipped, LoginConnects, LoginFails, Scan, ScanTooLate, LoginEnds, LoginAgain,
     PairingDeadline
<1>. QED
  BY <1>1, <1>2, <1>3 DEF RunStep

LEMMA IsEvent ==
    ASSUME MailOK, NEW e \in arriving
    PROVE  e = Event(e.cli, e.evt)
BY DEF MailOK, Event

(* The machine's own steps.                                                 *)
LEMMA RunWatches ==
    ASSUME WatchInv, RunStep
    PROVE  MadeOnly' /\ GoneBare' /\ LogoutTakesId' /\ WipeFollows' /\ UpIsWatched'
<1>0. RunOK /\ MailOK /\ AccountOK /\ NetOK /\ LeftOK
  BY TypeParts DEF WatchInv, LineInv
<1>1. /\ arriving' \subseteq arriving /\ Spends
      /\ Scanning' => LoginConnects \/ (Scanning /\ UNCHANGED <<mine, device, socket>>)
      /\ phase' = "gone" => \/ phase = "gone"
                           \/ \E e \in arriving : FatalEvent(e) /\ e.evt = "logged_out"
      /\ OnClient => \/ socket'[mine] # "up" \/ (mine' = mine /\ OnClient')
                      \/ \E e \in arriving : Paired(e)
  BY <1>0, RunMoves
<1>2. AccountKept \/ Scan \/ ScanTooLate
  BY RunAccount
<1>3. UNCHANGED <<current, wipes, wiping>> /\ mine' \in {mine, current}
  BY <1>2 DEF AccountKept, Scan, ScanTooLate, Goto
<1>4. MadeOnly'
  BY <1>0, <1>1, <1>3 DEF WatchInv, MadeOnly, RunOK, AccountOK, Clients
<1>6. ASSUME Scan \/ ScanTooLate
      PROVE  GoneBare' /\ LogoutTakesId'
  <2>1. /\ wipes = {} /\ wiping = 0 /\ Spend("scan") /\ Scanning /\ phase' # "gone"
        /\ UNCHANGED arriving
    BY <1>6 DEF Scan, ScanTooLate, Goto
  <2>3. Event(current, "logged_out") \notin arriving
    BY <1>0, <2>1 DEF WatchInv, WipeFollows, AccountOK, Clients
  <2>. QED
    BY <1>3, <2>1, <2>3 DEF LogoutTakesId, GoneBare, Event
<1>7. ASSUME AccountKept
      PROVE  GoneBare' /\ LogoutTakesId'
  <2>1. UNCHANGED <<device, current>>
    BY <1>7 DEF AccountKept
  <2>2. ASSUME NEW e \in arriving, FatalEvent(e), e.evt = "logged_out"
        PROVE  ~device[current]
    <3>1. Event(mine, "logged_out") \in arriving
      BY <1>0, <2>2, IsEvent DEF FatalEvent
    <3>. QED
      BY <3>1 DEF WatchInv, LogoutTakesId, Deleting, OldHasNone
  <2>3. GoneBare'
    BY <1>1, <2>1, <2>2 DEF GoneBare, WatchInv
  <2>4. LogoutTakesId'
    BY <1>1, <2>1 DEF LogoutTakesId, WatchInv, Event
  <2>. QED
    BY <2>3, <2>4
<1>8. WipeFollows'
  BY <1>1, <1>3 DEF WatchInv, WipeFollows, Event
<1>9. ASSUME NEW c \in Clients, socket'[c] = "up"
      PROVE  Watched(c)'
  <2>1. socket[c] = "up" /\ IsConnected(c)
    BY <1>0, <1>9, RunSockets DEF UpKept, AccountOK, IsConnected
  <2>2. Watched(c)
    BY <2>1 DEF WatchInv, UpIsWatched
  <2>3. (c = mine /\ Working) \/ (c = current /\ device[c])
    BY <2>1 DEF WatchInv, Deleting, Held
  <2>4. ASSUME NEW e \in arriving, Paired(e), c = mine
        PROVE  Watched(c)'
    <3>1. c = current
      BY <2>3, <2>4 DEF Paired, Working
    <3>. QED
      BY <2>4, <3>1 DEF Paired, GoOnline, Watched
  <2>5. CASE mine = c /\ OnClient
    BY <1>1, <1>9, <2>4, <2>5 DEF Watched, OnClient
  <2>6. ASSUME Event(c, "connected") \in arriving, c = current, ~(mine = c /\ OnClient)
        PROVE  Watched(c)'
    <3>1. ~(Working /\ c = mine) /\ device[current]
      <4>1. ~(Working /\ c = mine)
        BY <2>1, <2>6 DEF Working, OnClient, WatchInv, LineInv, LoginBare, Scanning
      <4>. QED
        BY <2>3, <2>6, <4>1
    <3>2. mine = current /\ phase # "gone" /\ ~OnClient
      BY <2>6, <3>1 DEF WatchInv, GoneBare, Deleting, OldHasNone
    <3>3. CASE Event(c, "connected") \in arriving'
      BY <1>3, <2>6, <3>3 DEF Watched, Event
    <3>4. CASE Connect
      BY <2>6, <3>4 DEF Connect, Watched
    <3>5. ASSUME Event(c, "connected") \notin arriving', ~Connect
          PROVE  Adopt(Event(c, "connected"))
      <4>1. \E e \in arriving : OnEvent(e)
        BY <2>6, <3>2, <3>5, RunTakes
      <4>2. PICK e \in arriving : OnEvent(e)
        BY <4>1
      <4>3. e = Event(c, "connected")
        BY <2>6, <3>5, <4>2 DEF OnEvent, Connected, FatalEvent, ClosedWhileDialing, LostEvent,
                                Adopt, Paired, DropEvent, Take
      <4>4. e.cli = current /\ e.evt = "connected" /\ IsConnected(current)
        BY <2>1, <2>6, <4>3 DEF Event
      <4>5. Adopt(e)
        BY <3>2, <4>2, <4>4 DEF OnEvent, Connected, FatalEvent, ClosedWhileDialing, LostEvent,
                                Paired, DropEvent, Ignored, OnClient
      <4>. QED
        BY <4>3, <4>5
    <3>. QED
      BY <2>6, <3>3, <3>4, <3>5 DEF Adopt, GoOnline, Watched
  <2>. QED
    BY <2>2, <2>5, <2>6 DEF Watched, OnClient
<1>. QED
  BY <1>2, <1>4, <1>6, <1>7, <1>8, <1>9 DEF UpIsWatched

(* The network.                                                             *)
LEMMA NetWatches ==
    ASSUME WatchInv, NetStep
    PROVE  MadeOnly' /\ GoneBare' /\ LogoutTakesId' /\ WipeFollows' /\ UpIsWatched'
<1>0. RunOK /\ MailOK /\ AccountOK /\ NetOK /\ LeftOK
  BY TypeParts DEF WatchInv, LineInv
<1>1. UNCHANGED runVars /\ UNCHANGED <<phase, mine, dial, current, wiping>>
  BY NetAccount DEF runVars
<1>3. ASSUME NEW c \in Clients, NEW e \in Events, IsConnected(c), Arrives(c, e)
      PROVE  /\ MadeOnly'
             /\ e # "logged_out" =>
                (Event(current, "logged_out") \in arriving' => Event(current, "logged_out") \in arriving)
  <2>1. c <= current
    BY <1>0, <1>3 DEF WatchInv, Deleting, Held, MadeOnly, RunOK, AccountOK, Clients
  <2>. QED
    BY <1>1, <1>3, <2>1 DEF Arrives, Event, WatchInv, MadeOnly
<1>4. ASSUME NEW c \in Clients, Hangup(c), arriving \subseteq arriving',
             device' \in {device, [device EXCEPT ![c] = FALSE]}
      PROVE  GoneBare' /\ UpIsWatched'
  BY <1>0, <1>1, <1>4 DEF Hangup, WatchInv, GoneBare, UpIsWatched, Watched, Event, RunOK,
                          AccountOK, NetOK
<1>5. ASSUME UNCHANGED <<device, wipes>>, MadeOnly',
             Event(current, "logged_out") \in arriving' => Event(current, "logged_out") \in arriving
      PROVE  MadeOnly' /\ LogoutTakesId' /\ WipeFollows'
  BY <1>1, <1>5 DEF WatchInv, LogoutTakesId, WipeFollows, Event
<1>6. ASSUME NEW c \in Clients, Success(c)
      PROVE  GoneBare' /\ UpIsWatched' /\ MadeOnly' /\ LogoutTakesId' /\ WipeFollows'
  <2>1. IsConnected(c) /\ device[c] /\ Arrives(c, "connected") /\ UNCHANGED <<device, wipes>>
    BY <1>6 DEF Success, Alive, acctVars
  <2>2. GoneBare'
    BY <1>1, <2>1 DEF WatchInv, GoneBare
  <2>3. Watched(c)'
    BY <1>1, <2>1 DEF WatchInv, LineInv, Deleting, Held, Working, LoginBare, Scanning, Watched, Arrives
  <2>4. \A d \in Clients : d # c => (socket'[d] = "up" => socket[d] = "up") /\ (Watched(d) => Watched(d)')
    BY <1>0, <1>1, <1>6 DEF Success, Watched, Arrives, Event, NetOK
  <2>5. UpIsWatched'
    BY <2>3, <2>4 DEF UpIsWatched, WatchInv
  <2>. QED
    BY <1>3, <1>5, <2>1, <2>2, <2>5 DEF Events
<1>7. ASSUME NEW c \in Clients,
             UnpairedCloses(c) \/ ServerCloses(c) \/ ServerRefuses(c) \/ Replaced(c)
      PROVE  GoneBare' /\ UpIsWatched' /\ MadeOnly' /\ LogoutTakesId' /\ WipeFollows'
  <2>1. IsConnected(c) /\ Hangup(c) /\ UNCHANGED <<device, wipes>>
    BY <1>7 DEF UnpairedCloses, ServerCloses, ServerRefuses, Replaced, Drops, Alive, acctVars
  <2>2. PICK e \in Events : Arrives(c, e) /\ e # "logged_out"
    BY <1>7 DEF UnpairedCloses, ServerCloses, ServerRefuses, Replaced, Events, Fatal
  <2>. QED
    BY <1>3, <1>4, <1>5, <2>1, <2>2 DEF Arrives
<1>8. ASSUME NEW c \in Clients, RemoteLogout(c)
      PROVE  GoneBare' /\ UpIsWatched' /\ MadeOnly' /\ LogoutTakesId' /\ WipeFollows'
  <2>1. /\ IsConnected(c) /\ Hangup(c) /\ Arrives(c, "logged_out")
        /\ device' = [device EXCEPT ![c] = FALSE] /\ device[c]
        /\ wipes' = wipes \cup {[from |-> c, asked |-> FALSE]}
    BY <1>8 DEF RemoteLogout, Drops, Alive
  <2>2. c = current /\ "logged_out" \in Events
    BY <2>1 DEF WatchInv, Deleting, OnlyNewest, Events, Fatal
  <2>3. LogoutTakesId' /\ WipeFollows'
    BY <1>0, <1>1, <2>1, <2>2 DEF LogoutTakesId, WipeFollows, AccountOK
  <2>. QED
    BY <1>0, <1>3, <1>4, <2>1, <2>2, <2>3 DEF Arrives, WatchInv
<1>9. ASSUME NEW c \in Clients, KeepAliveTimeout(c)
      PROVE  GoneBare' /\ UpIsWatched' /\ MadeOnly' /\ LogoutTakesId' /\ WipeFollows'
  <2>1. /\ IsConnected(c) /\ Arrives(c, "keepalive") /\ UNCHANGED <<device, wipes, socket>>
        /\ "keepalive" \in Events
    BY <1>9 DEF KeepAliveTimeout, IsConnected, acctVars, netVars, Events
  <2>2. GoneBare' /\ UpIsWatched'
    BY <1>1, <2>1 DEF WatchInv, GoneBare, UpIsWatched, Watched, Arrives, Event
  <2>. QED
    BY <1>3, <1>5, <2>1, <2>2
<1>10. ASSUME \/ Quiet \/ Frame \/ PairReconnect \/ RouteChanges \/ Kick
              \/ \E c \in Clients : LineDies(c)
       PROVE  GoneBare' /\ UpIsWatched' /\ MadeOnly' /\ LogoutTakesId' /\ WipeFollows'
  <2>1. UNCHANGED <<arriving, device, wipes>>
    BY <1>10 DEF Quiet, Frame, PairReconnect, RouteChanges, Kick, LineDies, acctVars
  <2>2. \A c \in Clients : socket'[c] = "up" => socket[c] = "up"
    BY <1>0, <1>10 DEF Quiet, Frame, PairReconnect, RouteChanges, Kick, LineDies, netVars, Dialed,
                       NetOK
  <2>3. MadeOnly'
    BY <1>1, <2>1 DEF WatchInv, MadeOnly
  <2>4. GoneBare' /\ UpIsWatched'
    BY <1>0, <1>1, <2>1, <2>2 DEF WatchInv, GoneBare, UpIsWatched, Watched, Event, RunOK
  <2>. QED
    BY <1>5, <2>1, <2>3, <2>4
<1>. QED
  BY <1>6, <1>7, <1>8, <1>9, <1>10 DEF NetStep

(* Logouts and wipes.                                                       *)
LEMMA AccountWatches ==
    ASSUME WatchInv, AccountStep
    PROVE  MadeOnly' /\ GoneBare' /\ LogoutTakesId' /\ WipeFollows' /\ UpIsWatched'
<1>0. TypeOK /\ RunOK /\ MailOK /\ AccountOK /\ NetOK /\ LeftOK
  BY TypeParts DEF WatchInv, LineInv
<1>1. /\ UNCHANGED <<phase, mine, arriving>>
      /\ \A c \in Clients : /\ device'[c] => device[c]
                            /\ socket'[c] = "up" => socket[c] = "up"
  BY <1>0, AccountMoves
<1>2. ASSUME UNCHANGED current
      PROVE  MadeOnly' /\ GoneBare' /\ LogoutTakesId' /\ UpIsWatched'
  BY <1>0, <1>1, <1>2 DEF WatchInv, MadeOnly, GoneBare, LogoutTakesId, UpIsWatched, Watched, Event,
                          AccountOK
<1>3. CASE Logout
  BY <1>1, <1>2, <1>3 DEF Logout, WatchInv, WipeFollows, Event
<1>4. ASSUME NEW w \in wipes, WipeClears(w)
      PROVE  MadeOnly' /\ GoneBare' /\ LogoutTakesId' /\ WipeFollows' /\ UpIsWatched'
  <2>1. ASSUME w = [from |-> current, asked |-> FALSE]
        PROVE  wiping' = current
    BY <1>4, <2>1 DEF WipeClears
  <2>2. wiping # current /\ wipes' = wipes \ {w} /\ UNCHANGED current
    BY <1>0, <1>4 DEF WipeClears, AccountOK, Clients
  <2>3. WipeFollows'
    BY <1>1, <2>1, <2>2 DEF WatchInv, WipeFollows, Event
  <2>. QED
    BY <1>2, <2>2, <2>3
<1>5. ASSUME NEW w \in wipes, WipeIdle(w)
      PROVE  MadeOnly' /\ GoneBare' /\ LogoutTakesId' /\ WipeFollows' /\ UpIsWatched'
  <2>1. w # [from |-> current, asked |-> FALSE] /\ wipes' = wipes \ {w} /\ UNCHANGED <<current, wiping>>
    BY <1>5 DEF WipeIdle, WipeWanted
  <2>2. WipeFollows'
    BY <1>1, <2>1 DEF WatchInv, WipeFollows, Event
  <2>. QED
    BY <1>2, <2>1, <2>2
<1>6. ASSUME WipeFails \/ \E w \in wipes : WipeAborts(w)
      PROVE  FALSE
  BY <1>0, <1>6, Spent DEF WipeFails, WipeAborts, WatchInv, Disturbances
<1>7. CASE WipeEnds
  <2>1. /\ current' = current + 1 /\ current \in Clients /\ current' \in Clients
        /\ UNCHANGED <<socket, device>> /\ ~device[current] /\ ~device[current'] /\ mine \in Clients
    BY <1>0, <1>7, ClientAssumption
       DEF WipeEnds, WatchInv, Deleting, WipedHasNoId, OnlyNewest, AccountOK, RunOK, netVars, Clients
  <2>2. MadeOnly' /\ Event(current', "logged_out") \notin arriving
    BY <1>0, <1>1, <2>1 DEF WatchInv, MadeOnly, Event, MailOK, Clients
  <2>3. LogoutTakesId' /\ WipeFollows'
    BY <1>1, <2>2 DEF LogoutTakesId, WipeFollows, Event
  <2>4. GoneBare'
    BY <1>1, <2>1 DEF GoneBare
  <2>5. ASSUME NEW c \in Clients, socket[c] = "up"
        PROVE  mine = c /\ OnClient
    BY <2>1, <2>5 DEF WatchInv, LineInv, Deleting, Held, IsConnected, Working, LoginBare, Scanning,
                      OnClient
  <2>6. UpIsWatched'
    BY <1>1, <2>1, <2>5 DEF UpIsWatched, Watched, OnClient
  <2>. QED
    BY <2>2, <2>3, <2>4, <2>6
<1>. QED
  BY <1>3, <1>4, <1>5, <1>6, <1>7 DEF AccountStep

LEMMA WatchStep ==
    ASSUME WatchInv, [Next]_vars
    PROVE  WatchInv'
<1>1. LineInv' /\ Deleting'
  BY LineStep, DeletingStep DEF WatchInv
<1>2. left'["error"] = 0
  <2>1. LeftOK /\ "error" \in Disturbances /\ RunOK /\ NetOK /\ TypeOK
    BY TypeParts DEF WatchInv, LineInv, Disturbances
  <2>2. Spends
    BY <2>1, RunMoves, NetSpends, AccountMoves DEF Next, vars, Spends
  <2>. QED
    BY <2>1, <2>2, SpentStays DEF WatchInv
<1>3. CASE UNCHANGED vars
  BY <1>1, <1>2, <1>3 DEF vars, runVars, acctVars, netVars, WatchInv, MadeOnly, GoneBare, LogoutTakesId,
                          WipeFollows, UpIsWatched, Watched, Event
<1>. QED
  BY <1>1, <1>2, <1>3, RunWatches, NetWatches, AccountWatches DEF Next, WatchInv

(* No session is up that nobody watches: the machine is on it, or its       *)
(* Connected is on its way to a machine that will adopt it (connect,        *)
(* online, idleEvent).  It holds if every wipe goes through and deletes the *)
(* id it should, or nobody pairs anew: a client that pairs again after its  *)
(* wipe failed may yet be told of the logout before, and then gone drops    *)
(* the Connected of what whatsmeow reconnects by itself.                    *)
THEOREM UpStaysWatched ==
    Spec /\ (\/ left["error"] = 0 /\ left["undeleted"] = 0
             \/ left["scan"] = 0) => []UpIsWatched
<1>. DEFINE Inv == LineInv /\ (Alone \/ WatchInv)
<1>1. Init /\ ((left["error"] = 0 /\ left["undeleted"] = 0) \/ left["scan"] = 0) => Inv
  BY LineInit, DeletingInit
     DEF Init, Alone, IsConnected, WatchInv, MadeOnly, GoneBare, LogoutTakesId, WipeFollows, UpIsWatched
<1>2. Inv /\ [Next]_vars => Inv'
  BY LineStep, AloneStep, WatchStep
<1>3. Inv => UpIsWatched
  BY DEF LineInv, LoginBare, Scanning, Alone, IsConnected, Working, WatchInv, UpIsWatched, Watched
<1>. QED
  BY <1>1, <1>2, <1>3, PTL DEF Spec

=============================================================================
