----------------------------- MODULE Transport -----------------------------
(***************************************************************************)
(* Starting and stopping a transport: ccapi_transport_tcp.c,               *)
(* ccapi_transport_udp.c and ccapi_transport_sms.c on the application's    *)
(* side, the network and status handlers of ccapi.c on the connector       *)
(* thread's side.  The three are the same code but for what they check and *)
(* copy, and for when the flag goes up (tcp: connected, when CCFSM's       *)
(* communication has started; udp, sms: started, when the network is       *)
(* open); `kind' says which one a behaviour is about.                      *)
(*                                                                         *)
(* The application's thread and the connector thread share the info and    *)
(* the flag.  No lock protects the info; tcp's flag is set under a         *)
(* condition's lock, which one read of it does not need.                   *)
(*                                                                         *)
(* Of an info the strings are kept, by whose memory they are: its own, the *)
(* application's, or a pointer that was never set.  Addresses, keepalives, *)
(* limits and what is sent are left out.  One thread of the application    *)
(* starts and stops the transport.                                         *)
(***************************************************************************)
EXTENDS Naturals, FiniteSets

CONSTANT Kinds        \* the transports to look at, of "tcp", "udp", "sms"

ASSUME KindsAreTransports == Kinds \subseteq {"tcp", "udp", "sms"}

VARIABLES kind,       \* which transport this behaviour is about
          info,       \* transport_tcp.info, transport_udp.info or transport_sms.info
          live,       \* how many infos are allocated
          up,         \* transport_tcp.connected, transport_udp.started, ...
          ccfsm,      \* CCFSM: the transport's phase, and a stop it was asked for
          closing,    \* the connector thread in network_close: the cause
          app,        \* the application's call; history: since the start lowered
                      \* the flag, whether a connection was made, whether one was
                      \* lost for good, and whether the wait failed
          under,      \* history: how the info was freed while CCFSM used it
          misused     \* history: memory was used that is not there (the run ends)

transport_vars == <<kind, info, live, up, ccfsm, closing, app, under, misused>>

Strings == {"null", "own", "app", "garbage"}
Infos == [pw : Strings, phone : Strings, wan : {"yes", "no", "garbage"}]
NoInfo == [pw |-> "null", phone |-> "null", wan |-> "none"]
FreedInfo == [pw |-> "null", phone |-> "null", wan |-> "freed"]

\* Causes after which the application is asked whether to connect again:
\* ask_user_if_reconnect, ask_user_if_reconnect_udp, ask_user_if_reconnect_sms.
TcpCauses == {"disconnected", "redirected", "device_error", "no_keepalive"}
UdpCauses == {"disconnected", "device_error"}
SmsCauses == {"disconnected", "device_error"}
LostCauses == CASE kind = "tcp" -> TcpCauses [] kind = "udp" -> UdpCauses [] kind = "sms" -> SmsCauses

TransportCalls ==
  [pc : {"idle", "prepare", "initiate", "wait", "stop", "drain"},
   timed : BOOLEAN, made : BOOLEAN, lost : BOOLEAN, failed : BOOLEAN,
   res : {"none", "OK", "TIMEOUT", "INIT", "MEMORY", "INVALID", "ALREADY",
          "STOPPED", "NOT_STARTED", "CCFSM", "ASSERT"}]

NewCall(pc, timed) ==
  [pc |-> pc, timed |-> timed, made |-> FALSE, lost |-> FALSE, failed |-> FALSE, res |-> "none"]

TransportTypeOK ==
  /\ kind \in Kinds
  /\ info \in Infos \cup {NoInfo, FreedInfo}
  /\ live \in 0..2
  /\ up \in BOOLEAN
  /\ ccfsm \in [ph : {"off", "starting", "open", "up", "closing"}, stop : BOOLEAN]
  /\ closing \in TcpCauses \cup {"none", "stopped"}
  /\ app \in TransportCalls
  /\ under \subseteq {"start", "lost"}
  /\ misused \in {"no", "info", "free"}

TransportInit ==
  /\ kind \in Kinds
  /\ info = NoInfo /\ live = 0 /\ up = FALSE
  /\ ccfsm = [ph |-> "off", stop |-> FALSE]
  /\ closing = "none"
  /\ app = NewCall("idle", FALSE)
  /\ under = {} /\ misused = "no"

\* CCFSM may still use the info.
InUse == ccfsm.ph # "off"

----------------------------------------------------------------------------
(* Allocating and freeing an info. *)

Pointer(x) == IF x = "null" THEN {} ELSE {x}

\* free_transport_tcp_info: the phone number is freed if the type, which may
\* not have been set yet, is WAN.
FreesTcp(i) ==
  LET phones == CASE i.wan = "yes" -> {Pointer(i.phone)}
                  [] i.wan = "no" -> {{}}
                  [] OTHER -> {{}, Pointer(i.phone)}
  IN  {Pointer(i.pw) \cup p : p \in phones}

\* free_transport_sms_info: the phone number and the service identifier.
FreesSms(i) == {Pointer(i.pw) \cup Pointer(i.phone)}

\* What freeing i may release; free_transport_udp_info frees no string.
Frees(i) ==
  CASE kind = "tcp" -> FreesTcp(i)
    [] kind = "sms" -> FreesSms(i)
    [] kind = "udp" -> {{}}

\* i is freed, with its strings, and the pointer to it becomes p.
FreeInfo(i, p) ==
  /\ info' = p
  /\ live' = IF i = NoInfo THEN live ELSE live - 1
  /\ IF i = NoInfo THEN UNCHANGED misused
     ELSE \E f \in Frees(i) : misused' = IF f \subseteq {"own"} THEN misused ELSE "free"

\* ccxapi_start_transport_tcp up to the copy, with copy_ccapi_tcp_info_t_structure
\* and copy_wan_info: the infos it can end with, and whether it goes on.  wan,
\* pw: the application gives a phone number, a password.
TcpInfos(wan, pw) ==
  LET w == IF wan THEN "yes" ELSE "no"
      own(b) == IF b THEN "own" ELSE "null"
  IN  \* keepalives or connection refused: only the pointers were reset
      {[ok |-> FALSE, info |-> [pw |-> "null", phone |-> IF wan THEN "null" ELSE "garbage", wan |-> "garbage"]],
       [ok |-> TRUE, info |-> [pw |-> own(pw), phone |-> own(wan), wan |-> w]]}
      \cup \* no memory for the password: the phone number is still the application's
      (IF pw THEN {[ok |-> FALSE, info |-> [pw |-> "null", phone |-> IF wan THEN "app" ELSE "null", wan |-> w]]} ELSE {})
      \cup \* no memory for the phone number
      (IF wan THEN {[ok |-> FALSE, info |-> [pw |-> own(pw), phone |-> "null", wan |-> w]]} ELSE {})

\* copy_ccapi_sms_info_t_structure; pw stands for the service identifier.
SmsInfos ==
  {[ok |-> TRUE, info |-> [pw |-> "own", phone |-> "own", wan |-> "yes"]],
   [ok |-> FALSE, info |-> [pw |-> "null", phone |-> "null", wan |-> "yes"]],
   [ok |-> FALSE, info |-> [pw |-> "null", phone |-> "own", wan |-> "yes"]]}

\* copy_ccapi_udp_info_t_structure
UdpInfos == {[ok |-> TRUE, info |-> [pw |-> "null", phone |-> "null", wan |-> "no"]]}

NewInfos ==
  CASE kind = "tcp" -> UNION {TcpInfos(wan, pw) : wan, pw \in BOOLEAN}
    [] kind = "sms" -> SmsInfos
    [] kind = "udp" -> UdpInfos

----------------------------------------------------------------------------
(* The application starts the transport. *)

Calling(pc) == misused = "no" /\ app.pc = pc
Answer(res) == app' = [app EXCEPT !.pc = "idle", !.res = res]
CcfsmKept == UNCHANGED <<kind, up, ccfsm, closing>>

\* A start that ends or replaces the info while CCFSM uses it.
StartFrees == under' = IF InUse' /\ info \in Infos THEN under \cup {"start"} ELSE under

\* ALREADY_STARTED and the null pointer: nothing changes.
StartRefused ==
  /\ Calling("idle") /\ up
  /\ Answer("ALREADY")
  /\ UNCHANGED <<info, live, under, misused>> /\ CcfsmKept

\* The arguments are refused, and the info that is there is freed.
StartInvalid ==
  /\ Calling("idle") /\ ~up
  /\ FreeInfo(info, NoInfo)
  /\ CcfsmKept /\ StartFrees
  /\ Answer("INVALID")

\* Mutant: the info of an earlier start is forgotten.
FreedFirstForgotten == UNCHANGED <<info, live, misused>>

\* The info of an earlier start is freed.
FreedFirst == FreeInfo(info, IF info = NoInfo THEN NoInfo ELSE FreedInfo)

\* A start that goes on; timed: it has a start_timeout.
StartBegin(timed) ==
  /\ Calling("idle") /\ ~up
  /\ FreedFirst
  /\ CcfsmKept /\ StartFrees
  /\ app' = NewCall("prepare", timed)

\* The three starts: tcp checks its arguments only after it has allocated the
\* new info, udp (the sessions) and sms (the phone number too) before.
TcpStart(timed) == kind = "tcp" /\ (StartRefused \/ StartBegin(timed))
UdpStart(timed) == kind = "udp" /\ (StartRefused \/ StartInvalid \/ StartBegin(timed))
SmsStart(timed) == kind = "sms" /\ (StartRefused \/ StartInvalid \/ StartBegin(timed))

\* Mutant: the flag of an earlier connection is left as it is.
NotLowered(u) == u
\* The flag goes down before CCFSM is asked.
Lowered(u) == FALSE

\* The new info is allocated, checked and filled: INSUFFICIENT_MEMORY, or one
\* of the errors after which it is freed again, or the flag goes down and
\* CCFSM will be asked.
StartPrepare ==
  /\ Calling("prepare")
  /\ UNCHANGED <<kind, ccfsm, closing>>
  /\ \/ info' = NoInfo /\ Answer("MEMORY") /\ StartFrees
        /\ UNCHANGED <<live, up, misused>>
     \/ \E n \in NewInfos :
          \/ /\ ~n.ok
             /\ \E f \in Frees(n.info) : misused' = IF f \subseteq {"own"} THEN misused ELSE "free"
             /\ info' = NoInfo /\ Answer("INVALID") /\ StartFrees
             /\ UNCHANGED <<live, up>>
          \/ /\ n.ok
             /\ info' = n.info /\ live' = live + 1 /\ up' = Lowered(up)
             /\ app' = [app EXCEPT !.pc = "initiate"]
             /\ UNCHANGED <<under, misused>>

\* connector_initiate_transport_start, asked again while CCFSM is busy: it is
\* accepted, or the start ends with INIT and frees the info, also when CCFSM
\* accepted and the lock around it could not be released.  CCFSM accepts it when
\* the transport is off; what it says otherwise is not known.
StartInitiate ==
  /\ Calling("initiate")
  /\ \E accepted, told \in BOOLEAN :
       /\ told => accepted
       /\ accepted => ~ccfsm.stop
       /\ ccfsm' = [ccfsm EXCEPT !.ph = IF accepted /\ @ = "off" THEN "starting" ELSE @]
       /\ IF told THEN app' = [app EXCEPT !.pc = "wait"] /\ UNCHANGED <<info, live, under, misused>>
          ELSE FreeInfo(info, NoInfo) /\ StartFrees /\ Answer("INIT")
  /\ UNCHANGED <<kind, up, closing>>

\* The wait ends because the flag is up: transport_is_connected, and the
\* condition of the other loops.
StartDone ==
  /\ Calling("wait") /\ up
  /\ Answer("OK")
  /\ UNCHANGED <<info, live, under, misused>> /\ CcfsmKept

\* The wait ends because of the time; the flag may be up.  The info is freed
\* although CCFSM goes on.
StartTimeout ==
  /\ Calling("wait") /\ app.timed
  /\ FreeInfo(info, NoInfo)
  /\ CcfsmKept /\ StartFrees
  /\ Answer("TIMEOUT")

\* tcp's condition fails: with a time limit that is an error; without one the
\* result is not looked at, and the start answers that there is a connection.
TcpWaitFails ==
  /\ kind = "tcp" /\ Calling("wait") /\ CcfsmKept
  /\ \/ app.timed /\ FreeInfo(info, NoInfo) /\ StartFrees /\ Answer("INIT")
     \/ /\ ~app.timed
        /\ app' = [app EXCEPT !.pc = "idle", !.res = "OK", !.failed = TRUE]
        /\ UNCHANGED <<info, live, under, misused>>

\* The three waits: tcp's on the condition, and two that poll the flag, which
\* may be up and down again between two looks.
TcpWait == kind = "tcp" /\ (StartDone \/ StartTimeout)
UdpWait == kind = "udp" /\ (StartDone \/ StartTimeout)
SmsWait == kind = "sms" /\ (StartDone \/ StartTimeout)

----------------------------------------------------------------------------
(* The application stops the transport. *)

\* NOT_STARTED, or ccapi_initiate_transport_stop follows.
TransportStop ==
  /\ Calling("idle")
  /\ app' = IF up THEN [app EXCEPT !.pc = "stop"] ELSE [app EXCEPT !.res = "NOT_STARTED"]
  /\ UNCHANGED <<info, live, under, misused>> /\ CcfsmKept

\* Mutant: the error of ccapi_initiate_transport_stop is not looked at.
StopInitiateErrorIgnored ==
  /\ Calling("stop")
  /\ app' = [app EXCEPT !.pc = "drain"]
  /\ \E accepted \in BOOLEAN : ccfsm' = [ccfsm EXCEPT !.stop = accepted]
  /\ UNCHANGED <<kind, info, live, up, closing, under, misused>>

\* CCFSM accepts the stop, or the stop ends with an error of CCFSM, also when
\* CCFSM accepted and the lock around it could not be released.
StopInitiate ==
  /\ Calling("stop")
  /\ \/ /\ ccfsm' = [ccfsm EXCEPT !.stop = TRUE]
        /\ app' = [app EXCEPT !.pc = "drain"]
     \/ /\ Answer("CCFSM")
        /\ ccfsm' = [ccfsm EXCEPT !.stop = TRUE] \/ UNCHANGED ccfsm
  /\ UNCHANGED <<kind, info, live, up, closing, under, misused>>

\* The loop on the flag.
MayFree(u) == ~u

\* The flag is down: the info, asserted to be there, is freed.
TransportStopped ==
  /\ Calling("drain") /\ MayFree(up)
  /\ IF info = NoInfo
     THEN Answer("ASSERT") /\ UNCHANGED <<info, live, under, misused>>
     ELSE /\ FreeInfo(info, NoInfo)
          /\ Answer("STOPPED")
          /\ under' = IF InUse /\ ~up /\ closing # "stopped" THEN under \cup {"lost"} ELSE under
  /\ CcfsmKept

\* The three stops.
TcpStop == kind = "tcp" /\ (TransportStop \/ TransportStopped)
UdpStop == kind = "udp" /\ (TransportStop \/ TransportStopped)
SmsStop == kind = "sms" /\ (TransportStop \/ TransportStopped)

----------------------------------------------------------------------------
(* The connector thread: ccapi_network_handler and its two siblings, and    *)
(* ccapi_status_handler, as CCFSM calls them.                               *)

InfoKept == UNCHANGED <<kind, info, live>>
AppKept == InfoKept /\ UNCHANGED app

\* The flag goes up.  A start that has lowered it learns of a connection.
Raise ==
  /\ up' = TRUE
  /\ app' = [app EXCEPT !.made = @ \/ app.pc \in {"initiate", "wait"}]

\* network_open, answered OK (BUSY and ERROR: CCFSM tries again).
Open(ph) ==
  /\ misused = "no" /\ ccfsm.ph = "starting" /\ ~ccfsm.stop
  /\ ccfsm' = [ccfsm EXCEPT !.ph = ph]
  /\ UNCHANGED <<closing, under, misused>> /\ InfoKept

\* The flag of udp and sms is up once the network is open.
TcpOpen == kind = "tcp" /\ Open("open") /\ UNCHANGED <<up, app>>
UdpOpen == kind = "udp" /\ Open("up") /\ Raise
SmsOpen == kind = "sms" /\ Open("up") /\ Raise

\* connector_tcp_communication_started: ccapi_transport_state_set(TRUE).
CommunicationStarted ==
  /\ misused = "no" /\ kind = "tcp" /\ ccfsm.ph = "open"
  /\ ccfsm' = [ccfsm EXCEPT !.ph = "up"]
  /\ Raise
  /\ UNCHANGED <<closing, under, misused>> /\ InfoKept

\* A callback of the info is read.
ReadInfo == misused' = IF info \in Infos THEN "no" ELSE "info"

\* connector_tcp_keepalive_missed, connector_tcp_keepalive_restored.
Keepalive ==
  /\ misused = "no" /\ kind = "tcp" /\ ccfsm.ph = "up"
  /\ ReadInfo
  /\ UNCHANGED <<up, ccfsm, closing, under>> /\ AppKept

\* network_close, answered OK (BUSY: CCFSM tries again): the flag goes down
\* first.  A stop that was asked for closes what is open; otherwise the
\* connection was lost.
Close(lost) ==
  /\ misused = "no" /\ ccfsm.ph \in {"open", "up"}
  /\ closing' \in lost \cup (IF ccfsm.stop THEN {"stopped"} ELSE {})
  /\ ccfsm' = [ccfsm EXCEPT !.ph = "closing"]
  /\ up' = FALSE
  /\ UNCHANGED <<under, misused>> /\ AppKept

TcpClose == kind = "tcp" /\ Close(TcpCauses)
UdpClose == kind = "udp" /\ Close(UdpCauses)
SmsClose == kind = "sms" /\ Close(SmsCauses)
NetworkClose == TcpClose \/ UdpClose \/ SmsClose

\* The causes of network_close after which the application is asked.
Asks(c) == c \in LostCauses

\* CCFSM is off: nobody uses the info any more.
Off == under' = {}

\* ... then, for a lost connection, ask_user_if_reconnect reads the info and
\* calls the application.
NetworkClosed ==
  /\ misused = "no" /\ ccfsm.ph = "closing"
  /\ closing' = "none"
  /\ IF Asks(closing) THEN ReadInfo ELSE UNCHANGED misused
  /\ \/ /\ closing \in LostCauses /\ misused' = "no"
        /\ ccfsm' = [ccfsm EXCEPT !.ph = "starting"]
        /\ UNCHANGED <<under, app>>
     \/ /\ ccfsm' = [ccfsm EXCEPT !.ph = "off"]
        /\ IF misused' = "no" THEN Off ELSE UNCHANGED under
        /\ app' = [app EXCEPT !.lost = @ \/ app.pc = "wait"]
  /\ UNCHANGED up /\ InfoKept

\* CCFSM gives up connecting because of a stop.
ConnectStopped ==
  /\ misused = "no" /\ ccfsm = [ph |-> "starting", stop |-> TRUE]
  /\ ccfsm' = [ccfsm EXCEPT !.ph = "off"]
  /\ Off
  /\ UNCHANGED <<up, closing, misused>> /\ AppKept

\* connector_request_id_status_stop_completed.
StopCompleted ==
  /\ misused = "no" /\ ccfsm = [ph |-> "off", stop |-> TRUE]
  /\ ccfsm' = [ccfsm EXCEPT !.stop = FALSE]
  /\ up' = FALSE
  /\ UNCHANGED <<closing, under, misused>> /\ AppKept

\* The run ends where memory was used that is not there.
TransportHalted == misused # "no" /\ UNCHANGED transport_vars

StartNext == StartPrepare \/ StartInitiate \/ TcpWait \/ UdpWait \/ SmsWait
StopNext == StopInitiate \/ (app.pc = "drain" /\ (TcpStop \/ UdpStop \/ SmsStop))
StoppingNext == NetworkClosed \/ ConnectStopped \/ StopCompleted
                  \/ (NetworkClose /\ closing' = "stopped")

TransportNext ==
  \/ \E timed \in BOOLEAN : TcpStart(timed) \/ UdpStart(timed) \/ SmsStart(timed)
  \/ StartNext \/ TcpWaitFails
  \/ TcpStop \/ UdpStop \/ SmsStop \/ StopInitiate
  \/ TcpOpen \/ UdpOpen \/ SmsOpen \/ CommunicationStarted \/ Keepalive
  \/ NetworkClose \/ NetworkClosed \/ ConnectStopped \/ StopCompleted
  \/ TransportHalted

\* A call of the application goes on, and CCFSM does a stop it was asked for:
\* the network is closed, the callbacks return.
TransportFairness ==
  WF_transport_vars(StartNext) /\ WF_transport_vars(StopNext) /\ WF_transport_vars(StoppingNext)

TransportSpec == TransportInit /\ [][TransportNext]_transport_vars /\ TransportFairness

----------------------------------------------------------------------------
(* Properties. *)

\* A start answers that the transport is started only for a connection that was
\* made after it lowered the flag, never for the flag of an earlier one; but tcp's
\* also when its wait without a limit failed (ccapi_transport_tcp.c:292, :343).
\* While it waits there is something to wait for: CCFSM is off only when a
\* connection was lost meanwhile and the application wants no other, and it is
\* connected with the flag down only when it went on after a call that gave up
\* the info, and its late connection raised the flag just before the start lowered
\* it.
StartIsHonest ==
  /\ app.res = "OK" => app.made \/ app.failed
  /\ app.failed => kind = "tcp" /\ ~app.timed
  /\ app.pc = "wait" /\ ~up =>
       /\ ccfsm.ph = "off" => app.lost
       /\ ccfsm.ph = "up" => under # {}

\* Between calls, what is allocated is exactly the info the transport points
\* at: a start that fails at any point, one that follows another, and a stop
\* neither leak an info nor free it twice (ccapi_transport_tcp.c:259, :387, :421).
InfoNotLost ==
  app.pc = "idle" /\ misused = "no" =>
    /\ info # FreedInfo
    /\ live = IF info = NoInfo THEN 0 ELSE 1

\* While the transport is up its info is there, unless a call freed it while
\* CCFSM went on connecting: a start that timed out frees what the callbacks of
\* the late connection read (ccapi_transport_tcp.c:386), and a stop that finds
\* the flag down after a lost connection does not wait for CCFSM (:416).
UpHasInfo == up /\ under = {} => info \in Infos

\* The connector thread misses the info only after such a call, for instance
\* when a stop overtook the loss of the connection between ccapi.c:1154, which
\* lowers the flag the stop waits for, and :1169, which reads the info.
\* Closing at the application's own request never touches it.
CallbackSafe == misused = "info" => under # {}

\* The strings freed with an info of udp or sms are its own, whatever memory
\* there was for copying them (ccapi_transport_sms.c:91).
FreesOwn == kind # "tcp" => misused # "free"

\* The info is allocated once and there for as long as the transport is up, and
\* neither callbacks nor calls touch what is not theirs, but for the calls named
\* above.
InfoHolds == TransportTypeOK /\ InfoNotLost /\ UpHasInfo /\ CallbackSafe /\ FreesOwn

\* A stop that CCFSM accepted returns, although the connection may be lost and
\* wanted again by the application while it waits (ccapi_transport_tcp.c:416).
StopReturns == app.pc = "drain" ~> app.pc # "drain" \/ misused # "no"
=============================================================================
