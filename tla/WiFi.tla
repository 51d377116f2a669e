-------------------------------- MODULE WiFi --------------------------------
(***************************************************************************)
(* rb::WiFi in its two builds: rbwifi_netif.cpp (netif) and                *)
(* rbwifi_tcpip.cpp.  Any task calls connect, startAp and scanAsync; what  *)
(* the driver reports is queued and handled later, in order, by the event  *)
(* task.  m_ip is the library's copy of the address.  The driver is        *)
(* external: it associates, fails, loses the link and changes the lease    *)
(* when it wants to, and refuses a second scan while one runs.             *)
(***************************************************************************)
EXTENDS Naturals, Sequences, SequencesExt

CONSTANTS
    Leases,       \* addresses DHCP hands out
    ApIp,         \* the address as an access point
    Callers,      \* tasks that scan
    MaxEvents,    \* bound: events queued when another is added
    MaxScans      \* bound: scans started

ASSUME WiFiAssumption ==
    /\ ApIp \notin Leases /\ 0 \notin Leases \cup {ApIp} /\ MaxEvents \in Nat
    /\ MaxScans \in Nat

VARIABLES
    netif,        \* which build this is, TRUE for rbwifi_netif.cpp
    mode, link,   \* the driver: "off", "sta", "ap"; "down", "connecting", "connected"
    address,      \* the address the device has, 0 for none
    scanning,     \* the driver scans
    events,       \* the queue of the event task
    m_ip,
    gScanDoneEv,  \* the binary semaphore
    calling,      \* a startAp that has not stored m_ip yet
    waiting,      \* each caller of scanAsync: "no", "yes", or "told" to go on
    scans, done,  \* history: scans started, and the last one the driver finished
    mine,         \* history: the scan each caller started
    leftover,     \* history: callers that began beside the end of an earlier scan
    ap_used,      \* history: startAp was called
    overtaken     \* history: it stored m_ip before events of a former link were handled

driver == <<netif, mode, link, address, scanning>>
callers == <<waiting, mine, leftover>>
scan_vars == <<gScanDoneEv, scans, done, callers>>
ap_vars == <<calling, ap_used, overtaken>>
vars == <<driver, events, m_ip, ap_vars, scan_vars>>

Init ==
    /\ netif \in BOOLEAN
    /\ mode = "off" /\ link = "down" /\ address = 0 /\ scanning = FALSE
    /\ events = <<>> /\ m_ip = 0 /\ gScanDoneEv = FALSE
    /\ waiting = [c \in Callers |-> "no"] /\ mine = [c \in Callers |-> 0]
    /\ scans = 0 /\ done = 0 /\ leftover = {}
    /\ calling = FALSE /\ ap_used = FALSE /\ overtaken = FALSE

Event(kind, ip) == [kind |-> kind, ip |-> ip]
Queued(kinds) == \E i \in DOMAIN events : events[i].kind \in kinds

-----------------------------------------------------------------------------
(* The API.                                                                  *)

\* esp_wifi_stop reports the link it takes down; the access point's end is an event too
StopEvents == (IF link = "connected" THEN <<Event("STA_DISCONNECTED", 0)>> ELSE <<>>)
              \o (IF mode = "ap" THEN <<Event("AP_STOP", 0)>> ELSE <<>>)

\* a scan under way is cut off; the driver may or may not report it as done
Switch(to, started) ==
    /\ ~calling /\ Len(events) <= MaxEvents
    /\ mode' = to /\ link' = "down" /\ scanning' = FALSE
    /\ \E reported \in {FALSE, scanning} :
          /\ events' = events \o StopEvents
                        \o (IF reported THEN <<Event("SCAN_DONE", 0)>> ELSE <<>>)
                        \o <<Event(started, 0)>>
          /\ done' = IF reported THEN scans ELSE done

connect ==
    /\ Switch("sta", "STA_START")
    /\ address' = 0
    /\ UNCHANGED <<netif, m_ip, ap_vars, gScanDoneEv, scans, callers>>

startAp ==
    /\ Switch("ap", "AP_START")
    /\ address' = ApIp
    /\ calling' = netif
    /\ ap_used' = TRUE
    /\ UNCHANGED <<netif, m_ip, overtaken, gScanDoneEv, scans, callers>>

\* the last line of startAp in rbwifi_netif.cpp
StoreApIp ==
    /\ calling
    /\ m_ip' = address
    /\ calling' = FALSE
    /\ overtaken' = Queued({"STA_GOT_IP", "STA_DISCONNECTED"})
    /\ UNCHANGED <<driver, events, scan_vars, ap_used>>

\* a stopped driver is started as a station first; nothing takes what is left in the semaphore
scanAsync(c) ==
    /\ netif /\ ~scanning /\ mode # "ap" /\ waiting[c] = "no"
    /\ scans < MaxScans     \* bound
    /\ mode' = "sta"
    /\ events' = IF mode = "off" THEN Append(events, Event("STA_START", 0)) ELSE events
    /\ scanning' = TRUE
    /\ scans' = scans + 1
    /\ waiting' = [waiting EXCEPT ![c] = "yes"]
    /\ mine' = [mine EXCEPT ![c] = scans + 1]
    /\ leftover' = IF gScanDoneEv \/ Queued({"SCAN_DONE"}) THEN leftover \cup {c}
                                                           ELSE leftover \ {c}
    /\ UNCHANGED <<netif, link, address, m_ip, ap_vars, gScanDoneEv, done>>

TakeSemaphore(c) ==
    /\ waiting[c] = "yes" /\ gScanDoneEv
    /\ gScanDoneEv' = FALSE
    /\ waiting' = [waiting EXCEPT ![c] = "told"]
    /\ UNCHANGED <<driver, events, m_ip, ap_vars, scans, done, mine, leftover>>

\* scanSync waits 15 s and then goes on without it; others never wait
TakeTimesOut(c) ==
    /\ waiting[c] = "yes" /\ ~gScanDoneEv
    /\ waiting' = [waiting EXCEPT ![c] = "no"]
    /\ UNCHANGED <<driver, events, m_ip, ap_vars, gScanDoneEv, scans, done, mine, leftover>>

ReadResults(c) ==
    /\ waiting[c] = "told"
    /\ waiting' = [waiting EXCEPT ![c] = "no"]
    /\ UNCHANGED <<driver, events, m_ip, ap_vars, gScanDoneEv, scans, done, mine, leftover>>

-----------------------------------------------------------------------------
(* The event task.                                                           *)

\* Mutant: it does not connect.
Connecting_Never == link

\* esp_wifi_connect, refused unless the station is up and idle
Connecting == IF mode = "sta" /\ link = "down" THEN "connecting" ELSE link

\* Mutant: the address outlives the link.
NewIp_Kept(e) == CASE e.kind = "STA_GOT_IP" -> e.ip
                   [] e.kind = "AP_START" /\ ~netif -> ApIp
                   [] e.kind = "AP_STOP" /\ ~netif -> 0
                   [] OTHER -> m_ip

\* what each handler does to m_ip
NewIp(e) == CASE e.kind = "STA_DISCONNECTED" -> 0
              [] e.kind = "STA_GOT_IP" -> e.ip
              [] e.kind = "AP_START" /\ ~netif -> ApIp
              [] e.kind = "AP_STOP" /\ ~netif -> 0
              [] OTHER -> m_ip

\* Mutant: the case of a lost link runs on into the next.
Gives_FallsThrough(e) == e.kind \in {"STA_DISCONNECTED", "SCAN_DONE"}

Gives(e) == e.kind = "SCAN_DONE"

HandleEvent ==
    /\ events # <<>>
    /\ LET e == Head(events)
       IN  /\ m_ip' = NewIp(e)
           /\ link' = IF e.kind \in {"STA_START", "STA_DISCONNECTED"} THEN Connecting ELSE link
           /\ gScanDoneEv' = (gScanDoneEv \/ Gives(e))
    /\ events' = Tail(events)
    /\ UNCHANGED <<netif, mode, address, scanning, ap_vars, scans, done, callers>>

-----------------------------------------------------------------------------
(* The driver.                                                               *)

Reports(e) ==
    /\ Len(events) < MaxEvents
    /\ events' = Append(events, e)
    /\ UNCHANGED <<netif, mode, m_ip, ap_vars, gScanDoneEv, scans, callers>>

\* the first lease or a new one
GetsIp(ip) ==
    /\ link \in {"connecting", "connected"} /\ ip # address
    /\ link' = "connected" /\ address' = ip
    /\ Reports(Event("STA_GOT_IP", ip))
    /\ UNCHANGED <<scanning, done>>

LosesLink ==
    /\ link \in {"connecting", "connected"}
    /\ link' = "down" /\ address' = 0
    /\ Reports(Event("STA_DISCONNECTED", 0))
    /\ UNCHANGED <<scanning, done>>

ScanEnds ==
    /\ scanning
    /\ scanning' = FALSE
    /\ done' = scans
    /\ Reports(Event("SCAN_DONE", 0))
    /\ UNCHANGED <<link, address>>

Next == \/ connect \/ startAp \/ StoreApIp
        \/ \E c \in Callers :
              scanAsync(c) \/ TakeSemaphore(c) \/ TakeTimesOut(c) \/ ReadResults(c)
        \/ HandleEvent
        \/ LosesLink \/ ScanEnds \/ \E ip \in Leases : GetsIp(ip)

Spec == Init /\ [][Next]_vars

FairSpec == Spec /\ WF_vars(HandleEvent) /\ WF_vars(StoreApIp)

-----------------------------------------------------------------------------
\* The station connects only while the driver is in station mode, and no more events
\* are queued than the bound and one call of connect or startAp add.
TypeOK ==
    /\ netif \in BOOLEAN
    /\ mode \in {"off", "sta", "ap"} /\ link \in {"down", "connecting", "connected"}
    /\ link # "down" => mode = "sta"
    /\ address \in Leases \cup {0, ApIp} /\ m_ip \in Leases \cup {0, ApIp}
    /\ scanning \in BOOLEAN /\ gScanDoneEv \in BOOLEAN /\ calling \in BOOLEAN
    /\ ap_used \in BOOLEAN /\ overtaken \in BOOLEAN
    /\ waiting \in [Callers -> {"no", "yes", "told"}] /\ leftover \subseteq Callers
    /\ scans \in Nat /\ done \in 0..scans /\ mine \in [Callers -> 0..scans]
    /\ Len(events) <= MaxEvents + 4

\* Once the events are handled m_ip is the address the device has, in whatever order they
\* were queued, but for two cases of the netif build, whose startAp stores the address
\* itself: the end of a former link that is handled after that clears it for good, and a
\* station that has no address yet keeps the one it had as an access point
\* (rbwifi_netif.cpp 131-133, 191-225, rbwifi_tcpip.cpp 98-140).
CurrentIp ==
    /\ TypeOK
    /\ events = <<>> /\ ~calling =>
          \/ ~(netif /\ mode = "ap" /\ overtaken) /\ m_ip = address
          \/ netif /\ mode = "ap" /\ overtaken /\ m_ip = 0
          \/ netif /\ mode = "sta" /\ ap_used /\ address = 0 /\ m_ip = ApIp

\* A caller that is told to go on has its own scan done, whoever else scans, gives up or
\* takes the semaphore of another, unless it began when the end of an earlier scan was
\* still in the semaphore or on its way to it (rbwifi_netif.cpp 136-159, 172, 204-209).
ScanAwaited ==
    \A c \in Callers : waiting[c] = "told" /\ c \notin leftover => mine[c] <= done

\* A station whose link is down goes on connecting, whatever was lost and however often
\* (rbwifi_netif.cpp 195-203, rbwifi_tcpip.cpp 98-119).
KeepsTrying == mode = "sta" /\ link = "down" ~> mode # "sta" \/ link # "down"
=============================================================================
