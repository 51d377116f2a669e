------------------------------ MODULE WiFiProofs ------------------------------
(***************************************************************************)
(* Theorems about both builds of the WiFi class, for every set of leases   *)
(* and any number of events and scans.                                     *)
(***************************************************************************)
EXTENDS WiFi, SequenceTheorems, TLAPS

Kinds == {"STA_START", "STA_DISCONNECTED", "STA_GOT_IP", "AP_START", "AP_STOP", "SCAN_DONE"}
EventSet == [kind : Kinds, ip : Leases \cup {0}]

-----------------------------------------------------------------------------
(* What the queued events will do to m_ip.                                   *)

Sets(n, e) == e.kind \in {"STA_DISCONNECTED", "STA_GOT_IP"} \cup
                         (IF n THEN {} ELSE {"AP_START", "AP_STOP"})
IpOf(e) == IF e.kind = "STA_GOT_IP" THEN e.ip ELSE IF e.kind = "AP_START" THEN ApIp ELSE 0

LEMMA NewIpIs ==
    ASSUME netif \in BOOLEAN, NEW e \in EventSet
    PROVE  NewIp(e) = IF Sets(netif, e) THEN IpOf(e) ELSE m_ip
BY DEF NewIp, Sets, IpOf, EventSet, Kinds

\* m_ip, now ip, will be a once the events are handled: the last that sets it says so.
Settles(n, evs, ip, a) ==
    /\ (\A i \in DOMAIN evs : ~Sets(n, evs[i])) => ip = a
    /\ \A i \in DOMAIN evs :
          Sets(n, evs[i]) /\ (\A j \in DOMAIN evs : j > i => ~Sets(n, evs[j])) => IpOf(evs[i]) = a

LEMMA AppendIs ==
    ASSUME NEW evs \in Seq(EventSet), NEW e \in EventSet
    PROVE  /\ Append(evs, e) \in Seq(EventSet)
           /\ Len(Append(evs, e)) = Len(evs) + 1 /\ Len(evs) \in Nat
           /\ DOMAIN evs = 1..Len(evs) /\ DOMAIN Append(evs, e) = 1..(Len(evs) + 1)
           /\ Append(evs, e)[Len(evs) + 1] = e
           /\ \A i \in 1..Len(evs) : Append(evs, e)[i] = evs[i] /\ i < Len(evs) + 1
           /\ \A i \in 1..(Len(evs) + 1) : i \in 1..Len(evs) \/ i = Len(evs) + 1
OBVIOUS

LEMMA SettlesEmpty == \A n, ip, a : Settles(n, <<>>, ip, a) <=> ip = a
BY DEF Settles

LEMMA SettlesAppend ==
    ASSUME NEW n, NEW evs \in Seq(EventSet), NEW e \in EventSet, NEW ip, NEW a, NEW b,
           IF Sets(n, e) THEN b = IpOf(e) ELSE b = a /\ Settles(n, evs, ip, a)
    PROVE  Settles(n, Append(evs, e), ip, b)
<1> DEFINE m == Len(evs)
<1>1. PICK new : new = Append(evs, e)
  OBVIOUS
<1>2. /\ m \in Nat /\ DOMAIN evs = 1..m /\ DOMAIN new = 1..(m + 1) /\ new[m + 1] = e
      /\ \A i \in 1..m : new[i] = evs[i] /\ i < m + 1
      /\ \A i \in 1..(m + 1) : i \in 1..m \/ i = m + 1
  BY <1>1, AppendIs, Zenon
<1> HIDE DEF m
<1>3. m + 1 \in 1..(m + 1) /\ 1..m \subseteq 1..(m + 1)
  BY <1>2
<1>4. CASE Sets(n, e)
  <2>1. ~(\A i \in DOMAIN new : ~Sets(n, new[i]))
    BY <1>2, <1>3, <1>4
  <2>2. ASSUME NEW i \in DOMAIN new, \A j \in DOMAIN new : j > i => ~Sets(n, new[j])
        PROVE  i = m + 1
    <3>1. ~(m + 1 > i)
      BY <1>2, <1>3, <1>4, <2>2
    <3> QED BY <1>2, <3>1
  <2> QED BY <1>2, <1>1, <1>4, <2>1, <2>2 DEF Settles
<1>5. CASE ~Sets(n, e)
  <2>1. b = a /\ Settles(n, evs, ip, a)
    BY <1>5
  <2>2. (\A i \in DOMAIN new : ~Sets(n, new[i])) => ip = b
    BY <1>2, <1>3, <2>1 DEF Settles
  <2>3. ASSUME NEW i \in DOMAIN new, Sets(n, new[i]),
               \A j \in DOMAIN new : j > i => ~Sets(n, new[j])
        PROVE  IpOf(new[i]) = b
    <3>1. i \in 1..m
      BY <1>2, <1>5, <2>3
    <3>2. Sets(n, evs[i]) /\ \A j \in DOMAIN evs : j > i => ~Sets(n, evs[j])
      BY <1>2, <1>3, <2>3, <3>1
    <3>3. IpOf(evs[i]) = a
      BY <1>2, <2>1, <3>1, <3>2 DEF Settles
    <3> QED BY <1>2, <2>1, <3>1, <3>3
  <2> QED BY <1>1, <2>2, <2>3 DEF Settles
<1> QED BY <1>4, <1>5

LEMMA TailIs ==
    ASSUME NEW evs \in Seq(EventSet), evs # <<>>
    PROVE  /\ Head(evs) \in EventSet /\ Head(evs) = evs[1] /\ 1 \in DOMAIN evs
           /\ Tail(evs) \in Seq(EventSet) /\ Len(Tail(evs)) = Len(evs) - 1 /\ Len(evs) \in Nat
           /\ \A i \in DOMAIN Tail(evs) : /\ i \in Nat \ {0} /\ i + 1 \in DOMAIN evs
                                          /\ Tail(evs)[i] = evs[i + 1]
           /\ \A i \in DOMAIN evs : i = 1 \/ (i - 1 \in DOMAIN Tail(evs) /\ i \in Nat)
OBVIOUS

LEMMA SettlesTail ==
    ASSUME NEW n, NEW evs \in Seq(EventSet), evs # <<>>, NEW ip, NEW a, Settles(n, evs, ip, a)
    PROVE  Settles(n, Tail(evs), IF Sets(n, Head(evs)) THEN IpOf(Head(evs)) ELSE ip, a)
<1>1. PICK rest : rest = Tail(evs)
  OBVIOUS
<1>2. /\ Head(evs) = evs[1] /\ 1 \in DOMAIN evs
      /\ \A i \in DOMAIN rest : i \in Nat \ {0} /\ i + 1 \in DOMAIN evs /\ rest[i] = evs[i + 1]
      /\ \A i \in DOMAIN evs : i = 1 \/ (i - 1 \in DOMAIN rest /\ i \in Nat)
  BY <1>1, TailIs, Zenon
<1>3. \A i \in DOMAIN evs : i = 1 \/ \E k \in DOMAIN rest : i = k + 1 /\ evs[i] = rest[k]
  <2>1. ASSUME NEW i \in DOMAIN evs, i # 1
        PROVE  \E k \in DOMAIN rest : i = k + 1 /\ evs[i] = rest[k]
    <3>1. i - 1 \in DOMAIN rest /\ i \in Nat /\ (i - 1) + 1 = i
      BY <1>2, <2>1
    <3> QED BY <1>2, <3>1
  <2> QED BY <2>1
<1>4. CASE \A i \in DOMAIN rest : ~Sets(n, rest[i])
  <2>1. CASE Sets(n, evs[1])
    <3>1. \A j \in DOMAIN evs : j > 1 => ~Sets(n, evs[j])
      BY <1>3, <1>4
    <3>2. IpOf(evs[1]) = a
      BY <1>2, <2>1, <3>1 DEF Settles
    <3> QED BY <1>1, <1>2, <1>4, <2>1, <3>2 DEF Settles
  <2>2. CASE ~Sets(n, evs[1])
    <3>1. \A j \in DOMAIN evs : ~Sets(n, evs[j])
      BY <1>3, <1>4, <2>2
    <3> QED BY <1>1, <1>2, <1>4, <2>2, <3>1 DEF Settles
  <2> QED BY <2>1, <2>2
<1>5. ASSUME NEW i \in DOMAIN rest, Sets(n, rest[i]),
             \A j \in DOMAIN rest : j > i => ~Sets(n, rest[j])
      PROVE  IpOf(rest[i]) = a
  <2>1. i + 1 \in DOMAIN evs /\ rest[i] = evs[i + 1] /\ i \in Nat \ {0}
    BY <1>2
  <2>2. ASSUME NEW j \in DOMAIN evs, j > i + 1 PROVE ~Sets(n, evs[j])
    <3>1. j # 1
      BY <2>1, <2>2
    <3>2. PICK k \in DOMAIN rest : j = k + 1 /\ evs[j] = rest[k]
      BY <1>3, <3>1
    <3>3. k > i
      BY <1>2, <2>1, <2>2, <3>2
    <3> QED BY <1>5, <3>2, <3>3
  <2> QED BY <1>5, <2>1, <2>2 DEF Settles
<1>6. CASE ~(\A i \in DOMAIN rest : ~Sets(n, rest[i]))
  BY <1>1, <1>5, <1>6 DEF Settles
<1> QED BY <1>1, <1>4, <1>5, <1>6 DEF Settles

-----------------------------------------------------------------------------
(* Kinds of events that are not queued.                                      *)

NoKind(K, evs) == \A i \in DOMAIN evs : evs[i].kind \notin K
Setters == {"STA_GOT_IP", "STA_DISCONNECTED"}

LEMMA NoKindAppend ==
    ASSUME NEW K, NEW evs \in Seq(EventSet), NEW e \in EventSet
    PROVE  NoKind(K, Append(evs, e)) <=> NoKind(K, evs) /\ e.kind \notin K
<1> DEFINE m == Len(evs)
<1>1. PICK new : new = Append(evs, e)
  OBVIOUS
<1>2. /\ m \in Nat /\ DOMAIN evs = 1..m /\ DOMAIN new = 1..(m + 1) /\ new[m + 1] = e
      /\ \A i \in 1..m : new[i] = evs[i]
      /\ \A i \in 1..(m + 1) : i \in 1..m \/ i = m + 1
  BY <1>1, AppendIs, Zenon
<1> HIDE DEF m
<1>3. m + 1 \in 1..(m + 1) /\ 1..m \subseteq 1..(m + 1)
  BY <1>2
<1>4. NoKind(K, new) <=> NoKind(K, evs) /\ e.kind \notin K
  BY <1>2, <1>3 DEF NoKind
<1> QED BY <1>1, <1>4

LEMMA NoKindTail ==
    ASSUME NEW K, NEW evs \in Seq(EventSet), evs # <<>>
    PROVE  NoKind(K, evs) <=> NoKind(K, Tail(evs)) /\ Head(evs).kind \notin K
<1>1. PICK rest : rest = Tail(evs)
  OBVIOUS
<1>2. /\ Head(evs) = evs[1] /\ 1 \in DOMAIN evs
      /\ \A i \in DOMAIN rest : i \in Nat \ {0} /\ i + 1 \in DOMAIN evs /\ rest[i] = evs[i + 1]
      /\ \A i \in DOMAIN evs : i = 1 \/ (i - 1 \in DOMAIN rest /\ i \in Nat)
  BY <1>1, TailIs, Zenon
<1>3. NoKind(K, evs) => NoKind(K, rest) /\ evs[1].kind \notin K
  BY <1>2 DEF NoKind
<1>4. ASSUME NoKind(K, rest), evs[1].kind \notin K, NEW i \in DOMAIN evs PROVE evs[i].kind \notin K
  <2>1. CASE i # 1
    <3>1. i - 1 \in DOMAIN rest /\ i \in Nat /\ (i - 1) + 1 = i
      BY <1>2, <2>1
    <3> QED BY <1>2, <1>4, <3>1 DEF NoKind
  <2> QED BY <1>4, <2>1
<1> QED BY <1>1, <1>2, <1>3, <1>4 DEF NoKind

\* In the netif build nothing but the link of a station sets m_ip.
LEMMA QuietSettles ==
    ASSUME netif, NEW evs, NEW ip, NEW ip2, NEW a
    PROVE  /\ NoKind(Setters, evs) => Settles(netif, evs, a, a)
           /\ ~NoKind(Setters, evs) /\ Settles(netif, evs, ip, a) => Settles(netif, evs, ip2, a)
<1>1. \A i \in DOMAIN evs : Sets(netif, evs[i]) <=> evs[i].kind \in Setters
  BY DEF Sets, Setters
<1> QED BY <1>1 DEF NoKind, Settles

-----------------------------------------------------------------------------
(* What connect and startAp queue.                                           *)

TypeInv == TypeOK /\ events \in Seq(EventSet)

LEMMA EventType == \A k \in Kinds : \A ip \in Leases \cup {0} : Event(k, ip) \in EventSet
BY DEF Event, EventSet

LEMMA OneMore ==
    ASSUME NEW evs \in Seq(EventSet), NEW e \in EventSet
    PROVE  evs \o <<e>> = Append(evs, e) /\ evs \o <<>> = evs
OBVIOUS

\* The events come one behind the other.
LEMMA SwitchEvents ==
    ASSUME TypeInv, NEW to, NEW started \in Kinds, Switch(to, started)
    PROVE  \E s1, s2, s3 \in Seq(EventSet), reported \in {FALSE, scanning} :
              /\ s1 = IF link = "connected" THEN Append(events, Event("STA_DISCONNECTED", 0))
                      ELSE events
              /\ s2 = IF mode = "ap" THEN Append(s1, Event("AP_STOP", 0)) ELSE s1
              /\ s3 = IF reported THEN Append(s2, Event("SCAN_DONE", 0)) ELSE s2
              /\ events' = Append(s3, Event(started, 0))
              /\ events' \in Seq(EventSet) /\ Len(events') <= Len(events) + 4
              /\ done' = IF reported THEN scans ELSE done
<1> DEFINE A == IF link = "connected" THEN <<Event("STA_DISCONNECTED", 0)>> ELSE <<>>
           B == IF mode = "ap" THEN <<Event("AP_STOP", 0)>> ELSE <<>>
<1>1. PICK reported \in {FALSE, scanning} :
        /\ events' = events \o StopEvents
                      \o (IF reported THEN <<Event("SCAN_DONE", 0)>> ELSE <<>>)
                      \o <<Event(started, 0)>>
        /\ done' = IF reported THEN scans ELSE done
  BY DEF Switch
<1>2. /\ Event("STA_DISCONNECTED", 0) \in EventSet /\ Event("AP_STOP", 0) \in EventSet
      /\ Event("SCAN_DONE", 0) \in EventSet /\ Event(started, 0) \in EventSet
  BY EventType DEF Kinds
<1>3. events \in Seq(EventSet) /\ Len(events) \in Nat
  BY DEF TypeInv
<1>4. PICK s1 : s1 = IF link = "connected" THEN Append(events, Event("STA_DISCONNECTED", 0))
                     ELSE events
  OBVIOUS
<1>5. s1 \in Seq(EventSet) /\ Len(s1) <= Len(events) + 1 /\ s1 = events \o A
  BY <1>2, <1>3, <1>4, AppendIs, OneMore
<1>6. PICK s2 : s2 = IF mode = "ap" THEN Append(s1, Event("AP_STOP", 0)) ELSE s1
  OBVIOUS
<1>7. s2 \in Seq(EventSet) /\ Len(s2) <= Len(s1) + 1 /\ s2 = s1 \o B
  <2>1. CASE mode = "ap"
    BY <1>2, <1>5, <1>6, <2>1, AppendIs, OneMore
  <2>2. CASE mode # "ap"
    <3>1. s2 = s1 /\ B = <<>>
      BY <1>6, <2>2
    <3> HIDE DEF B
    <3> QED BY <1>5, <3>1, OneMore, <1>2, LenProperties
  <2> QED BY <2>1, <2>2
<1>8. PICK s3 : s3 = IF reported THEN Append(s2, Event("SCAN_DONE", 0)) ELSE s2
  OBVIOUS
<1>9. /\ s3 \in Seq(EventSet) /\ Len(s3) <= Len(s2) + 1
      /\ s3 = s2 \o (IF reported THEN <<Event("SCAN_DONE", 0)>> ELSE <<>>)
  <2>1. CASE reported
    <3>1. s3 = Append(s2, Event("SCAN_DONE", 0))
      BY <1>8, <2>1
    <3>2. s3 \in Seq(EventSet) /\ Len(s3) = Len(s2) + 1 /\ Len(s2) \in Nat
      BY <1>2, <1>7, <3>1, AppendIs
    <3>3. s3 = s2 \o <<Event("SCAN_DONE", 0)>>
      BY <1>2, <1>7, <3>1, OneMore
    <3> QED BY <2>1, <3>2, <3>3
  <2>2. CASE ~reported
    <3>1. s3 = s2 /\ Len(s2) \in Nat
      BY <1>7, <1>8, <2>2
    <3>2. s2 \o <<>> = s2
      BY <1>2, <1>7, OneMore
    <3> QED BY <1>7, <2>2, <3>1, <3>2
  <2> QED BY <2>1, <2>2
<1>10. events \o StopEvents = s2
  <2>1. A \in Seq(EventSet) /\ B \in Seq(EventSet)
    BY <1>2
  <2>2. StopEvents = A \o B
    BY DEF StopEvents
  <2> HIDE DEF A, B
  <2>3. (events \o A) \o B = events \o (A \o B)
    BY <1>3, <2>1, ConcatAssociative
  <2> QED BY <1>5, <1>7, <2>2, <2>3
<1> HIDE DEF A, B
<1>11. events' = s3 \o <<Event(started, 0)>>
  BY <1>1, <1>9, <1>10, Zenon
<1>12. events' = Append(s3, Event(started, 0))
  BY <1>2, <1>9, <1>11, OneMore
<1>13. events' \in Seq(EventSet) /\ Len(events') = Len(s3) + 1
  BY <1>2, <1>9, <1>12, AppendIs
<1>14. Len(events') <= Len(events) + 4
  <2>1. Len(s1) \in Nat /\ Len(s2) \in Nat /\ Len(s3) \in Nat
    BY <1>5, <1>7, <1>9, LenProperties
  <2> QED BY <1>3, <1>5, <1>7, <1>9, <1>13, <2>1
<1> QED BY <1>1, <1>4, <1>5, <1>6, <1>7, <1>8, <1>9, <1>12, <1>13, <1>14, Zenon

-----------------------------------------------------------------------------
(* The address.                                                              *)

\* the device has an address exactly as long as it has a link or is an access point, and
\* a driver that was never started reports nothing
DriverInv ==
    /\ mode = "off" => events = <<>> /\ link = "down" /\ ~scanning /\ ~ap_used
    /\ mode # "ap" /\ link # "connected" => address = 0
    /\ mode = "ap" => ap_used /\ address = ApIp
    /\ calling => netif /\ ap_used /\ mode = "ap"

\* What m_ip will be: the address, but in the netif build once startAp was called.  There
\* the end of the former link leaves nothing, and what startAp stored stays for a station.
IpInv ==
    /\ ~(netif /\ ap_used) => Settles(netif, events, m_ip, address)
    /\ netif /\ calling => \E ip : Settles(netif, events, ip, 0)
    /\ netif /\ mode = "ap" /\ ~calling =>
          \/ overtaken /\ Settles(netif, events, m_ip, 0)
          \/ ~overtaken /\ m_ip = ApIp /\ NoKind(Setters, events)
    /\ netif /\ ap_used /\ mode # "ap" =>
          \/ Settles(netif, events, m_ip, address)
          \/ address = 0 /\ m_ip = ApIp /\ NoKind(Setters, events)

WiFiInv == TypeInv /\ DriverInv /\ IpInv

LEMMA WiFiInitially == Init => WiFiInv
<1> SUFFICES ASSUME Init PROVE WiFiInv
  OBVIOUS
<1>1. events = <<>> /\ events \in Seq(EventSet) /\ Len(events) <= MaxEvents + 4
  BY WiFiAssumption DEF Init
<1>2. Settles(netif, events, m_ip, address)
  BY <1>1, SettlesEmpty DEF Init
<1>3. TypeOK
  <2>1. done \in 0..scans /\ scans \in Nat /\ mine \in [Callers -> 0..scans]
    BY DEF Init
  <2> QED BY <1>1, <2>1 DEF Init, TypeOK
<1> QED BY <1>1, <1>2, <1>3 DEF Init, WiFiInv, TypeInv, DriverInv, IpInv

\* What the netif build's queue says of m_ip when the driver is switched.
LEMMA SwitchSettles ==
    ASSUME TypeInv, netif, NEW to, NEW started \in {"STA_START", "AP_START"}, Switch(to, started),
           NEW ip, NEW a
    PROVE  /\ link = "connected" => Settles(netif, events', ip, 0)
           /\ link # "connected" /\ Settles(netif, events, ip, a) => Settles(netif, events', ip, a)
           /\ link # "connected" /\ NoKind(Setters, events) => NoKind(Setters, events')
<1>1. PICK s1, s2, s3 \in Seq(EventSet), reported \in {FALSE, scanning} :
              /\ s1 = IF link = "connected" THEN Append(events, Event("STA_DISCONNECTED", 0))
                      ELSE events
              /\ s2 = IF mode = "ap" THEN Append(s1, Event("AP_STOP", 0)) ELSE s1
              /\ s3 = IF reported THEN Append(s2, Event("SCAN_DONE", 0)) ELSE s2
              /\ events' = Append(s3, Event(started, 0))
              /\ events' \in Seq(EventSet) /\ Len(events') <= Len(events) + 4
              /\ done' = IF reported THEN scans ELSE done
  <2>1. started \in Kinds
    BY DEF Kinds
  <2> QED BY <2>1, SwitchEvents, Zenon
<1>2. /\ Event("STA_DISCONNECTED", 0) \in EventSet /\ Event("AP_STOP", 0) \in EventSet
      /\ Event("SCAN_DONE", 0) \in EventSet /\ Event(started, 0) \in EventSet
      /\ events \in Seq(EventSet)
  BY EventType DEF Kinds, TypeInv
<1>3. /\ Sets(netif, Event("STA_DISCONNECTED", 0)) /\ IpOf(Event("STA_DISCONNECTED", 0)) = 0
      /\ ~Sets(netif, Event("AP_STOP", 0)) /\ ~Sets(netif, Event("SCAN_DONE", 0))
      /\ ~Sets(netif, Event(started, 0))
      /\ Event("AP_STOP", 0).kind \notin Setters /\ Event("SCAN_DONE", 0).kind \notin Setters
      /\ Event(started, 0).kind \notin Setters
  BY DEF Sets, IpOf, Event, Setters
<1>4. ASSUME NEW b, Settles(netif, s1, ip, b) PROVE Settles(netif, events', ip, b)
  <2>1. Settles(netif, s2, ip, b)
    BY <1>1, <1>2, <1>3, <1>4, SettlesAppend
  <2>2. Settles(netif, s3, ip, b)
    BY <1>1, <1>2, <1>3, <2>1, SettlesAppend
  <2> QED BY <1>1, <1>2, <1>3, <2>2, SettlesAppend
<1>5. CASE link = "connected"
  <2>1. Settles(netif, s1, ip, 0)
    BY <1>1, <1>2, <1>3, <1>5, SettlesAppend
  <2> QED BY <1>4, <1>5, <2>1
<1>6. CASE link # "connected"
  <2>1. s1 = events
    BY <1>1, <1>6
  <2>2. NoKind(Setters, s1) => NoKind(Setters, s2)
    BY <1>1, <1>2, <1>3, NoKindAppend
  <2>3. NoKind(Setters, s2) => NoKind(Setters, s3)
    BY <1>1, <1>2, <1>3, NoKindAppend
  <2>4. NoKind(Setters, s3) => NoKind(Setters, events')
    BY <1>1, <1>2, <1>3, NoKindAppend
  <2> QED BY <1>4, <1>6, <2>1, <2>2, <2>3, <2>4
<1> QED BY <1>5, <1>6

\* connect
LEMMA ConnectWiFi == ASSUME WiFiInv, connect PROVE WiFiInv'
<1> USE DEF WiFiInv, TypeInv
<1>1. Switch("sta", "STA_START") /\ "STA_START" \in Kinds
  BY DEF connect, Kinds
<1>2. PICK s1, s2, s3 \in Seq(EventSet), reported \in {FALSE, scanning} :
              /\ s1 = IF link = "connected" THEN Append(events, Event("STA_DISCONNECTED", 0))
                      ELSE events
              /\ s2 = IF mode = "ap" THEN Append(s1, Event("AP_STOP", 0)) ELSE s1
              /\ s3 = IF reported THEN Append(s2, Event("SCAN_DONE", 0)) ELSE s2
              /\ events' = Append(s3, Event("STA_START", 0))
              /\ events' \in Seq(EventSet) /\ Len(events') <= Len(events) + 4
              /\ done' = IF reported THEN scans ELSE done
  BY <1>1, SwitchEvents
<1>3. /\ mode' = "sta" /\ link' = "down" /\ scanning' = FALSE /\ address' = 0
      /\ Len(events) <= MaxEvents
      /\ UNCHANGED <<netif, m_ip, calling, ap_used, overtaken, gScanDoneEv, scans, waiting, mine,
                     leftover>>
      /\ ~calling
  BY DEF connect, Switch, ap_vars, callers
<1>4. TypeInv'
  <2>1. Len(events') \in Nat /\ Len(events) \in Nat /\ MaxEvents \in Nat
    BY <1>2, WiFiAssumption, LenProperties
  <2>2. Len(events') <= MaxEvents + 4
    BY <1>2, <1>3, <2>1
  <2>3. done' \in 0..scans'
    BY <1>2, <1>3 DEF TypeOK
  <2> QED BY <1>2, <1>3, <2>2, <2>3 DEF TypeOK
<1>5. DriverInv'
  BY <1>3 DEF DriverInv
<1>6. ASSUME ~(netif /\ ap_used) PROVE Settles(netif, events', m_ip, 0)
  <2>1. Settles(netif, events, m_ip, address)
    BY <1>6 DEF IpInv
  <2>2. /\ Event("STA_DISCONNECTED", 0) \in EventSet /\ Event("AP_STOP", 0) \in EventSet
        /\ Event("SCAN_DONE", 0) \in EventSet /\ Event("STA_START", 0) \in EventSet
    BY EventType DEF Kinds
  <2>3. /\ Sets(netif, Event("STA_DISCONNECTED", 0)) /\ IpOf(Event("STA_DISCONNECTED", 0)) = 0
        /\ ~Sets(netif, Event("SCAN_DONE", 0)) /\ ~Sets(netif, Event("STA_START", 0))
        /\ ~netif => Sets(netif, Event("AP_STOP", 0)) /\ IpOf(Event("AP_STOP", 0)) = 0
    BY DEF Sets, IpOf, Event
  <2>4. mode = "ap" => ~netif
    BY <1>6 DEF DriverInv
  <2>5. Settles(netif, s1, m_ip, IF link = "connected" THEN 0 ELSE address)
    BY <1>2, <2>1, <2>2, <2>3, SettlesAppend
  <2>6. Settles(netif, s2, m_ip, 0)
    <3>1. CASE mode = "ap"
      BY <1>2, <2>2, <2>3, <2>4, <3>1, SettlesAppend
    <3>2. CASE mode # "ap"
      BY <1>2, <2>5, <3>2 DEF DriverInv
    <3> QED BY <3>1, <3>2
  <2>7. Settles(netif, s3, m_ip, 0)
    BY <1>2, <2>2, <2>3, <2>6, SettlesAppend
  <2> QED BY <1>2, <2>2, <2>3, <2>7, SettlesAppend
<1>7. ASSUME netif, ap_used
      PROVE  \/ Settles(netif, events', m_ip, 0)
             \/ m_ip = ApIp /\ NoKind(Setters, events')
  <2>1. CASE link = "connected"
    BY <1>1, <1>7, <2>1, SwitchSettles
  <2>2. CASE link # "connected"
    <3>1. \/ Settles(netif, events, m_ip, 0)
          \/ m_ip = ApIp /\ NoKind(Setters, events)
      BY <1>3, <1>7, <2>2 DEF IpInv, DriverInv
    <3> QED BY <1>1, <1>7, <2>2, <3>1, SwitchSettles
  <2> QED BY <2>1, <2>2
<1> QED BY <1>3, <1>4, <1>5, <1>6, <1>7 DEF IpInv

\* startAp, whose last event sets m_ip in the tcpip build
LEMMA StartApWiFi == ASSUME WiFiInv, startAp PROVE WiFiInv'
<1> USE DEF WiFiInv, TypeInv
<1>1. Switch("ap", "AP_START") /\ "AP_START" \in Kinds
  BY DEF startAp, Kinds
<1>2. PICK s3 \in Seq(EventSet), reported \in {FALSE, scanning} :
              /\ events' = Append(s3, Event("AP_START", 0))
              /\ events' \in Seq(EventSet) /\ Len(events') <= Len(events) + 4
              /\ done' = IF reported THEN scans ELSE done
  BY <1>1, SwitchEvents
<1>3. /\ mode' = "ap" /\ link' = "down" /\ scanning' = FALSE /\ address' = ApIp
      /\ Len(events) <= MaxEvents /\ calling' = netif /\ ap_used' = TRUE
      /\ UNCHANGED <<netif, m_ip, overtaken, gScanDoneEv, scans, waiting, mine, leftover>>
      /\ ~calling
  BY DEF startAp, Switch, callers
<1>4. TypeInv'
  <2>1. Len(events') \in Nat /\ Len(events) \in Nat /\ MaxEvents \in Nat
    BY <1>2, WiFiAssumption, LenProperties
  <2>2. Len(events') <= MaxEvents + 4
    BY <1>2, <1>3, <2>1
  <2>3. done' \in 0..scans'
    BY <1>2, <1>3 DEF TypeOK
  <2> QED BY <1>2, <1>3, <2>2, <2>3 DEF TypeOK
<1>5. DriverInv'
  BY <1>3 DEF DriverInv, TypeOK
<1>6. ASSUME ~netif PROVE Settles(netif, events', m_ip, ApIp)
  <2>1. Event("AP_START", 0) \in EventSet
    BY EventType DEF Kinds
  <2>2. Sets(netif, Event("AP_START", 0)) /\ IpOf(Event("AP_START", 0)) = ApIp
    BY <1>6 DEF Sets, IpOf, Event
  <2> QED BY <1>2, <2>1, <2>2, SettlesAppend
<1>7. ASSUME netif PROVE \E ip : Settles(netif, events', ip, 0)
  <2>1. CASE link = "connected"
    BY <1>1, <1>7, <2>1, SwitchSettles
  <2>2. CASE link # "connected"
    <3>1. \E ip : Settles(netif, events, ip, 0)
      <4>1. \/ Settles(netif, events, m_ip, 0)
            \/ NoKind(Setters, events)
        BY <1>3, <1>7, <2>2 DEF IpInv, DriverInv
      <4> QED BY <1>7, <4>1, QuietSettles
    <3> QED BY <1>1, <1>7, <2>2, <3>1, SwitchSettles
  <2> QED BY <2>1, <2>2
<1> QED BY <1>3, <1>4, <1>5, <1>6, <1>7 DEF IpInv

\* What the driver reports is queued, and takes effect behind the rest.
LEMMA ReportsWiFi ==
    ASSUME WiFiInv, NEW e \in EventSet, Reports(e),
           e.kind \in {"STA_DISCONNECTED", "STA_GOT_IP", "SCAN_DONE"},
           address' = IF e.kind = "SCAN_DONE" THEN address ELSE IpOf(e),
           e.kind # "SCAN_DONE" => mode # "ap"
    PROVE  /\ events' \in Seq(EventSet) /\ Len(events') <= MaxEvents + 4 /\ IpInv'
           /\ UNCHANGED <<netif, mode, m_ip, calling, ap_used, overtaken, gScanDoneEv, scans,
                          waiting, mine, leftover>>
<1> USE DEF WiFiInv, TypeInv
<1>1. /\ events' = Append(events, e) /\ Len(events) < MaxEvents
      /\ UNCHANGED <<netif, mode, m_ip, calling, ap_used, overtaken, gScanDoneEv, scans, waiting,
                          mine, leftover>>
  BY DEF Reports, ap_vars, callers
<1>2. events' \in Seq(EventSet) /\ Len(events') = Len(events) + 1 /\ Len(events) \in Nat
  BY <1>1, AppendIs
<1>3. Sets(netif, e) <=> e.kind # "SCAN_DONE"
  BY DEF Sets
<1>4. IpInv'
  <2>1. ASSUME ~(netif /\ ap_used) PROVE Settles(netif, events', m_ip, address')
    BY <1>1, <1>3, <2>1, SettlesAppend DEF IpInv
  <2>2. CASE e.kind = "SCAN_DONE"
    <3>1. \A ip, a : Settles(netif, events, ip, a) => Settles(netif, events', ip, a)
      BY <1>1, <1>3, <2>2, SettlesAppend
    <3>2. NoKind(Setters, events) => NoKind(Setters, events')
      BY <1>1, <2>2, NoKindAppend DEF Setters
    <3> QED BY <1>1, <2>1, <2>2, <3>1, <3>2 DEF IpInv
  <2>3. CASE e.kind # "SCAN_DONE"
    <3>1. Settles(netif, events', m_ip, address')
      BY <1>1, <1>3, <2>3, SettlesAppend
    <3>2. mode' # "ap" /\ ~calling'
      BY <1>1, <2>3 DEF DriverInv
    <3> QED BY <1>1, <3>1, <3>2 DEF IpInv
  <2> QED BY <2>2, <2>3
<1> QED BY <1>1, <1>2, <1>4, WiFiAssumption

LEMMA DriverWiFi ==
    ASSUME WiFiInv, LosesLink \/ ScanEnds \/ \E ip \in Leases : GetsIp(ip)
    PROVE  WiFiInv'
<1> USE DEF WiFiInv, TypeInv
<1>1. CASE LosesLink
  <2>1. PICK e \in EventSet : e = Event("STA_DISCONNECTED", 0)
    BY EventType DEF Kinds
  <2>2. e.kind = "STA_DISCONNECTED" /\ IpOf(e) = 0
    BY <2>1 DEF Event, IpOf
  <2>3. /\ Reports(e) /\ address' = 0 /\ link' = "down" /\ mode = "sta"
        /\ UNCHANGED <<scanning, done>>
    BY <1>1, <2>1 DEF LosesLink, TypeOK
  <2>4. /\ events' \in Seq(EventSet) /\ Len(events') <= MaxEvents + 4 /\ IpInv'
        /\ UNCHANGED <<netif, mode, m_ip, calling, ap_used, overtaken, gScanDoneEv, scans, waiting,
                          mine, leftover>>
    BY <2>2, <2>3, ReportsWiFi
  <2> QED BY <2>3, <2>4 DEF TypeOK, DriverInv
<1>2. CASE ScanEnds
  <2>1. PICK e \in EventSet : e = Event("SCAN_DONE", 0)
    BY EventType DEF Kinds
  <2>2. e.kind = "SCAN_DONE"
    BY <2>1 DEF Event
  <2>3. /\ Reports(e) /\ address' = address /\ link' = link /\ scanning /\ scanning' = FALSE
        /\ done' = scans
    BY <1>2, <2>1 DEF ScanEnds
  <2>4. /\ events' \in Seq(EventSet) /\ Len(events') <= MaxEvents + 4 /\ IpInv'
        /\ UNCHANGED <<netif, mode, m_ip, calling, ap_used, overtaken, gScanDoneEv, scans, waiting,
                          mine, leftover>>
    BY <2>2, <2>3, ReportsWiFi
  <2>5. done' \in 0..scans'
    BY <2>3, <2>4 DEF TypeOK
  <2>6. DriverInv'
    BY <2>3, <2>4 DEF DriverInv
  <2> QED BY <2>3, <2>4, <2>5, <2>6 DEF TypeOK
<1>3. ASSUME NEW ip \in Leases, GetsIp(ip) PROVE WiFiInv'
  <2>1. PICK e \in EventSet : e = Event("STA_GOT_IP", ip)
    BY EventType DEF Kinds
  <2>2. e.kind = "STA_GOT_IP" /\ IpOf(e) = ip
    BY <2>1 DEF Event, IpOf
  <2>3. /\ Reports(e) /\ address' = ip /\ link' = "connected" /\ mode = "sta"
        /\ UNCHANGED <<scanning, done>>
    BY <1>3, <2>1 DEF GetsIp, TypeOK
  <2>4. /\ events' \in Seq(EventSet) /\ Len(events') <= MaxEvents + 4 /\ IpInv'
        /\ UNCHANGED <<netif, mode, m_ip, calling, ap_used, overtaken, gScanDoneEv, scans, waiting,
                          mine, leftover>>
    BY <2>2, <2>3, ReportsWiFi
  <2> QED BY <2>3, <2>4 DEF TypeOK, DriverInv
<1> QED BY <1>1, <1>2, <1>3

LEMMA HandleWiFi == ASSUME WiFiInv, HandleEvent PROVE WiFiInv'
<1> USE DEF WiFiInv, TypeInv
<1>1. events # <<>> /\ events \in Seq(EventSet) /\ netif \in BOOLEAN
  BY DEF HandleEvent, TypeOK
<1>2. PICK e \in EventSet : e = Head(events)
  BY <1>1, TailIs
<1>3. /\ events' = Tail(events) /\ m_ip' = NewIp(e)
      /\ link' = IF e.kind \in {"STA_START", "STA_DISCONNECTED"} THEN Connecting ELSE link
      /\ gScanDoneEv' = (gScanDoneEv \/ Gives(e))
      /\ UNCHANGED <<netif, mode, address, scanning, calling, ap_used, overtaken, scans, done,
                     waiting, mine, leftover>>
  BY <1>2 DEF HandleEvent, ap_vars, callers
<1>4. /\ events' \in Seq(EventSet) /\ Len(events') <= MaxEvents + 4
  <2>1. Len(events') = Len(events) - 1 /\ Len(events) \in Nat /\ events' \in Seq(EventSet)
    BY <1>1, <1>3, TailIs
  <2> QED BY <2>1, WiFiAssumption DEF TypeOK
<1>5. m_ip' = IF Sets(netif, e) THEN IpOf(e) ELSE m_ip
  BY <1>1, <1>3, NewIpIs
<1>6. m_ip' \in Leases \cup {0, ApIp}
  BY <1>5 DEF TypeOK, IpOf, EventSet
<1>7. gScanDoneEv' \in BOOLEAN
  BY <1>3 DEF Gives, TypeOK
<1>8. /\ link' \in {"down", "connecting", "connected"}
      /\ link' # "down" => mode = "sta"
      /\ link' = "connected" <=> link = "connected"
  BY <1>3 DEF Connecting, TypeOK
<1>9. IpInv'
  <2>1. \A ip, a : Settles(netif, events, ip, a)
           => Settles(netif, events', IF Sets(netif, e) THEN IpOf(e) ELSE ip, a)
    BY <1>1, <1>2, <1>3, SettlesTail
  <2>2. \A a : Settles(netif, events, m_ip, a) => Settles(netif, events', m_ip', a)
    BY <1>5, <2>1
  <2>3. netif /\ NoKind(Setters, events) => NoKind(Setters, events') /\ m_ip' = m_ip
    <3>1. NoKind(Setters, events) => NoKind(Setters, events') /\ e.kind \notin Setters
      BY <1>1, <1>2, <1>3, NoKindTail
    <3>2. netif /\ e.kind \notin Setters => ~Sets(netif, e)
      BY DEF Sets, Setters
    <3> QED BY <1>5, <3>1, <3>2
  <2>4. (\E ip : Settles(netif, events, ip, 0)) => \E ip : Settles(netif, events', ip, 0)
    BY <2>1
  <2> QED BY <1>3, <2>2, <2>3, <2>4 DEF IpInv
<1>10. DriverInv'
  BY <1>1, <1>3, <1>8 DEF DriverInv
<1> QED BY <1>3, <1>4, <1>6, <1>7, <1>8, <1>9, <1>10 DEF TypeOK

LEMMA CallersWiFi ==
    ASSUME WiFiInv, \/ StoreApIp \/ UNCHANGED vars
                    \/ \E c \in Callers :
                          scanAsync(c) \/ TakeSemaphore(c) \/ TakeTimesOut(c) \/ ReadResults(c)
    PROVE  WiFiInv'
<1> USE DEF WiFiInv, TypeInv, ap_vars, callers
<1>1. CASE StoreApIp
  <2>1. /\ UNCHANGED <<netif, mode, link, address, scanning, events, gScanDoneEv, scans, done,
                       waiting, mine, leftover, ap_used>>
        /\ calling /\ calling' = FALSE /\ m_ip' = address
        /\ overtaken' = Queued({"STA_GOT_IP", "STA_DISCONNECTED"})
    BY <1>1 DEF StoreApIp, driver, scan_vars
  <2>2. netif /\ ap_used /\ mode = "ap" /\ address = ApIp
    BY <2>1 DEF DriverInv
  <2>3. overtaken' = ~NoKind(Setters, events)
    BY <2>1 DEF NoKind, Setters, Queued
  <2>4. PICK ip : Settles(netif, events, ip, 0)
    BY <2>1, <2>2 DEF IpInv
  <2>5. overtaken' => Settles(netif, events, m_ip', 0)
    BY <2>2, <2>3, <2>4, QuietSettles
  <2>6. IpInv'
    BY <2>1, <2>2, <2>3, <2>5 DEF IpInv
  <2>7. overtaken' \in BOOLEAN
    BY <2>3
  <2> QED BY <2>1, <2>2, <2>6, <2>7 DEF TypeOK, DriverInv
<1>2. ASSUME NEW c \in Callers, scanAsync(c) PROVE WiFiInv'
  <2>1. PICK e \in EventSet : e = Event("STA_START", 0)
    BY EventType DEF Kinds
  <2>2. ~Sets(netif, e) /\ e.kind \notin Setters
    BY <2>1 DEF Sets, Event, Setters
  <2>3. /\ events' = IF mode = "off" THEN Append(events, e) ELSE events
        /\ mode # "ap" /\ mode' = "sta" /\ scanning' = TRUE /\ scans' = scans + 1
        /\ UNCHANGED <<netif, link, address, m_ip, calling, gScanDoneEv, done, ap_used, overtaken>>
    BY <1>2, <2>1 DEF scanAsync
  <2>4. events' \in Seq(EventSet) /\ Len(events') <= MaxEvents + 4
    <3>1. CASE mode = "off"
      <4>1. events = <<>> /\ Len(events) = 0 /\ events \in Seq(EventSet)
        BY <3>1 DEF DriverInv
      <4>2. events' \in Seq(EventSet) /\ Len(events') = Len(events) + 1
        BY <2>3, <3>1, <4>1, AppendIs
      <4> QED BY <4>1, <4>2, WiFiAssumption
    <3>2. CASE mode # "off"
      BY <2>3, <3>2 DEF TypeOK
    <3> QED BY <3>1, <3>2
  <2>5. IpInv'
    <3>1. \A ip, a : Settles(netif, events, ip, a) => Settles(netif, events', ip, a)
      BY <2>2, <2>3, SettlesAppend
    <3>2. NoKind(Setters, events) => NoKind(Setters, events')
      BY <2>2, <2>3, NoKindAppend
    <3> QED BY <2>3, <3>1, <3>2 DEF IpInv, DriverInv
  <2>6. /\ scans' \in Nat /\ done' \in 0..scans' /\ mine' \in [Callers -> 0..scans']
        /\ waiting' \in [Callers -> {"no", "yes", "told"}] /\ leftover' \subseteq Callers
    <3>1. scans \in Nat /\ done \in 0..scans /\ mine \in [Callers -> 0..scans]
      BY DEF TypeOK
    <3>2. mine' = [mine EXCEPT ![c] = scans + 1] /\ waiting' = [waiting EXCEPT ![c] = "yes"]
          /\ (leftover' = leftover \cup {c} \/ leftover' = leftover \ {c})
      BY <1>2 DEF scanAsync
    <3>3. \A k \in 0..scans : k \in 0..(scans + 1)
      BY <3>1
    <3>4. mine' \in [Callers -> 0..scans']
      BY <2>3, <3>1, <3>2, <3>3
    <3> QED BY <2>3, <3>1, <3>2, <3>4 DEF TypeOK
  <2> QED BY <2>3, <2>4, <2>5, <2>6 DEF TypeOK, DriverInv
<1>3. CASE \/ UNCHANGED vars
           \/ \E c \in Callers : TakeSemaphore(c) \/ TakeTimesOut(c) \/ ReadResults(c)
  <2>1. /\ UNCHANGED <<netif, mode, link, address, scanning, events, m_ip, calling, ap_used,
                       overtaken, scans, done, mine, leftover>>
        /\ gScanDoneEv' \in BOOLEAN /\ waiting' \in [Callers -> {"no", "yes", "told"}]
    BY <1>3 DEF TakeSemaphore, TakeTimesOut, ReadResults, vars, driver, scan_vars, TypeOK
  <2> QED BY <2>1 DEF TypeOK, DriverInv, IpInv
<1> QED BY <1>1, <1>2, <1>3

LEMMA WiFiInvariance == Spec => []WiFiInv
<1>1. WiFiInv /\ [Next]_vars => WiFiInv'
  BY ConnectWiFi, StartApWiFi, DriverWiFi, HandleWiFi, CallersWiFi DEF Next
<1> QED BY <1>1, WiFiInitially, PTL DEF Spec

\* Once the events are handled m_ip is the device's address, in whatever order links,
\* leases and modes came: the last event that sets it was queued when the address last
\* changed.  The netif build has two exceptions, because startAp stores the address on its
\* own: it is cleared by the end of a former link that is handled after that, and a
\* station starts with it (rbwifi_netif.cpp 131-133, 191-225, rbwifi_tcpip.cpp 98-140).
THEOREM IpIsCurrent == Spec => []CurrentIp
<1>1. WiFiInv => CurrentIp
  <2> SUFFICES ASSUME WiFiInv, events = <<>>, ~calling
               PROVE  \/ ~(netif /\ mode = "ap" /\ overtaken) /\ m_ip = address
                      \/ netif /\ mode = "ap" /\ overtaken /\ m_ip = 0
                      \/ netif /\ mode = "sta" /\ ap_used /\ address = 0 /\ m_ip = ApIp
    BY DEF CurrentIp, WiFiInv, TypeInv
  <2>1. \A a : Settles(netif, events, m_ip, a) => m_ip = a
    BY SettlesEmpty
  <2>2. /\ mode = "ap" => ap_used /\ address = ApIp
        /\ mode = "off" => ~ap_used
    BY DEF WiFiInv, DriverInv
  <2>3. mode \in {"off", "sta", "ap"}
    BY DEF WiFiInv, TypeInv, TypeOK
  <2>4. CASE netif /\ ap_used
    <3>1. CASE mode = "ap"
      <4>1. \/ overtaken /\ m_ip = 0
            \/ ~overtaken /\ m_ip = ApIp
        BY <2>1, <2>4, <3>1 DEF WiFiInv, IpInv
      <4> QED BY <2>2, <2>4, <3>1, <4>1
    <3>2. CASE mode = "sta"
      <4>1. m_ip = address \/ (address = 0 /\ m_ip = ApIp)
        BY <2>1, <2>4, <3>2 DEF WiFiInv, IpInv
      <4> QED BY <2>4, <3>2, <4>1
    <3> QED BY <2>2, <2>3, <2>4, <3>1, <3>2
  <2>5. CASE ~(netif /\ ap_used)
    <3>1. m_ip = address
      BY <2>1, <2>5 DEF WiFiInv, IpInv
    <3> QED BY <2>2, <2>5, <3>1
  <2> QED BY <2>4, <2>5
<1> QED BY <1>1, WiFiInvariance, PTL

-----------------------------------------------------------------------------
(* The scans.                                                                *)

\* the end of a scan is in the semaphore or on its way to it
Ended == gScanDoneEv \/ ~NoKind({"SCAN_DONE"}, events)

\* It is the end of a scan no older than that of any caller who saw none when it began.
ScanInv ==
    \A c \in Callers : c \notin leftover =>
        /\ waiting[c] = "yes" /\ Ended => mine[c] <= done
        /\ waiting[c] = "told" => mine[c] <= done

LEMMA ScanInitially == Init => ScanInv
BY DEF Init, ScanInv, Ended, NoKind

\* Ends are queued when the driver reports the newest scan as done, which is nobody's past.
LEMMA Reported ==
    ASSUME TypeInv, ScanInv, UNCHANGED <<gScanDoneEv, scans, waiting, mine, leftover>>,
           \/ done' = scans
           \/ done' = done /\ (NoKind({"SCAN_DONE"}, events) => NoKind({"SCAN_DONE"}, events'))
    PROVE  ScanInv'
<1>1. CASE done' = scans
  <2>1. \A c \in Callers : mine[c] <= scans
    BY DEF TypeInv, TypeOK
  <2> QED BY <1>1, <2>1 DEF ScanInv
<1>2. CASE done' = done /\ (NoKind({"SCAN_DONE"}, events) => NoKind({"SCAN_DONE"}, events'))
  <2>1. Ended' => Ended
    BY <1>2 DEF Ended
  <2> QED BY <1>2, <2>1 DEF ScanInv
<1> QED BY <1>1, <1>2

LEMMA ScanSwitch ==
    ASSUME TypeInv, ScanInv, NEW to, NEW started \in Kinds \ {"SCAN_DONE"}, Switch(to, started),
           UNCHANGED <<gScanDoneEv, scans, waiting, mine, leftover>>
    PROVE  ScanInv'
<1>1. PICK s1, s2, s3 \in Seq(EventSet), reported \in {FALSE, scanning} :
              /\ s1 = IF link = "connected" THEN Append(events, Event("STA_DISCONNECTED", 0))
                      ELSE events
              /\ s2 = IF mode = "ap" THEN Append(s1, Event("AP_STOP", 0)) ELSE s1
              /\ s3 = IF reported THEN Append(s2, Event("SCAN_DONE", 0)) ELSE s2
              /\ events' = Append(s3, Event(started, 0))
              /\ events' \in Seq(EventSet) /\ Len(events') <= Len(events) + 4
              /\ done' = IF reported THEN scans ELSE done
  BY SwitchEvents
<1>2. /\ Event("STA_DISCONNECTED", 0) \in EventSet /\ Event("AP_STOP", 0) \in EventSet
      /\ Event(started, 0) \in EventSet /\ events \in Seq(EventSet)
      /\ Event("STA_DISCONNECTED", 0).kind # "SCAN_DONE" /\ Event("AP_STOP", 0).kind # "SCAN_DONE"
      /\ Event(started, 0).kind # "SCAN_DONE"
  BY EventType DEF Kinds, Event, TypeInv
<1>3. CASE reported
  BY <1>1, <1>3, Reported
<1>4. CASE ~reported
  <2> DEFINE K == {"SCAN_DONE"}
  <2>1. NoKind(K, events) => NoKind(K, s1)
    BY <1>1, <1>2, NoKindAppend
  <2>2. NoKind(K, s1) => NoKind(K, s2)
    BY <1>1, <1>2, NoKindAppend
  <2>3. s3 = s2 /\ done' = done
    BY <1>1, <1>4
  <2>4. NoKind(K, s2) => NoKind(K, events')
    BY <1>1, <1>2, <2>3, NoKindAppend
  <2> QED BY <2>1, <2>2, <2>3, <2>4, Reported
<1> QED BY <1>3, <1>4

LEMMA ScanStep == WiFiInv /\ ScanInv /\ [Next]_vars => ScanInv'
<1> SUFFICES ASSUME WiFiInv, ScanInv, [Next]_vars PROVE ScanInv'
  OBVIOUS
<1>0. TypeInv /\ events \in Seq(EventSet)
  BY DEF WiFiInv, TypeInv
<1>1. CASE connect \/ startAp
  <2>1. UNCHANGED <<gScanDoneEv, scans, waiting, mine, leftover>>
    BY <1>1 DEF connect, startAp, callers
  <2>2. \E to : \E started \in Kinds \ {"SCAN_DONE"} : Switch(to, started)
    BY <1>1 DEF connect, startAp, Kinds
  <2> QED BY <1>0, <2>1, <2>2, ScanSwitch
<1>2. CASE StoreApIp \/ UNCHANGED vars
  <2>1. UNCHANGED <<events, gScanDoneEv, scans, done, waiting, mine, leftover>>
    BY <1>2 DEF StoreApIp, vars, driver, scan_vars, callers
  <2> QED BY <1>0, <2>1, Reported
<1>3. ASSUME NEW c \in Callers, scanAsync(c) PROVE ScanInv'
  <2>1. /\ gScanDoneEv' = gScanDoneEv /\ done' = done
        /\ waiting' = [waiting EXCEPT ![c] = "yes"] /\ mine' = [mine EXCEPT ![c] = scans + 1]
        /\ leftover' = IF Ended THEN leftover \cup {c} ELSE leftover \ {c}
    BY <1>3 DEF scanAsync, Ended, Queued, NoKind
  <2>2. waiting \in [Callers -> {"no", "yes", "told"}] /\ mine \in [Callers -> 0..scans]
    BY <1>0 DEF TypeInv, TypeOK
  <2>3. Ended' => Ended
    <3>1. PICK e \in EventSet : e = Event("STA_START", 0) /\ e.kind # "SCAN_DONE"
      <4>1. Event("STA_START", 0) \in EventSet
        BY EventType DEF Kinds
      <4>2. Event("STA_START", 0).kind # "SCAN_DONE"
        BY DEF Event
      <4> QED BY <4>1, <4>2
    <3>2. events' = IF mode = "off" THEN Append(events, e) ELSE events
      BY <1>3, <3>1 DEF scanAsync
    <3>3. NoKind({"SCAN_DONE"}, events) => NoKind({"SCAN_DONE"}, events')
      BY <1>0, <3>1, <3>2, NoKindAppend
    <3> QED BY <2>1, <3>3 DEF Ended
  <2>4. ASSUME NEW d \in Callers, d # c
        PROVE  /\ d \in leftover' <=> d \in leftover
               /\ waiting'[d] = waiting[d] /\ mine'[d] = mine[d]
    BY <2>1, <2>2, <2>4
  <2>5. waiting'[c] = "yes" /\ (c \notin leftover' => ~Ended)
    BY <2>1, <2>2
  <2> QED BY <2>1, <2>3, <2>4, <2>5 DEF ScanInv
<1>4. ASSUME NEW c \in Callers, TakeSemaphore(c) \/ TakeTimesOut(c) \/ ReadResults(c)
      PROVE  ScanInv'
  <2>1. UNCHANGED <<events, done, mine, leftover>> /\ (gScanDoneEv' => gScanDoneEv)
    BY <1>4 DEF TakeSemaphore, TakeTimesOut, ReadResults, driver
  <2>2. waiting \in [Callers -> {"no", "yes", "told"}]
    BY <1>0 DEF TypeInv, TypeOK
  <2>3. \A d \in Callers : \/ waiting'[d] = waiting[d]
                           \/ waiting'[d] = "no"
                           \/ waiting'[d] = "told" /\ waiting[d] = "yes" /\ gScanDoneEv
    BY <1>4, <2>2 DEF TakeSemaphore, TakeTimesOut, ReadResults
  <2> QED BY <2>1, <2>3 DEF ScanInv, Ended
<1>5. CASE HandleEvent
  <2>1. /\ events # <<>> /\ events' = Tail(events)
        /\ gScanDoneEv' = (gScanDoneEv \/ Gives(Head(events)))
        /\ UNCHANGED <<waiting, mine, leftover, done>>
    BY <1>5 DEF HandleEvent, callers
  <2>2. gScanDoneEv' <=> gScanDoneEv \/ Head(events).kind = "SCAN_DONE"
    BY <2>1, Zenon DEF Gives
  <2>3. NoKind({"SCAN_DONE"}, events) =>
           NoKind({"SCAN_DONE"}, events') /\ Head(events).kind # "SCAN_DONE"
    BY <1>0, <2>1, NoKindTail
  <2>4. Ended' => Ended
    BY <2>2, <2>3 DEF Ended
  <2> QED BY <2>1, <2>4 DEF ScanInv
<1>6. CASE LosesLink \/ \E ip \in Leases : GetsIp(ip)
  <2>1. PICK e \in EventSet : Reports(e) /\ e.kind # "SCAN_DONE" /\ done' = done
    <3>1. CASE LosesLink
      BY <3>1, EventType DEF LosesLink, Kinds, Event
    <3>2. ASSUME NEW ip \in Leases, GetsIp(ip)
          PROVE  \E e \in EventSet : Reports(e) /\ e.kind # "SCAN_DONE" /\ done' = done
      BY <3>2, EventType DEF GetsIp, Kinds, Event
    <3> QED BY <1>6, <3>1, <3>2
  <2>2. /\ events' = Append(events, e)
        /\ UNCHANGED <<gScanDoneEv, scans, waiting, mine, leftover>>
    BY <2>1 DEF Reports, callers
  <2>3. NoKind({"SCAN_DONE"}, events) => NoKind({"SCAN_DONE"}, events')
    BY <1>0, <2>1, <2>2, NoKindAppend
  <2> QED BY <1>0, <2>1, <2>2, <2>3, Reported
<1>7. CASE ScanEnds
  <2>1. done' = scans /\ UNCHANGED <<gScanDoneEv, scans, waiting, mine, leftover>>
    BY <1>7 DEF ScanEnds, Reports, callers
  <2> QED BY <1>0, <2>1, Reported
<1> QED BY <1>1, <1>2, <1>3, <1>4, <1>5, <1>6, <1>7 DEF Next

\* A caller that is told to go on has its own scan done, however many others scan, give up
\* or take each other's semaphore: whatever told it was queued behind its call.  Only a
\* caller that began while the end of an earlier scan was still about is left out, for the
\* semaphore is never reset (rbwifi_netif.cpp 136-159, 172, 204-209).
THEOREM ScanIsTheCallers == Spec => []ScanAwaited
<1>1. ScanInv => ScanAwaited
  BY DEF ScanInv, ScanAwaited
<1> QED BY <1>1, ScanInitially, ScanStep, WiFiInvariance, PTL DEF Spec

=============================================================================
