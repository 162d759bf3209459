-------------------------- MODULE MediaPortsProofs --------------------------
(***************************************************************************)
(* Proofs about MediaPorts for any number of relays, any port range and    *)
(* any addresses: types, and that a relay holds exactly the sockets its    *)
(* progress says, on different addresses.                                  *)
(***************************************************************************)
EXTENDS MediaPorts, FiniteSetTheorems, FunctionTheorems, TLAPS

Progress == Sockets \cup {"none", "open", "closing"}

Slots == [at : Progress, h248Port : EvenPorts \cup {0}, sipPort : EvenPorts \cup {0},
          closing : Seq(Sockets)]

\* The two ports of a relay that is there were handed out one after the other,
\* and it does not close a socket twice.
Paired(c) == call[c].at # "none" => /\ call[c].h248Port \in EvenPorts
                                    /\ call[c].sipPort \in EvenPorts
                                    /\ call[c].h248Port # call[c].sipPort
ClosesOnce(c) == \A i, j \in DOMAIN call[c].closing :
                   call[c].closing[i] = call[c].closing[j] => i = j

\* Who has an address, read from the address.
Owned(c) == \A a \in Addresses : owner[a] = c <=> \E s \in SocketsOf(c) : a = Address(c, s)

IInv == TypeOK /\ \A c \in Calls : Paired(c) /\ ClosesOnce(c) /\ Owned(c)

----------------------------------------------------------------------------
(* The circle of ports *)

LEMMA PortRange ==
  /\ PortMin \in Nat \ {0} /\ PortMax \in Nat
  /\ EvenPort(PortMin) \in Nat /\ EvenPort(PortMin) % 2 = 0
  /\ PortMin <= EvenPort(PortMin) /\ EvenPort(PortMin) + 2 <= PortMax
<1>1. PortMin \in Nat \ {0} /\ PortMax \in Nat /\ EvenPort(PortMin) + 2 <= PortMax
  BY MediaPortsAssumption
<1>2. CASE PortMin % 2 = 0 BY <1>1, <1>2 DEF EvenPort
<1>3. CASE PortMin % 2 # 0
  <2>1. PortMin % 2 = 1 /\ EvenPort(PortMin) = PortMin + 1 BY <1>1, <1>3 DEF EvenPort
  <2>2. (PortMin + 1) % 2 = 0 BY <1>1, <2>1
  <2> QED BY <1>1, <2>1, <2>2
<1> QED BY <1>2, <1>3

LEMMA FirstPort == EvenPort(PortMin) \in EvenPorts
BY PortRange DEF EvenPorts

LEMMA NextPort ==
  ASSUME NEW p \in EvenPorts
  PROVE  PortAfter(p) \in EvenPorts /\ PortAfter(p) # p
<1>1. p \in Nat /\ p % 2 = 0 /\ EvenPort(PortMin) <= p /\ p <= PortMax
  BY PortRange DEF EvenPorts
<1>2. CASE p + 2 > PortMax BY <1>1, <1>2, PortRange, FirstPort DEF PortAfter
<1>3. CASE ~ (p + 2 > PortMax)
  <2>1. (p + 2) % 2 = 0 BY <1>1
  <2> QED BY <1>1, <1>3, <2>1, PortRange DEF PortAfter, EvenPorts
<1> QED BY <1>2, <1>3

----------------------------------------------------------------------------
(* The addresses of a relay *)

LEMMA AddressType ==
  ASSUME NEW c \in Calls, Paired(c), call[c].at # "none", NEW s \in Sockets
  PROVE  Address(c, s) \in Addresses
<1>1. \A p \in EvenPorts : p \in Ports /\ p + 1 \in Ports
  BY PortRange DEF EvenPorts, Ports
<1> QED BY <1>1 DEF Paired, Address, Addresses, Sockets

LEMMA AddressInjective ==
  ASSUME NEW c \in Calls, Paired(c), call[c].at # "none",
         NEW s \in Sockets, NEW t \in Sockets, Address(c, s) = Address(c, t)
  PROVE  s = t
<1>1. \A p, q \in EvenPorts : p # q => p # q + 1 /\ p + 1 # q + 1 /\ p + 1 # q
  <2>1. \A p, q \in EvenPorts : p # q + 1
    <3> SUFFICES ASSUME NEW p \in EvenPorts, NEW q \in EvenPorts, p = q + 1 PROVE FALSE
      OBVIOUS
    <3>1. p \in Nat /\ q \in Nat /\ p % 2 = 0 /\ q % 2 = 0 BY PortRange DEF EvenPorts
    <3> QED BY <3>1
  <2>2. \A p \in EvenPorts : p \in Nat BY PortRange DEF EvenPorts
  <2> QED BY <2>1, <2>2
<1>2. call[c].h248Port \in Nat /\ call[c].sipPort \in Nat BY PortRange DEF Paired, EvenPorts
<1> QED BY <1>1, <1>2 DEF Paired, Address, Sockets

LEMMA SocketsOfType ==
  ASSUME TypeOK, NEW c \in Calls
  PROVE  SocketsOf(c) \subseteq Sockets /\ (SocketsOf(c) # {} => call[c].at # "none")
<1>1. call[c].at \in Progress BY DEF TypeOK, Progress
<1>2. ToClose(c) \subseteq Sockets BY DEF TypeOK, ToClose
<1> QED BY <1>1, <1>2 DEF SocketsOf, Progress, Sockets

----------------------------------------------------------------------------
(* Types *)

LEMMA Lists ==
  /\ CloseList \in Seq(Sockets)
  /\ \A s \in Sockets : Undo[s] \in Seq(Sockets)
<1>1. CloseList \in Seq(Sockets) BY DEF CloseList, Sockets
<1>2. /\ <<>> \in Seq(Sockets) /\ <<"h248">> \in Seq(Sockets)
      /\ <<"h248", "h248RTCP">> \in Seq(Sockets)
      /\ <<"h248", "h248RTCP", "sip">> \in Seq(Sockets)
  BY DEF Sockets
<1> QED BY <1>1, <1>2 DEF Undo, Sockets

LEMMA TypeInit == Init => TypeOK
BY FirstPort DEF Init, TypeOK, NoCall

\* A relay is being closed.
LEMMA TypeClosing ==
  ASSUME TypeOK, NEW c \in Calls, NEW list \in Seq(Sockets),
         call' = [call EXCEPT ![c].at = "closing", ![c].closing = list],
         UNCHANGED <<nextRTPPort, owner, forwarders>>
  PROVE  TypeOK'
BY ZenonT(30) DEF TypeOK

LEMMA TypeStep ==
  ASSUME IInv, [Next]_vars
  PROVE  TypeOK'
<1> USE DEF TypeOK
<1>0. TypeOK BY DEF IInv
<1>1. ASSUME NEW c \in Calls, AllocateCallIdentifiers(c) PROVE TypeOK'
  <2>1. /\ nextRTPPort \in EvenPorts /\ PortAfter(nextRTPPort) \in EvenPorts
        /\ PortAfter(PortAfter(nextRTPPort)) \in EvenPorts
    BY <1>0, NextPort
  <2>2. PICK p \in EvenPorts, q \in EvenPorts :
          call' = [call EXCEPT ![c].at = "h248", ![c].h248Port = p, ![c].sipPort = q]
    BY <1>1, <2>1 DEF AllocateCallIdentifiers
  <2>3. call' \in [Calls -> Slots]
    <3>1. "h248" \in Progress BY DEF Progress, Sockets
    <3>2. call \in [Calls -> Slots] BY <1>0 DEF Slots, Progress
    <3>3. [call[c] EXCEPT !.at = "h248", !.h248Port = p, !.sipPort = q] \in Slots
      BY <3>1, <3>2 DEF Slots
    <3>4. call' = [call EXCEPT ![c] = [call[c] EXCEPT !.at = "h248", !.h248Port = p, !.sipPort = q]]
      BY <2>2
    <3> QED BY <3>2, <3>3, <3>4
  <2> QED BY <1>0, <1>1, <2>1, <2>3 DEF AllocateCallIdentifiers, Slots, Progress
<1>2. ASSUME NEW c \in Calls, Listen(c) PROVE TypeOK'
  <2>1. NextSocket[call[c].at] \in Progress BY <1>2 DEF Listen, NextSocket, Sockets, Progress
  <2>2. PICK p \in Progress : call' = [call EXCEPT ![c].at = p]
    BY <1>2, <2>1 DEF Listen
  <2>3. call' \in [Calls -> Slots] BY ZenonT(30), <1>0, <2>2 DEF Slots, Progress
  <2>4. owner' = [owner EXCEPT ![Address(c, call[c].at)] = c] BY <1>2 DEF Listen
  <2>5. owner' \in [Addresses -> Calls \cup {Nil, "foreign"}] BY <1>0, <2>4
  <2>6. forwarders' \in [Calls -> SUBSET Sockets]
    <3>1. forwarders' = forwarders \/ forwarders' = [forwarders EXCEPT ![c] = Sockets]
      BY <1>2 DEF Listen
    <3> QED BY <1>0, <3>1
  <2> QED BY <1>0, <1>2, <2>3, <2>5, <2>6 DEF Listen, Slots, Progress
<1>3. ASSUME NEW c \in Calls, ListenFails(c) PROVE TypeOK'
  <2>1. Undo[call[c].at] \in Seq(Sockets) BY <1>3, Lists DEF ListenFails
  <2> HIDE DEF TypeOK
  <2> QED BY <1>0, <1>3, <2>1, TypeClosing DEF ListenFails
<1>4. ASSUME NEW c \in Calls, Close(c) PROVE TypeOK'
  <2> HIDE DEF TypeOK
  <2> QED BY <1>0, <1>4, Lists, TypeClosing DEF Close
<1>5. CASE BridgeClose
  <2>1. PICK closed \in SUBSET {c \in Calls : call[c].at = "open"} :
          call' = [c \in Calls |->
            IF c \in closed
            THEN [call[c] EXCEPT !.at = "closing", !.closing = CloseList] ELSE call[c]]
    BY <1>5 DEF BridgeClose
  <2>2. CloseList \in Seq(Sockets) BY Lists
  <2>3. ASSUME NEW d \in Calls PROVE call'[d] \in Slots
    <3>1. [call[d] EXCEPT !.at = "closing", !.closing = CloseList] \in Slots
      BY ZenonT(30), <1>0, <2>2 DEF Slots, Progress
    <3>2. call[d] \in Slots BY <1>0 DEF Slots, Progress
    <3> QED BY <2>1, <3>1, <3>2
  <2>4. call' \in [Calls -> Slots] BY <2>1, <2>3
  <2> QED BY <1>0, <1>5, <2>4 DEF BridgeClose, Slots, Progress
<1>6. ASSUME NEW c \in Calls, CloseSocket(c) PROVE TypeOK'
  <2>1. Tail(call[c].closing) \in Seq(Sockets) BY <1>0, <1>6 DEF CloseSocket
  <2> QED BY <1>0, <1>6, <2>1 DEF CloseSocket
<1>7. ASSUME NEW c \in Calls, ForwardReturns(c) \/ Gone(c) PROVE TypeOK'
  <2>1. CASE ForwardReturns(c) BY <1>0, <2>1 DEF ForwardReturns
  <2>2. CASE Gone(c)
    <3>1. <<>> \in Seq(Sockets) OBVIOUS
    <3> QED BY <1>0, <2>2, <3>1 DEF Gone, NoCall
  <2> QED BY <1>7, <2>1, <2>2
<1>8. CASE ForeignStep BY <1>0, <1>8, ForeignAssumption DEF ForeignStep
<1>9. CASE UNCHANGED vars BY <1>0, <1>9 DEF vars
<1> QED BY <1>1, <1>2, <1>3, <1>4, <1>5, <1>6, <1>7, <1>8, <1>9 DEF Next, Open, Dismiss

----------------------------------------------------------------------------
(* One relay: ports and what is still to be closed *)

\* A step of another relay leaves these alone.
LEMMA Untouched ==
  ASSUME TypeOK, NEW c \in Calls, call'[c] = call[c]
  PROVE  /\ Paired(c) => Paired(c)'
         /\ ClosesOnce(c) => ClosesOnce(c)'
         /\ SocketsOf(c)' = SocketsOf(c)
         /\ \A s \in Sockets : Address(c, s)' = Address(c, s)
BY DEF Paired, ClosesOnce, SocketsOf, ToClose, Address, Sockets

LEMMA Lists2 ==
  /\ {CloseList[i] : i \in DOMAIN CloseList} = Sockets
  /\ \A i, j \in DOMAIN CloseList : CloseList[i] = CloseList[j] => i = j
BY DEF CloseList, Sockets

\* What an opening that fails closes is what it has opened.
LEMMA UndoesAll ==
  ASSUME TypeOK, NEW c \in Calls, call[c].at \in Sockets
  PROVE  LET undo == Undo[call[c].at]
         IN /\ {undo[i] : i \in DOMAIN undo} = SocketsOf(c)
            /\ \A i, j \in DOMAIN undo : undo[i] = undo[j] => i = j
<1>1. CASE call[c].at = "h248" BY <1>1 DEF Undo, SocketsOf, Sockets
<1>2. CASE call[c].at = "h248RTCP" BY <1>2 DEF Undo, SocketsOf, Sockets
<1>3. CASE call[c].at = "sip" BY <1>3 DEF Undo, SocketsOf, Sockets
<1>4. CASE call[c].at = "sipRTCP" BY <1>4 DEF Undo, SocketsOf, Sockets
<1> QED BY <1>1, <1>2, <1>3, <1>4 DEF Sockets

\* A relay begins to close: it still has what it had.
LEMMA Closing ==
  ASSUME IInv, TypeOK', NEW c \in Calls, Paired(c)', NEW list \in Seq(Sockets),
         call'[c].at = "closing", call'[c].closing = list,
         call'[c].h248Port = call[c].h248Port, call'[c].sipPort = call[c].sipPort,
         {list[i] : i \in DOMAIN list} = SocketsOf(c),
         \A i, j \in DOMAIN list : list[i] = list[j] => i = j,
         owner' = owner
  PROVE  Paired(c)' /\ ClosesOnce(c)' /\ Owned(c)'
<1>1. ClosesOnce(c)' BY DEF ClosesOnce
<1>2. SocketsOf(c)' = SocketsOf(c)
  <2>1. ToClose(c)' = {list[i] : i \in DOMAIN list} BY DEF ToClose
  <2>2. SocketsOf(c)' = ToClose(c)' BY DEF SocketsOf
  <2> QED BY <2>1, <2>2
<1>3. \A s \in Sockets : Address(c, s)' = Address(c, s) BY DEF Address, Sockets
<1>4. SocketsOf(c) \subseteq Sockets BY SocketsOfType DEF IInv
<1> QED BY <1>1, <1>2, <1>3, <1>4 DEF IInv, Owned

\* A step of one relay, or of no relay, seen from another one.
LEMMA Bystander ==
  ASSUME IInv, NEW c \in Calls, call'[c] = call[c],
         \A a \in Addresses : (owner'[a] = c) = (owner[a] = c)
  PROVE  Paired(c)' /\ ClosesOnce(c)' /\ Owned(c)'
<1>1. TypeOK /\ Paired(c) /\ ClosesOnce(c) /\ Owned(c) BY DEF IInv
<1>2. SocketsOf(c) \subseteq Sockets BY <1>1, SocketsOfType
<1>3. SocketsOf(c)' = SocketsOf(c) /\ \A s \in Sockets : Address(c, s)' = Address(c, s)
  BY <1>1, Untouched
<1>4. Owned(c)' BY <1>1, <1>2, <1>3 DEF Owned
<1> QED BY <1>1, <1>4, Untouched

LEMMA ListenStep ==
  ASSUME IInv, TypeOK', NEW c \in Calls, Listen(c)
  PROVE  Paired(c)' /\ ClosesOnce(c)' /\ Owned(c)'
<1> DEFINE s == call[c].at
           x == Address(c, s)
<1>1. /\ TypeOK /\ Paired(c) /\ ClosesOnce(c) /\ Owned(c)
      /\ s \in Sockets /\ s # "none" /\ owner[x] = Nil
      /\ owner' = [owner EXCEPT ![x] = c] /\ call' = [call EXCEPT ![c].at = NextSocket[s]]
  BY DEF IInv, Listen, Sockets
<1>2. x \in Addresses BY <1>1, AddressType
<1>3. /\ call'[c].at = NextSocket[s] /\ call'[c].closing = call[c].closing
      /\ call'[c].h248Port = call[c].h248Port /\ call'[c].sipPort = call[c].sipPort
  BY <1>1 DEF TypeOK
<1>4. \A t \in Sockets : Address(c, t)' = Address(c, t) BY <1>3 DEF Address, Sockets
<1>5. SocketsOf(c)' = SocketsOf(c) \cup {s} /\ s \notin SocketsOf(c)
  BY <1>1, <1>3 DEF SocketsOf, NextSocket, Sockets
<1>6. SocketsOf(c) \subseteq Sockets BY <1>1, SocketsOfType
<1>7. Owned(c)'
  <2> SUFFICES ASSUME NEW a \in Addresses
               PROVE  owner'[a] = c <=> \E t \in SocketsOf(c)' : a = Address(c, t)'
    BY DEF Owned
  <2>1. owner'[a] = c <=> (a = x \/ owner[a] = c) BY <1>1, <1>2 DEF TypeOK
  <2>2. owner[a] = c <=> \E t \in SocketsOf(c) : a = Address(c, t) BY <1>1 DEF Owned
  <2>3. (\E t \in SocketsOf(c)' : a = Address(c, t)')
          <=> (a = x \/ \E t \in SocketsOf(c) : a = Address(c, t))
    BY <1>1, <1>4, <1>5, <1>6
  <2> QED BY <2>1, <2>2, <2>3
<1>8. Paired(c)' BY <1>1, <1>3 DEF Paired
<1>9. ClosesOnce(c)' BY <1>1, <1>3 DEF ClosesOnce
<1> QED BY <1>7, <1>8, <1>9

\* What is left of a sequence without its first entry.
LEMMA TailEntries ==
  ASSUME NEW S, NEW s \in Seq(S), s # <<>>
  PROVE  /\ Tail(s) \in Seq(S) /\ Len(Tail(s)) = Len(s) - 1
         /\ \A i \in DOMAIN Tail(s) : i + 1 \in DOMAIN s /\ Tail(s)[i] = s[i + 1]
         /\ \A j \in DOMAIN s : j = 1 \/ (j - 1 \in DOMAIN Tail(s) /\ s[j] = Tail(s)[j - 1])
<1>1. Tail(s) \in Seq(S) /\ Len(Tail(s)) = Len(s) - 1 OBVIOUS
<1>2. \A i \in DOMAIN Tail(s) : i + 1 \in DOMAIN s /\ Tail(s)[i] = s[i + 1] OBVIOUS
<1>3. ASSUME NEW j \in DOMAIN s, j # 1
      PROVE  j - 1 \in DOMAIN Tail(s) /\ s[j] = Tail(s)[j - 1]
  BY <1>1, <1>3
<1> QED BY <1>1, <1>2, <1>3

LEMMA CloseSocketStep ==
  ASSUME IInv, TypeOK', NEW c \in Calls, CloseSocket(c)
  PROVE  Paired(c)' /\ ClosesOnce(c)' /\ Owned(c)'
<1> DEFINE list == call[c].closing
           s == Head(list)
           x == Address(c, s)
<1>1. /\ TypeOK /\ Paired(c) /\ ClosesOnce(c) /\ Owned(c)
      /\ call[c].at = "closing" /\ list # <<>> /\ list \in Seq(Sockets)
      /\ owner' = [owner EXCEPT ![x] = Nil]
      /\ call' = [call EXCEPT ![c].closing = Tail(list)]
  BY DEF IInv, CloseSocket, TypeOK
<1>2. s \in Sockets /\ s = list[1] /\ 1 \in DOMAIN list BY <1>1
<1>3. x \in Addresses BY <1>1, <1>2, AddressType
<1>4. /\ call'[c].at = "closing" /\ call'[c].closing = Tail(list)
      /\ call'[c].h248Port = call[c].h248Port /\ call'[c].sipPort = call[c].sipPort
  BY <1>1 DEF TypeOK
<1>5. \A t \in Sockets : Address(c, t)' = Address(c, t) BY <1>4 DEF Address, Sockets
<1>6. /\ Tail(list) \in Seq(Sockets) /\ Len(Tail(list)) = Len(list) - 1
      /\ \A i \in DOMAIN Tail(list) : i + 1 \in DOMAIN list /\ Tail(list)[i] = list[i + 1]
      /\ \A j \in DOMAIN list : j = 1 \/ (j - 1 \in DOMAIN Tail(list) /\ list[j] = Tail(list)[j - 1])
  BY <1>1, TailEntries
<1>7. ClosesOnce(c)'
  <2> SUFFICES ASSUME NEW i \in DOMAIN Tail(list), NEW j \in DOMAIN Tail(list),
                      Tail(list)[i] = Tail(list)[j]
               PROVE  i = j
    BY <1>4 DEF ClosesOnce
  <2>1. i + 1 = j + 1 BY <1>1, <1>6 DEF ClosesOnce
  <2> QED BY <1>6, <2>1
<1>8. SocketsOf(c)' = SocketsOf(c) \ {s}
  <2>1. SocketsOf(c) = {list[i] : i \in DOMAIN list} BY <1>1 DEF SocketsOf, ToClose
  <2>2. SocketsOf(c)' = {Tail(list)[i] : i \in DOMAIN Tail(list)} BY <1>4 DEF SocketsOf, ToClose
  <2>3. \A i \in DOMAIN Tail(list) : Tail(list)[i] # s
    <3> SUFFICES ASSUME NEW i \in DOMAIN Tail(list), Tail(list)[i] = s PROVE FALSE OBVIOUS
    <3>1. i + 1 = 1 BY <1>1, <1>2, <1>6 DEF ClosesOnce
    <3> QED BY <1>6, <3>1
  <2>4. \A t : t \in SocketsOf(c)' => t \in SocketsOf(c) \ {s} BY <1>6, <2>1, <2>2, <2>3
  <2>5. \A t : t \in SocketsOf(c) \ {s} => t \in SocketsOf(c)'
    <3> SUFFICES ASSUME NEW j \in DOMAIN list, list[j] # s PROVE list[j] \in SocketsOf(c)'
      BY <2>1
    <3>1. j - 1 \in DOMAIN Tail(list) /\ list[j] = Tail(list)[j - 1] BY <1>2, <1>6
    <3> QED BY <2>2, <3>1
  <2> QED BY <2>4, <2>5
<1>9. SocketsOf(c) \subseteq Sockets BY <1>1, SocketsOfType
<1>10. Owned(c)'
  <2> SUFFICES ASSUME NEW a \in Addresses
               PROVE  owner'[a] = c <=> \E t \in SocketsOf(c)' : a = Address(c, t)'
    BY DEF Owned
  <2>1. owner'[a] = c <=> (a # x /\ owner[a] = c)
    BY <1>1, <1>3, MediaPortsAssumption DEF TypeOK
  <2>2. owner[a] = c <=> \E t \in SocketsOf(c) : a = Address(c, t) BY <1>1 DEF Owned
  <2>3. \A t \in Sockets : Address(c, t) = x => t = s
    BY <1>1, <1>2, AddressInjective
  <2> HIDE DEF x, s, list
  <2>4. (\E t \in SocketsOf(c)' : a = Address(c, t)')
          <=> (a # x /\ \E t \in SocketsOf(c) : a = Address(c, t))
    <3>1. (\E t \in SocketsOf(c)' : a = Address(c, t)')
            <=> \E t \in SocketsOf(c) \ {s} : a = Address(c, t)
      BY <1>5, <1>8, <1>9
    <3>2. x = Address(c, s) BY DEF x
    <3> QED BY <1>9, <2>3, <3>1, <3>2
  <2> QED BY <2>1, <2>2, <2>4
<1>11. Paired(c)' BY <1>1, <1>4 DEF Paired
<1> QED BY <1>7, <1>10, <1>11

LEMMA InvInit == Init => IInv
<1> SUFFICES ASSUME Init, NEW c \in Calls PROVE Paired(c) /\ ClosesOnce(c) /\ Owned(c)
  BY TypeInit DEF IInv
<1>1. call[c].at = "none" /\ call[c].closing = <<>> BY DEF Init, NoCall
<1>2. \A a \in Addresses : owner[a] # c BY MediaPortsAssumption DEF Init
<1>3. SocketsOf(c) = {} BY <1>1 DEF SocketsOf
<1> QED BY <1>1, <1>2, <1>3 DEF Paired, ClosesOnce, Owned

LEMMA InvNext == IInv /\ [Next]_vars => IInv'
<1> SUFFICES ASSUME IInv, [Next]_vars, NEW c \in Calls
             PROVE  Paired(c)' /\ ClosesOnce(c)' /\ Owned(c)'
  BY TypeStep DEF IInv
<1>0. TypeOK' /\ TypeOK /\ Paired(c) /\ ClosesOnce(c) /\ Owned(c) BY TypeStep DEF IInv
<1>1. ASSUME NEW d \in Calls, AllocateCallIdentifiers(d)
      PROVE  Paired(c)' /\ ClosesOnce(c)' /\ Owned(c)'
  <2>1. CASE c # d BY <1>1, <2>1, Bystander DEF AllocateCallIdentifiers, TypeOK, IInv
  <2>2. CASE c = d
    <3>1. nextRTPPort \in EvenPorts /\ PortAfter(nextRTPPort) \in EvenPorts
          /\ PortAfter(nextRTPPort) # nextRTPPort
      BY <1>0, NextPort DEF TypeOK
    <3>2. /\ call'[c].at = "h248" /\ call'[c].h248Port = nextRTPPort
          /\ call'[c].sipPort = PortAfter(nextRTPPort)
          /\ call'[c].closing = call[c].closing /\ owner' = owner /\ call[c].at = "none"
      BY <1>0, <1>1, <2>2 DEF AllocateCallIdentifiers, TypeOK
    <3>3. SocketsOf(c)' = {} /\ SocketsOf(c) = {} BY <3>2 DEF SocketsOf
    <3> QED BY <1>0, <3>1, <3>2, <3>3 DEF Paired, ClosesOnce, Owned
  <2> QED BY <2>1, <2>2
<1>2. ASSUME NEW d \in Calls, Listen(d)
      PROVE  Paired(c)' /\ ClosesOnce(c)' /\ Owned(c)'
  <2>1. CASE c # d
    <3>1. Address(d, call[d].at) \in Addresses
      BY <1>2, AddressType DEF IInv, Listen, Sockets
    <3>2. call'[c] = call[c] /\ \A a \in Addresses : (owner'[a] = c) = (owner[a] = c)
      BY <1>0, <1>2, <2>1, <3>1, MediaPortsAssumption DEF Listen, TypeOK
    <3> QED BY <3>2, Bystander
  <2> QED BY <1>0, <1>2, <2>1, ListenStep
<1>3. ASSUME NEW d \in Calls, ListenFails(d) \/ Close(d)
      PROVE  Paired(c)' /\ ClosesOnce(c)' /\ Owned(c)'
  <2>1. CASE c # d BY <1>3, <2>1, Bystander DEF ListenFails, Close, TypeOK, IInv
  <2>2. CASE c = d
    <3>1. PICK list \in Seq(Sockets) :
            /\ call' = [call EXCEPT ![c].at = "closing", ![c].closing = list]
            /\ {list[i] : i \in DOMAIN list} = SocketsOf(c)
            /\ \A i, j \in DOMAIN list : list[i] = list[j] => i = j
      <4>1. CASE ListenFails(c) BY <1>0, <4>1, Lists, UndoesAll DEF ListenFails
      <4>2. CASE Close(c) BY <1>0, <4>2, Lists, Lists2 DEF Close, SocketsOf
      <4> QED BY <1>3, <2>2, <4>1, <4>2
    <3>2. /\ call'[c].at = "closing" /\ call'[c].closing = list
          /\ call'[c].h248Port = call[c].h248Port /\ call'[c].sipPort = call[c].sipPort
          /\ owner' = owner /\ call[c].at # "none"
      BY <1>0, <1>3, <2>2, <3>1 DEF TypeOK, ListenFails, Close, Sockets
    <3>3. Paired(c)' BY <1>0, <3>2 DEF Paired
    <3> QED BY <1>0, <3>1, <3>2, <3>3, Closing
  <2> QED BY <2>1, <2>2
<1>4. CASE BridgeClose
  <2>1. PICK closed \in SUBSET {d \in Calls : call[d].at = "open"} :
          call' = [d \in Calls |->
            IF d \in closed
            THEN [call[d] EXCEPT !.at = "closing", !.closing = CloseList] ELSE call[d]]
    BY <1>4 DEF BridgeClose
  <2>2. owner' = owner BY <1>4 DEF BridgeClose
  <2>3. CASE c \notin closed BY <2>1, <2>2, <2>3, Bystander
  <2>4. CASE c \in closed
    <3>1. /\ call'[c].at = "closing" /\ call'[c].closing = CloseList
          /\ call'[c].h248Port = call[c].h248Port /\ call'[c].sipPort = call[c].sipPort
          /\ call[c].at = "open"
      BY <1>0, <2>1, <2>4 DEF TypeOK
    <3>2. Paired(c)' BY <1>0, <3>1 DEF Paired
    <3>3. SocketsOf(c) = Sockets BY <3>1 DEF SocketsOf
    <3> QED BY <1>0, <2>2, <3>1, <3>2, <3>3, Lists, Lists2, Closing
  <2> QED BY <2>3, <2>4
<1>5. ASSUME NEW d \in Calls, CloseSocket(d)
      PROVE  Paired(c)' /\ ClosesOnce(c)' /\ Owned(c)'
  <2>1. CASE c # d
    <3>1. /\ call[d].at = "closing" /\ call[d].closing # <<>> /\ call[d].closing \in Seq(Sockets)
          /\ TypeOK /\ Paired(d) /\ Owned(d)
      BY <1>5 DEF CloseSocket, IInv, TypeOK
    <3>2. Head(call[d].closing) \in Sockets /\ Head(call[d].closing) \in ToClose(d)
      BY <3>1 DEF ToClose
    <3>3. Address(d, Head(call[d].closing)) \in Addresses BY <3>1, <3>2, AddressType
    <3>4. Head(call[d].closing) \in SocketsOf(d) BY <3>1, <3>2 DEF SocketsOf
    <3>5. owner[Address(d, Head(call[d].closing))] = d BY <3>1, <3>3, <3>4 DEF Owned
    <3>6. owner' = [owner EXCEPT ![Address(d, Head(call[d].closing))] = Nil]
      BY <1>5 DEF CloseSocket
    <3>7. call'[c] = call[c] /\ \A a \in Addresses : (owner'[a] = c) = (owner[a] = c)
      BY <1>0, <1>5, <2>1, <3>3, <3>5, <3>6, MediaPortsAssumption DEF CloseSocket, TypeOK
    <3> QED BY <3>7, Bystander
  <2> QED BY <1>0, <1>5, <2>1, CloseSocketStep
<1>6. ASSUME NEW d \in Calls, ForwardReturns(d)
      PROVE  Paired(c)' /\ ClosesOnce(c)' /\ Owned(c)'
  BY <1>6, Bystander DEF ForwardReturns
<1>7. ASSUME NEW d \in Calls, Gone(d)
      PROVE  Paired(c)' /\ ClosesOnce(c)' /\ Owned(c)'
  <2>1. CASE c # d BY <1>7, <2>1, Bystander DEF Gone, TypeOK, IInv
  <2>2. CASE c = d
    <3>1. /\ call'[c].at = "none" /\ call'[c].closing = <<>> /\ owner' = owner
          /\ call[c].at = "closing" /\ call[c].closing = <<>>
      BY <1>0, <1>7, <2>2 DEF Gone, NoCall, TypeOK
    <3>2. SocketsOf(c)' = {} /\ SocketsOf(c) = {} BY <3>1 DEF SocketsOf, ToClose
    <3> QED BY <1>0, <3>1, <3>2 DEF Paired, ClosesOnce, Owned
  <2> QED BY <2>1, <2>2
<1>8. CASE ForeignStep
  <2>1. call' = call /\ \A a \in Addresses : (owner'[a] = c) = (owner[a] = c)
    BY <1>0, <1>8, MediaPortsAssumption, ForeignAssumption DEF ForeignStep, TypeOK
  <2> QED BY <2>1, Bystander
<1>9. CASE UNCHANGED vars BY <1>9, Bystander DEF vars
<1> QED BY <1>1, <1>2, <1>3, <1>4, <1>5, <1>6, <1>7, <1>8, <1>9 DEF Next, Open, Dismiss

----------------------------------------------------------------------------
(* What follows *)

LEMMA InvAccounts == IInv => SocketsAccounted
<1> SUFFICES ASSUME IInv, NEW c \in Calls
             PROVE  /\ Held(c) = {Address(c, s) : s \in SocketsOf(c)}
                    /\ Cardinality(Held(c)) = Cardinality(SocketsOf(c))
  BY DEF SocketsAccounted
<1> DEFINE S == SocketsOf(c)
           f == [s \in S |-> Address(c, s)]
<1>1. TypeOK /\ Paired(c) /\ Owned(c) BY DEF IInv
<1>2. S \subseteq Sockets /\ \A s \in S : Address(c, s) \in Addresses
  BY <1>1, SocketsOfType, AddressType
<1>3. Held(c) = {Address(c, s) : s \in S} BY <1>1, <1>2 DEF Held, Owned
<1>4. IsFiniteSet(S)
  <2>1. IsFiniteSet(Sockets)
    <3>1. IsFiniteSet({} \cup {"h248"}) BY FS_EmptySet, FS_AddElement
    <3>2. IsFiniteSet(({} \cup {"h248"}) \cup {"h248RTCP"}) BY <3>1, FS_AddElement
    <3>3. IsFiniteSet((({} \cup {"h248"}) \cup {"h248RTCP"}) \cup {"sip"})
      BY <3>2, FS_AddElement
    <3>4. IsFiniteSet(((({} \cup {"h248"}) \cup {"h248RTCP"}) \cup {"sip"}) \cup {"sipRTCP"})
      BY <3>3, FS_AddElement
    <3>5. Sockets = ((({} \cup {"h248"}) \cup {"h248RTCP"}) \cup {"sip"}) \cup {"sipRTCP"}
      BY DEF Sockets
    <3> QED BY <3>4, <3>5
  <2> QED BY <1>2, <2>1, FS_Subset
<1>5. f \in Bijection(S, Held(c))
  <2>1. f \in [S -> Held(c)] BY <1>3
  <2>2. \A s, t \in S : f[s] = f[t] => s = t
    BY <1>1, <1>2, AddressInjective, SocketsOfType
  <2>3. \A a \in Held(c) : \E s \in S : f[s] = a BY <1>3
  <2> QED BY <2>1, <2>2, <2>3 DEF Bijection, Injection, Surjection, IsInjective
<1>6. Cardinality(Held(c)) = Cardinality(S)
  BY <1>4, <1>5, FS_Bijection DEF ExistsBijection
<1> QED BY <1>3, <1>6

\* allocateCallIdentifiersLocked, newMediaRelay, Close: the ports are even and
\* in the range, and everything else keeps its type.
THEOREM TypesKept == Spec => []TypeOK
<1>1. IInv => TypeOK BY DEF IInv
<1> QED BY <1>1, InvInit, InvNext, PTL DEF Spec

\* newMediaRelay and Close: however the openings and closings of the relays
\* and of other processes interleave, a relay has exactly the sockets its
\* progress says, each on an address of its own.
THEOREM SocketsAreAccounted == Spec => []SocketsAccounted
BY InvInit, InvNext, InvAccounts, PTL DEF Spec
=============================================================================
