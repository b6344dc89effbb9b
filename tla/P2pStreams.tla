----------------------------- MODULE P2pStreams -----------------------------
(***************************************************************************)
(* Peer-to-peer datagrams and streams: the p2p half of                     *)
(* src/upstream_api_compat.cpp.  A datagram names its source host and      *)
(* address and two ports, and no destination host: the router sends it to  *)
(* every neighbour.  A stream frame inside it names the stream ids of the  *)
(* two ends.  One pair of ports is modelled, so ports are left out.  The   *)
(* links are reliable and ordered (type SEDSNET_P2P_MESSAGE).              *)
(***************************************************************************)
EXTENDS Integers, Sequences, FiniteSets, FiniteSetsExt, Functions, TLC

CONSTANTS
    P2pHosts,
    MaxP2pCalls,     \* bound: application calls, of all hosts together
    MaxP2pFaults     \* bound: handler failures, restarts and address changes

VARIABLES
    p2pBook,         \* host -> other host -> address, both directions of the book
    p2pAddress,      \* host -> its current address
    p2pBound,        \* the hosts with a handler on the stream port
    p2pSessions,     \* host -> stream id -> P2pStreamSession
    p2pNextId,       \* host -> p2p_next_stream_id
    p2pWire,         \* <<from, to>> -> frames sent and not yet dispatched
    p2pCalls, p2pFaults

p2pVars == <<p2pBook, p2pAddress, p2pBound, p2pSessions, p2pNextId, p2pWire,
             p2pCalls, p2pFaults>>

P2pInit ==
    /\ p2pBook = [h \in P2pHosts |-> << >>]
    /\ p2pAddress = [h \in P2pHosts |-> 0]
    /\ p2pBound = P2pHosts
    /\ p2pSessions = [h \in P2pHosts |-> << >>]
    /\ p2pNextId = [h \in P2pHosts |-> 1]
    /\ p2pWire = [l \in P2pHosts \X P2pHosts |-> << >>]
    /\ p2pCalls = 0 /\ p2pFaults = 0

(* A map with the entry of a key set *)
Entered(map, key, value) ==
    [k \in DOMAIN map \cup {key} |-> IF k = key THEN value ELSE map[k]]

(* resolve_p2p_host: a host always resolves itself. *)
Resolved(h) == Entered(p2pBook[h], h, p2pAddress[h])

(* allocate_p2p_stream_id; the 32-bit wrap is beyond the bounds. *)
FreeId(h) == Min({i \in p2pNextId[h] .. p2pNextId[h] + Cardinality(DOMAIN p2pSessions[h]) :
                    i \notin DOMAIN p2pSessions[h]})

(* enqueue_p2p_packet: the frame goes to every neighbour. *)
Frame(h, kind, src, dst) ==
    [kind |-> kind, src |-> src, dst |-> dst, address |-> p2pAddress[h]]
Sent(wire, h, frame) ==
    [l \in DOMAIN wire |-> IF l[1] = h /\ l[2] # h THEN Append(wire[l], frame) ELSE wire[l]]

Stored(h, id, session) ==
    p2pSessions' = [p2pSessions EXCEPT ![h] = Entered(@, id, session)]
Erased(h, id) ==
    p2pSessions' = [p2pSessions EXCEPT ![h] = Restrict(@, DOMAIN @ \ {id})]

-----------------------------------------------------------------------------
(* The calls of the application *)

P2pCall == p2pCalls < MaxP2pCalls /\ p2pCalls' = p2pCalls + 1

(* seds_router_send_p2p_to_hostname and _to_address; sending to oneself is *)
(* how a host makes itself known.                                          *)
SendDatagram(h, to) ==
    /\ P2pCall /\ to \in DOMAIN Resolved(h)
    /\ p2pWire' = Sent(p2pWire, h, Frame(h, "datagram", 0, 0))
    /\ UNCHANGED <<p2pBook, p2pAddress, p2pBound, p2pSessions, p2pNextId, p2pFaults>>

(* seds_router_open_p2p_stream_to_hostname and _to_address *)
OpenStream(h, to) ==
    /\ P2pCall /\ to \in DOMAIN Resolved(h)
    /\ LET id == FreeId(h)
       IN  /\ Stored(h, id, [host |-> to, address |-> Resolved(h)[to],
                             peer |-> 0, connected |-> FALSE])
           /\ p2pNextId' = [p2pNextId EXCEPT ![h] = id + 1]
           /\ p2pWire' = Sent(p2pWire, h, Frame(h, "syn", id, 0))
    /\ UNCHANGED <<p2pBook, p2pAddress, p2pBound, p2pFaults>>

(* send_p2p_stream_control, for seds_router_send_, _close_ and             *)
(* _reset_p2p_stream: the last two forget the session at once.             *)
SendStream(h, id, kind) ==
    /\ P2pCall /\ id \in DOMAIN p2pSessions[h]
    /\ p2pWire' = Sent(p2pWire, h, Frame(h, kind, id, p2pSessions[h][id].peer))
    /\ IF kind \in {"fin", "rst"} THEN Erased(h, id) ELSE UNCHANGED p2pSessions
    /\ UNCHANGED <<p2pBook, p2pAddress, p2pBound, p2pNextId, p2pFaults>>

(* seds_router_bind_p2p_stream_port, seds_router_clear_p2p_stream_port *)
BindStreamPort(h) ==
    /\ P2pCall
    /\ \/ h \notin p2pBound /\ p2pBound' = p2pBound \cup {h}
       \/ h \in p2pBound /\ p2pBound' = p2pBound \ {h}
    /\ UNCHANGED <<p2pBook, p2pAddress, p2pSessions, p2pNextId, p2pWire, p2pFaults>>

-----------------------------------------------------------------------------
(* dispatch_p2p_packet *)

(* The sessions of h whose other end is stream `src' of host `from'. *)
BySource(h, from, frame) ==
    {id \in DOMAIN p2pSessions[h] :
        /\ p2pSessions[h][id].peer = frame.src
        /\ p2pSessions[h][id].host = from
        /\ p2pSessions[h][id].address = frame.address}

(* Mutant: frames of an end that does not know the other's id are dropped. *)
FindSessionById(h, from, frame) == {frame.dst} \cap DOMAIN p2pSessions[h]

FindSession(h, from, frame) ==
    IF frame.dst # 0 THEN {frame.dst} \cap DOMAIN p2pSessions[h] ELSE BySource(h, from, frame)

(* The frame at the head of the link is taken; its source becomes known.   *)
(* A handler of the stream port may refuse the event.                      *)
Taken(h, from) ==
    /\ p2pWire[<<from, h>>] # << >>
    /\ p2pBook' = [p2pBook EXCEPT ![h] = Entered(@, from, Head(p2pWire[<<from, h>>]).address)]
    /\ UNCHANGED <<p2pAddress, p2pBound, p2pCalls>>
Rest(h, from) == [p2pWire EXCEPT ![<<from, h>>] = Tail(@)]
HandlerAccepts == UNCHANGED p2pFaults
HandlerRefuses(h) == h \in p2pBound /\ p2pFaults < MaxP2pFaults /\ p2pFaults' = p2pFaults + 1

(* A plain datagram, and a frame of a stream this host does not have *)
DispatchOther(h, from) ==
    /\ Taken(h, from)
    /\ LET frame == Head(p2pWire[<<from, h>>])
       IN  frame.kind # "datagram" => frame.kind # "syn" /\ FindSession(h, from, frame) = {}
    /\ p2pWire' = Rest(h, from) /\ HandlerAccepts
    /\ UNCHANGED <<p2pSessions, p2pNextId>>

(* SYN: an unknown stream gets a session, connected at once; a refusal of  *)
(* the handler suppresses the answer and keeps the session.                *)
DispatchSyn(h, from) ==
    /\ Taken(h, from)
    /\ LET frame == Head(p2pWire[<<from, h>>])
           known == BySource(h, from, frame)
           id    == FreeId(h)
           Reply(i) == p2pWire' = Sent(Rest(h, from), h, Frame(h, "synack", i, frame.src))
       IN  /\ frame.kind = "syn"
           /\ \/ /\ \E i \in known : Reply(i)
                 /\ HandlerAccepts /\ UNCHANGED <<p2pSessions, p2pNextId>>
              \/ /\ known = {}
                 /\ Stored(h, id, [host |-> from, address |-> frame.address,
                                   peer |-> frame.src, connected |-> TRUE])
                 /\ p2pNextId' = [p2pNextId EXCEPT ![h] = id + 1]
                 /\ \/ Reply(id) /\ HandlerAccepts
                    \/ p2pWire' = Rest(h, from) /\ HandlerRefuses(h)

(* SYN-ACK: the session is found by its id alone, whoever answered. *)
DispatchSynAck(h, from) ==
    /\ Taken(h, from)
    /\ LET frame == Head(p2pWire[<<from, h>>])
       IN  /\ frame.kind = "synack" /\ frame.dst \in DOMAIN p2pSessions[h]
           /\ Stored(h, frame.dst, [p2pSessions[h][frame.dst] EXCEPT !.peer = frame.src,
                                                                     !.connected = TRUE])
    /\ p2pWire' = Rest(h, from)
    /\ HandlerAccepts \/ HandlerRefuses(h)
    /\ UNCHANGED p2pNextId

(* DATA, FIN, RST: the end of a stream the handler refused stays unknown. *)
DispatchStream(h, from) ==
    /\ Taken(h, from)
    /\ LET frame == Head(p2pWire[<<from, h>>])
       IN  /\ frame.kind \in {"data", "fin", "rst"}
           /\ \E id \in FindSession(h, from, frame) :
                 \/ HandlerAccepts /\ IF frame.kind = "data" THEN UNCHANGED p2pSessions
                                                             ELSE Erased(h, id)
                 \/ HandlerRefuses(h) /\ UNCHANGED p2pSessions
    /\ p2pWire' = Rest(h, from)
    /\ UNCHANGED p2pNextId

-----------------------------------------------------------------------------
(* What disturbs open streams *)

P2pFault == p2pFaults < MaxP2pFaults /\ p2pFaults' = p2pFaults + 1

(* seds_router_configure_address, seds_router_set_sender_id: sessions and  *)
(* the frames under way keep the address they have.                        *)
ConfigureAddress(h) ==
    /\ P2pFault
    /\ p2pAddress' = [p2pAddress EXCEPT ![h] = 1 - @]
    /\ UNCHANGED <<p2pBook, p2pBound, p2pSessions, p2pNextId, p2pWire, p2pCalls>>

(* The host's router is freed and created anew. *)
P2pRestart(h) ==
    /\ P2pFault
    /\ p2pBook' = [p2pBook EXCEPT ![h] = << >>]
    /\ p2pSessions' = [p2pSessions EXCEPT ![h] = << >>]
    /\ p2pNextId' = [p2pNextId EXCEPT ![h] = 1]
    /\ p2pBound' = p2pBound \ {h}
    /\ UNCHANGED <<p2pAddress, p2pWire, p2pCalls>>

P2pNext ==
    \E h \in P2pHosts :
        \/ \E to \in P2pHosts : SendDatagram(h, to) \/ OpenStream(h, to)
        \/ \E id \in DOMAIN p2pSessions[h], kind \in {"data", "fin", "rst"} :
              SendStream(h, id, kind)
        \/ BindStreamPort(h)
        \/ \E from \in P2pHosts : \/ DispatchOther(h, from) \/ DispatchSyn(h, from)
                                  \/ DispatchSynAck(h, from) \/ DispatchStream(h, from)
        \/ ConfigureAddress(h) \/ P2pRestart(h)

P2pSpec == P2pInit /\ [][P2pNext]_p2pVars

-----------------------------------------------------------------------------
(* Property *)

(***************************************************************************)
(* However opens, sends, closes and resets of two hosts cross on the       *)
(* links, once every frame has arrived the hosts have the same streams:    *)
(* every session is connected to one of another host that is connected to  *)
(* it.  No end is left that the other has closed, none waits for an answer *)
(* (dispatch_p2p_stream).  A refusing handler, a restart and an address    *)
(* change break this in the code, so the bound on faults is part of it.    *)
(***************************************************************************)
SessionsAgree ==
    p2pFaults = 0 /\ (\A l \in DOMAIN p2pWire : p2pWire[l] = << >>) =>
        \A h \in P2pHosts : \A id \in DOMAIN p2pSessions[h] :
            \E o \in P2pHosts \ {h} :
                LET other == p2pSessions[h][id].peer
                IN  /\ p2pSessions[h][id].connected
                    /\ other \in DOMAIN p2pSessions[o]
                    /\ p2pSessions[o][other].peer = id
=============================================================================
