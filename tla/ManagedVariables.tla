-------------------------- MODULE ManagedVariables --------------------------
(***************************************************************************)
(* Managed (network) variables: one variable, of one data type, kept by    *)
(* several routers (src/upstream_api_compat.cpp and the receive path of    *)
(* src/router_core.cpp).  A value is the packet it came in; a writer's     *)
(* packets are numbered.  The routers are neighbours of each other over    *)
(* packet sides, where a packet keeps its id.  The queues send the values, *)
(* all of one priority, in order; the requests have a priority of their    *)
(* own.  Every request is sent in a millisecond of its own.                *)
(***************************************************************************)
EXTENDS Integers, Sequences, FiniteSets, TLC

CONSTANTS
    VarNodes, VarWriters,   \* the routers, and those whose application writes
    MaxVersion,             \* bound: packets written
    MaxVarCalls             \* bound: calls that enable, disable or ask

ASSUME VarAssumption == VarWriters \subseteq VarNodes

VARIABLES
    varPolicy,      \* router -> managed_variable_policy of the type
    varLatest,      \* router -> version of managed_variable_latest, 0: none
    varSeen,        \* router -> versions whose packet id is in recent_set
    varValues,      \* <<from, to>> -> versions queued or under way
    varRequests,    \* <<from, to>> -> number of requests queued or under way
    varVersion, varCalls

varVars == <<varPolicy, varLatest, varSeen, varValues, varRequests, varVersion, varCalls>>

NoPolicy == [enabled |-> FALSE, can_read |-> TRUE, can_write |-> TRUE]
VarLinks == {l \in VarNodes \X VarNodes : l[1] # l[2]}
VarCall  == varCalls < MaxVarCalls /\ varCalls' = varCalls + 1

VarInit ==
    /\ varPolicy = [n \in VarNodes |-> NoPolicy]
    /\ varLatest = [n \in VarNodes |-> 0]
    /\ varSeen = [n \in VarNodes |-> {}]
    /\ varValues = [l \in VarLinks |-> << >>]
    /\ varRequests = [l \in VarLinks |-> 0]
    /\ varVersion = 0 /\ varCalls = 0

-----------------------------------------------------------------------------
(* seds_router_enable_managed_variable, seds_router_enable_network_variable *)
EnableVariable(n, can_read, can_write) ==
    /\ VarCall
    /\ varPolicy' = [varPolicy EXCEPT ![n] = [enabled |-> TRUE, can_read |-> can_read,
                                              can_write |-> can_write]]
    /\ UNCHANGED <<varLatest, varSeen, varValues, varRequests, varVersion>>

(* seds_router_disable_managed_variable *)
DisableVariable(n) ==
    /\ VarCall
    /\ varPolicy' = [varPolicy EXCEPT ![n] = NoPolicy]
    /\ varLatest' = [varLatest EXCEPT ![n] = 0]
    /\ UNCHANGED <<varSeen, varValues, varRequests, varVersion>>

(* remember_managed_packet enables the variable and keeps the packet. *)
Remembered(n, version) ==
    /\ varPolicy' = [varPolicy EXCEPT ![n].enabled = TRUE]
    /\ varLatest' = [varLatest EXCEPT ![n] = version]

(* seds_router_set_network_variable_packed: kept, then sent on every side.  *)
(* A call without permission to write changes nothing.                      *)
SetVariable(n) ==
    /\ varVersion < MaxVersion /\ varPolicy[n].can_write
    /\ Remembered(n, varVersion + 1)
    /\ varVersion' = varVersion + 1
    /\ varValues' = [l \in VarLinks |-> IF l[1] = n THEN Append(varValues[l], varVersion + 1)
                                                    ELSE varValues[l]]
    /\ UNCHANGED <<varSeen, varRequests, varCalls>>

(* seds_router_seed_managed_variable_packed: kept only, whatever the policy. *)
SeedVariable(n) ==
    /\ varVersion < MaxVersion
    /\ Remembered(n, varVersion + 1)
    /\ varVersion' = varVersion + 1
    /\ UNCHANGED <<varSeen, varValues, varRequests, varCalls>>

(* queue_managed_request *)
Requested(n) ==
    varRequests' = [l \in VarLinks |-> IF l[1] = n THEN varRequests[l] + 1 ELSE varRequests[l]]

(* seds_router_request_managed_variable *)
RequestVariable(n) ==
    /\ VarCall /\ varPolicy[n].can_read
    /\ varPolicy' = [varPolicy EXCEPT ![n].enabled = TRUE]
    /\ Requested(n)
    /\ UNCHANGED <<varLatest, varSeen, varValues, varVersion>>

(* seds_router_get_network_variable_packed, which asks for a value that is *)
(* missing or older than the caller accepts, and enables nothing           *)
GetVariable(n) ==
    /\ VarCall /\ varPolicy[n].can_read
    /\ Requested(n)
    /\ UNCHANGED <<varPolicy, varLatest, varSeen, varValues, varVersion>>

-----------------------------------------------------------------------------
(* router_receive_impl *)

(* handle_managed_variable_request: whatever is cached goes back to the    *)
(* side the request came from.                                             *)
ReceiveRequest(n, from) ==
    /\ varRequests[<<from, n>>] > 0
    /\ varRequests' = [varRequests EXCEPT ![<<from, n>>] = @ - 1]
    /\ varValues' = IF varLatest[n] = 0 THEN varValues
                    ELSE [varValues EXCEPT ![<<n, from>>] = Append(@, varLatest[n])]
    /\ UNCHANGED <<varPolicy, varLatest, varSeen, varVersion, varCalls>>

(* Mutant: a packet seen before is handled again. *)
ReceiveValueAgain(n, from) ==
    /\ varValues[<<from, n>>] # << >>
    /\ varValues' = [varValues EXCEPT ![<<from, n>>] = Tail(@)]
    /\ varLatest' = IF ~varPolicy[n].enabled THEN varLatest
                    ELSE [varLatest EXCEPT ![n] = Head(varValues[<<from, n>>])]
    /\ UNCHANGED <<varPolicy, varSeen, varRequests, varVersion, varCalls>>

(* remember_managed_variable_packet: a packet not seen before replaces the *)
(* cached one, whichever is newer and whoever wrote it.                    *)
ReceiveValue(n, from) ==
    /\ varValues[<<from, n>>] # << >>
    /\ LET version == Head(varValues[<<from, n>>])
       IN  /\ varSeen' = [varSeen EXCEPT ![n] = @ \cup {version}]
           /\ varLatest' = IF version \in varSeen[n] \/ ~varPolicy[n].enabled THEN varLatest
                           ELSE [varLatest EXCEPT ![n] = version]
    /\ varValues' = [varValues EXCEPT ![<<from, n>>] = Tail(@)]
    /\ UNCHANGED <<varPolicy, varRequests, varVersion, varCalls>>

VarNext ==
    \/ \E n \in VarNodes :
          \/ \E r, w \in BOOLEAN : EnableVariable(n, r, w)
          \/ DisableVariable(n) \/ RequestVariable(n) \/ GetVariable(n)
    \/ \E n \in VarWriters : SetVariable(n) \/ SeedVariable(n)
    \/ \E l \in VarLinks : ReceiveRequest(l[2], l[1]) \/ ReceiveValue(l[2], l[1])

VarSpec == VarInit /\ [][VarNext]_varVars

-----------------------------------------------------------------------------
(* Properties *)

(***************************************************************************)
(* Between one writer and one reader, what arrives never takes the reader  *)
(* back to an older value, although the writer itself can fall back to one *)
(* that the reader echoes (handle_managed_variable_request) and then       *)
(* answer with it, and remember_managed_variable_packet compares nothing:  *)
(* the packet of an older value has been seen before.  A second reader     *)
(* breaks this: its answer can overtake the writer's packet.               *)
(***************************************************************************)
ReaderNeverGoesBack ==
    [][\A n \in VarNodes \ VarWriters :
          varLatest'[n] >= varLatest[n] \/ varLatest'[n] = 0]_varVars

(***************************************************************************)
(* A router with the variable enabled and nothing cached has a value once  *)
(* one arrives: a request refreshes a missing entry.                       *)
(***************************************************************************)
ArrivedIsCached ==
    [][\A l \in VarLinks :
          ReceiveValue(l[2], l[1]) /\ varPolicy[l[2]].enabled => varLatest'[l[2]] # 0]_varVars
=============================================================================
