------------------------------ MODULE Services ------------------------------
(***************************************************************************)
(* The parts of a node that share no state with one another, side by side: *)
(* the queues (src/queue.cpp), network time (src/timesync.cpp), calendar   *)
(* and packet codec (src/core.cpp, src/serialize.cpp), and the services of *)
(* src/upstream_api_compat.cpp: P2P streams, managed variables, schema     *)
(* and cryptography.  A behaviour exercises one of them, its workload, and *)
(* leaves the others in their initial state.                               *)
(***************************************************************************)
EXTENDS SharedQueues, TimeSync, Calendar, P2pStreams, ManagedVariables, WireCodec,
        Crypto, Sha256

VARIABLE workload

serviceVars == <<workload, queueVars, timeVars, clock, p2pVars, varVars, schemaVars,
                 cryptoVars, sha>>

ServicesInit ==
    /\ workload \in {"queues", "time", "calendar", "p2p", "variables", "schema", "crypto", "sha"}
    /\ QueueInit /\ TimeInit /\ CalendarInit /\ P2pInit /\ VarInit /\ SchemaInit
    /\ CryptoInit /\ ShaInit

Queues    == /\ workload = "queues" /\ QueueNext
             /\ UNCHANGED <<timeVars, clock, p2pVars, varVars, schemaVars, cryptoVars, sha>>
Time      == /\ workload = "time" /\ TimeNext
             /\ UNCHANGED <<queueVars, clock, p2pVars, varVars, schemaVars, cryptoVars, sha>>
Civil     == /\ workload = "calendar" /\ CalendarNext
             /\ UNCHANGED <<queueVars, timeVars, p2pVars, varVars, schemaVars, cryptoVars, sha>>
P2p       == /\ workload = "p2p" /\ P2pNext
             /\ UNCHANGED <<queueVars, timeVars, clock, varVars, schemaVars, cryptoVars, sha>>
Variables == /\ workload = "variables" /\ VarNext
             /\ UNCHANGED <<queueVars, timeVars, clock, p2pVars, schemaVars, cryptoVars, sha>>
Schema    == /\ workload = "schema" /\ SchemaNext
             /\ UNCHANGED <<queueVars, timeVars, clock, p2pVars, varVars, cryptoVars, sha>>
Ciphers   == /\ workload = "crypto" /\ CryptoNext
             /\ UNCHANGED <<queueVars, timeVars, clock, p2pVars, varVars, schemaVars, sha>>
Hash      == /\ workload = "sha" /\ ShaNext
             /\ UNCHANGED <<queueVars, timeVars, clock, p2pVars, varVars, schemaVars, cryptoVars>>

ServicesNext ==
    /\ \/ Queues \/ Time \/ Civil \/ P2p \/ Variables \/ Schema \/ Ciphers \/ Hash
    /\ UNCHANGED workload

ServicesSpec == ServicesInit /\ [][ServicesNext]_serviceVars

(***************************************************************************)
(* Where the schema changes, every packet is decoded as it was sent        *)
(* (DecodesToWhatWasSent, of serialize_packet_with_reliable and            *)
(* deserialize_packet).                                                    *)
(***************************************************************************)
SchemaDecodes == workload = "schema" => DecodesToWhatWasSent
=============================================================================
