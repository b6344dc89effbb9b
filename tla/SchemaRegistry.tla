--------------------------- MODULE SchemaRegistry ---------------------------
(***************************************************************************)
(* The runtime schema of a process: the data types and endpoints of        *)
(* src/core.cpp and what src/upstream_api_compat.cpp registers and         *)
(* removes.  Ids are scaled down: Base stands for 100, where the ids of    *)
(* users start; the built-in types have fixed wire ids below it.  Of a     *)
(* type, its name, endpoints and whether it is reliable are kept;          *)
(* descriptions, priorities and element types are not.                     *)
(* A call that fails, and one that repeats a registration, changes nothing *)
(* and is left out.                                                        *)
(***************************************************************************)
EXTENDS Integers, Sequences, SequencesExt, FiniteSets, FiniteSetsExt, Functions, TLC

CONSTANTS
    Base,
    BuiltinType,        \* wire id below Base -> name of the built-in type
    BuiltinEndpoint,    \* 200, 201, 202: endpoint id -> name
    InitialTypes,       \* kTypeInfo: id -> [name, eps, reliable]
    InitialEndpoints,   \* kEndpointNames: id -> name
    UserTypeIds, UserEndpointIds, UserTypeNames, UserEndpointNames,
    SchemaDocs,         \* JSON documents
    MaxId,              \* bound: ids of types are uint32_t
    MaxSchemaCalls      \* bound: calls that change a schema

(***************************************************************************)
(* The built-in types have wire ids below Base; compiled types have ids    *)
(* below Base or Base + id, and the built-in endpoints come after both.    *)
(***************************************************************************)
ASSUME IdsAssumption ==
    /\ Base \in Nat \ {0} /\ MaxId \in Nat /\ 2 * Base <= MaxId
    /\ DOMAIN BuiltinType \subseteq 0 .. Base - 1
    /\ \A ep \in DOMAIN BuiltinEndpoint : ep \in Nat /\ ep >= 2 * Base
    /\ UserTypeIds \subseteq Nat /\ UserEndpointIds \subseteq Nat
    /\ \A doc \in SchemaDocs : Len(doc.endpoints) \in Nat /\ Len(doc.types) \in Nat

(***************************************************************************)
(* The compiled schema (scripts/generate_schema.py and                     *)
(* make_runtime_type_info): a type names each of its endpoints once, both  *)
(* copies of a type are equally reliable, and every built-in type is there *)
(* with none but built-in endpoints, under an id below Base or from        *)
(* 2 * Base on (0 to 18, and 1010 to 1018).                                *)
(***************************************************************************)
ASSUME CompiledAssumption ==
    /\ DOMAIN InitialTypes \subseteq 0 .. MaxId
    /\ DOMAIN InitialEndpoints \subseteq Nat /\ IsFiniteSet(DOMAIN InitialEndpoints)
    /\ \A ty \in DOMAIN InitialTypes :
          /\ InitialTypes[ty].eps \subseteq DOMAIN InitialEndpoints
          /\ \A a, b \in InitialTypes[ty].eps : InitialEndpoints[a] = InitialEndpoints[b] => a = b
          /\ \A w \in DOMAIN BuiltinType :
                InitialTypes[ty].name = BuiltinType[w] => ty < Base \/ ty >= 2 * Base
    /\ \A a, b \in DOMAIN InitialTypes :
          InitialTypes[a].name = InitialTypes[b].name => InitialTypes[a].reliable = InitialTypes[b].reliable
    /\ \A w \in DOMAIN BuiltinType : \E ty \in DOMAIN InitialTypes :
          /\ InitialTypes[ty].name = BuiltinType[w]
          /\ InitialTypes[ty].eps \subseteq DOMAIN BuiltinEndpoint

VARIABLES
    types,              \* kTypeInfo: id -> [name, eps, reliable]
    endpoints,          \* kEndpointNames: id -> name
    schemaCalls

schemaVars == <<types, endpoints, schemaCalls>>

(* make_runtime_type_info, make_runtime_endpoint_names: a type of the      *)
(* compiled schema is present under its old id and under Base + id.        *)
SchemaInit ==
    /\ types = InitialTypes
    /\ endpoints = InitialEndpoints
    /\ schemaCalls = 0

SchemaCall == schemaCalls < MaxSchemaCalls /\ schemaCalls' = schemaCalls + 1

ValidType(ty)     == ty \in DOMAIN types
ValidEndpoint(ep) == ep \in DOMAIN endpoints
TypesNamed(name)  == {ty \in DOMAIN types : types[ty].name = name}
EndpointsNamed(name) == {ep \in DOMAIN endpoints : endpoints[ep] = name}
IsInternalType(ty) == types[ty].name \in Range(BuiltinType)

(* c_api_type_id: an id that is not in the table and is the wire id of a   *)
(* built-in type means that type.                                          *)
CApiTypeId(ty) ==
    IF ValidType(ty) \/ ty \notin DOMAIN BuiltinType
       \/ TypesNamed(BuiltinType[ty]) = {} THEN ty
    ELSE Min(TypesNamed(BuiltinType[ty]))

-----------------------------------------------------------------------------
(* One process's tables [types, endpoints], before and after a call *)

Registered(table, id, v) ==
    [x \in DOMAIN table \cup {id} |-> IF x = id THEN v ELSE table[x]]

(* seds_endpoint_register_ex for an id and a name that are not in use *)
EndpointFits(s, id, name) == id \notin DOMAIN s.endpoints /\ name \notin Range(s.endpoints)
WithEndpoint(s, id, name) ==
    [types |-> s.types, endpoints |-> Registered(s.endpoints, id, name)]

(* seds_dtype_register and seds_dtype_register_ex, likewise *)
TypeFits(s, id, info) ==
    /\ info.eps \subseteq DOMAIN s.endpoints
    /\ id \notin DOMAIN s.types /\ id <= MaxId
    /\ \A ty \in DOMAIN s.types : s.types[ty].name # info.name
WithType(s, id, info) ==
    [types |-> Registered(s.types, id, info), endpoints |-> s.endpoints]

(* seds_endpoint_remove takes the types of the endpoint with it. *)
WithoutEndpoint(s, id) ==
    [endpoints |-> Restrict(s.endpoints, DOMAIN s.endpoints \ {id}),
     types |-> Restrict(s.types, {ty \in DOMAIN s.types : id \notin s.types[ty].eps})]

Tables == [types |-> types, endpoints |-> endpoints]
Becomes(s) ==
    /\ types' = s.types
    /\ endpoints' = s.endpoints

(* register_schema_json_text: ids are the first free ones from Base on. *)
FirstFree(used) == Min({i \in Base .. Base + Cardinality(used) : i \notin used})

(***************************************************************************)
(* The endpoints, then the types of a document, one after the other.  The  *)
(* first that does not fit ends the load and what came before it stays.  A *)
(* type's endpoints are looked up among those of the same document.        *)
(***************************************************************************)
LoadEndpoint(l, name) ==
    LET id == FirstFree(DOMAIN l.s.endpoints)
    IN  IF ~l.ok \/ ~EndpointFits(l.s, id, name)
        THEN [s |-> l.s, ok |-> FALSE, ids |-> l.ids]
        ELSE [s |-> WithEndpoint(l.s, id, name), ok |-> TRUE, ids |-> Registered(l.ids, name, id)]
LoadType(l, decl) ==
    LET id == FirstFree(DOMAIN l.s.types)
        info == [name |-> decl.name, reliable |-> decl.reliable,
                 eps |-> {l.ids[e] : e \in decl.eps \cap DOMAIN l.ids}]
    IN  IF ~l.ok \/ info.eps = {} \/ ~TypeFits(l.s, id, info)
        THEN [s |-> l.s, ok |-> FALSE, ids |-> l.ids]
        ELSE [s |-> WithType(l.s, id, info), ok |-> TRUE, ids |-> l.ids]
LoadedEndpoints(s, decls) ==
    LET load[k \in 0 .. Len(decls)] ==
            IF k = 0 THEN [s |-> s, ok |-> TRUE, ids |-> << >>]
            ELSE LoadEndpoint(load[k - 1], decls[k])
    IN  load[Len(decls)]
Loaded(s, doc) ==
    LET load[k \in 0 .. Len(doc.types)] ==
            IF k = 0 THEN LoadedEndpoints(s, doc.endpoints)
            ELSE LoadType(load[k - 1], doc.types[k])
    IN  load[Len(doc.types)].s

-----------------------------------------------------------------------------
(* The calls *)

RegisterEndpoint(id, name) ==
    /\ SchemaCall
    /\ EndpointFits(Tables, id, name)
    /\ Becomes(WithEndpoint(Tables, id, name))

RegisterType(ty, info) ==
    /\ SchemaCall
    /\ TypeFits(Tables, CApiTypeId(ty), info)
    /\ Becomes(WithType(Tables, CApiTypeId(ty), info))

(* seds_endpoint_remove refuses the built-in ids, not their old ids. *)
RemoveEndpoint(id) ==
    /\ SchemaCall
    /\ ValidEndpoint(id) /\ id \notin DOMAIN BuiltinEndpoint
    /\ Becomes(WithoutEndpoint(Tables, id))

(* seds_endpoint_remove_by_name, seds_dtype_remove_by_name: the first id *)
RemoveEndpointByName(name) ==
    /\ EndpointsNamed(name) # {}
    /\ RemoveEndpoint(Min(EndpointsNamed(name)))

RemoveType(ty) ==
    /\ SchemaCall
    /\ ValidType(CApiTypeId(ty)) /\ ~IsInternalType(CApiTypeId(ty))
    /\ types' = Restrict(types, DOMAIN types \ {CApiTypeId(ty)})
    /\ UNCHANGED endpoints

RemoveTypeByName(name) ==
    /\ TypesNamed(name) # {}
    /\ RemoveType(Min(TypesNamed(name)))

(* seds_schema_register_json_bytes, seds_schema_register_json_file *)
LoadSchema(doc) ==
    /\ SchemaCall
    /\ Becomes(Loaded(Tables, doc))

(* new_router_impl names the endpoints of its handlers (ensure_handler_endpoint). *)
NewRouter(id) ==
    /\ SchemaCall
    /\ ~ValidEndpoint(id)
    /\ Becomes(WithEndpoint(Tables, id, "ENDPOINT_" \o ToString(id)))

SchemaNext ==
    \/ \E id \in UserEndpointIds, name \in UserEndpointNames : RegisterEndpoint(id, name)
    \/ \E ty \in UserTypeIds, name \in UserTypeNames, ep \in DOMAIN endpoints,
          reliable \in BOOLEAN :
          RegisterType(ty, [name |-> name, eps |-> {ep}, reliable |-> reliable])
    \/ \E id \in DOMAIN endpoints : RemoveEndpoint(id)
    \/ \E name \in Range(endpoints) : RemoveEndpointByName(name)
    \/ \E ty \in DOMAIN types \cup DOMAIN BuiltinType : RemoveType(ty)
    \/ \E name \in {types[ty].name : ty \in DOMAIN types} : RemoveTypeByName(name)
    \/ \E doc \in SchemaDocs : LoadSchema(doc)
    \/ \E id \in UserEndpointIds : NewRouter(id)

SchemaSpec == SchemaInit /\ [][SchemaNext]_schemaVars
=============================================================================
