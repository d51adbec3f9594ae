---------------------------- MODULE ChainDetails ----------------------------
(***************************************************************************)
(* SDKService.chainDetailsMap (rest-api/src/service/sdk.service.ts), which *)
(* serves GET /chains: a map of the chains per type, kept for the life of  *)
(* the service.  The cache is read before an await and filled after it, so *)
(* that requests which find it empty all fetch the map.  A map is the      *)
(* version of the API's data it was made of.                               *)
(***************************************************************************)
EXTENDS Naturals

CONSTANTS
  Readers,     \* requests for /chains
  MaxVersion   \* bound on the changes of the API's data

ASSUME DetailsConstants == MaxVersion \in Nat \ {0}

VARIABLES
  version,     \* the API's current data
  cache,       \* type -> the map kept, or NoMap
  reader       \* request -> where it is, what it asks for and holds

cvars == <<version, cache, reader>>

MapTypes == {"swap", "pool"}

NoMap == 0

Idle == [pc |-> "idle", type |-> "swap", map |-> NoMap, early |-> FALSE]

DetailsInit ==
  /\ version = 1
  /\ cache = [t \in MapTypes |-> NoMap]
  /\ reader = [r \in Readers |-> Idle]

Free(r) == reader[r].pc \in {"idle", "served", "failed"}

-----------------------------------------------------------------------------

(* The data behind the API changes. *)
ApiChanges ==
  /\ version < MaxVersion
  /\ version' = version + 1
  /\ UNCHANGED <<cache, reader>>

(* Seeded fault: a request asks the API whatever is kept. *)
ReadCacheAnyhow(r) ==
  /\ Free(r)
  /\ \E t \in MapTypes :
       reader' = [reader EXCEPT ![r] =
                    [pc |-> "asked", type |-> t, map |-> NoMap,
                     early |-> cache[t] = NoMap]]
  /\ UNCHANGED <<version, cache>>

(* A request: answered from the cache at once, or waiting for the API.     *)
(* "early" says that the cache was empty when it came.                     *)
ReadCache(r) ==
  /\ Free(r)
  /\ \E t \in MapTypes :
       reader' = [reader EXCEPT ![r] =
                    IF cache[t] = NoMap
                    THEN [pc |-> "asked", type |-> t, map |-> NoMap,
                          early |-> TRUE]
                    ELSE [pc |-> "served", type |-> t, map |-> cache[t],
                          early |-> FALSE]]
  /\ UNCHANGED <<version, cache>>

(* The API makes its answer, or fails: a 500, as nothing awaits the        *)
(* promise inside the handler's try.                                       *)
ApiAnswers(r) ==
  /\ reader[r].pc = "asked"
  /\ \/ reader' = [reader EXCEPT ![r].pc = "answered", ![r].map = version]
     \/ reader' = [reader EXCEPT ![r].pc = "failed"]
  /\ UNCHANGED <<version, cache>>

(* After the await: the answer replaces what is kept. *)
Keep(r) ==
  /\ reader[r].pc = "answered"
  /\ cache' = [cache EXCEPT ![reader[r].type] = reader[r].map]
  /\ reader' = [reader EXCEPT ![r].pc = "served"]
  /\ UNCHANGED version

DetailsNext ==
  \/ ApiChanges
  \/ \E r \in Readers : ReadCache(r) \/ ApiAnswers(r) \/ Keep(r)

-----------------------------------------------------------------------------

(* A map that is kept is replaced only by the answer of a request that     *)
(* came while none was kept; when those have ended it never changes, and a *)
(* map is never forgotten.                                                 *)
KeptMapsSettle ==
  [][\A t \in MapTypes :
       cache[t] # NoMap /\ cache'[t] # cache[t] =>
         /\ cache'[t] # NoMap
         /\ \E r \in Readers : /\ reader[r].pc = "answered"
                               /\ reader[r].type = t
                               /\ reader[r].early]_cvars
=============================================================================
