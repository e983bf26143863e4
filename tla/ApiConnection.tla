---------------------------- MODULE ApiConnection ----------------------------
(***************************************************************************)
(* The cached connection of                                                *)
(* chain-helpers/src/blockchainApiConnection/BlockchainApiConnection.ts.   *)
(*                                                                         *)
(* The cache holds a promise of a Blockchain, not a Blockchain: a Handle   *)
(* stands for such a promise and the connection it comes to.  The code     *)
(* runs to its next await without interruption, so a call is one action up *)
(* to the await of a handle and another from there on.                     *)
(*                                                                         *)
(* The provider is external: it keeps trying until the node answers, may   *)
(* lose the socket and get it back, and stays closed once disconnected.    *)
(***************************************************************************)
EXTENDS Naturals

CONSTANTS
    Caller,     \* concurrent users of the module
    Handle,     \* promises of a connection, each built at most once
    NoHandle    \* null

ASSUME ConnectionAssumption == NoHandle \notin Handle

VARIABLES
    configured,  \* whether ConfigService has a usable address
    instance,    \* the cached promise, or NoHandle
    conn,        \* what each handle has come to
    pc,          \* what each caller awaits its handle for, if anything
    handle,      \* the handle a caller awaits, or was given last
    result,      \* what a caller's last call came to
    loose        \* history: handles its users keep themselves: built by them,
                 \* or put into or out of the cache by setConnection or clearCache

cacheVars == <<configured, instance, conn, pc, handle, result, loose>>

Stage == {"idle", "connecting", "probing", "disconnecting"}
LinkState == {"unused", "building", "failed", "up", "down", "closed"}

CacheTypeOK ==
    /\ configured \in BOOLEAN
    /\ instance \in Handle \union {NoHandle}
    /\ conn \in [Handle -> LinkState]
    /\ pc \in [Caller -> Stage]
    /\ handle \in [Caller -> Handle \union {NoHandle}]
    /\ result \in [Caller -> {"none", "connection", "true", "false", "rejected"}]
    /\ loose \subseteq Handle
    /\ \A c \in Caller : pc[c] # "idle" => handle[c] \in Handle

CacheInit ==
    /\ configured = FALSE
    /\ instance = NoHandle
    /\ conn = [h \in Handle |-> "unused"]
    /\ pc = [c \in Caller |-> "idle"]
    /\ handle = [c \in Caller |-> NoHandle]
    /\ result = [c \in Caller |-> "none"]
    /\ loose = {}

-----------------------------------------------------------------------------
Open(h) == conn[h] \in {"building", "up", "down"}

(* The promise has been fulfilled with a Blockchain, whatever became of its *)
(* socket since.                                                            *)
Fulfilled(h) == conn[h] \in {"up", "down", "closed"}

Doomed(h) == \E c \in Caller : pc[c] = "disconnecting" /\ handle[c] = h

(* External: Kilt.config({ address }).                                      *)
Configure ==
    /\ ~configured
    /\ configured' = TRUE
    /\ UNCHANGED <<instance, conn, pc, handle, result, loose>>

(* buildConnection: without a usable address the promise is rejected.       *)
Build(h) ==
    /\ conn[h] = "unused"
    /\ conn' = [conn EXCEPT ![h] = IF configured THEN "building" ELSE "failed"]

Await(c, stage, h) ==
    /\ pc' = [pc EXCEPT ![c] = stage]
    /\ handle' = [handle EXCEPT ![c] = h]

Return(c, value) ==
    /\ pc' = [pc EXCEPT ![c] = "idle"]
    /\ result' = [result EXCEPT ![c] = value]

(* Mutated: the promise is cached only when it is fulfilled.                *)
GetConnectionOrConnectLate(c) ==
    /\ pc[c] = "idle"
    /\ IF instance = NoHandle
       THEN \E h \in Handle : Build(h) /\ UNCHANGED instance /\ Await(c, "connecting", h)
       ELSE UNCHANGED <<instance, conn>> /\ Await(c, "connecting", instance)
    /\ UNCHANGED <<configured, result, loose>>

(* getConnectionOrConnect up to its await of the cached promise.            *)
GetConnectionOrConnect(c) ==
    /\ pc[c] = "idle"
    /\ IF instance = NoHandle
       THEN \E h \in Handle : Build(h) /\ instance' = h /\ Await(c, "connecting", h)
       ELSE UNCHANGED <<instance, conn>> /\ Await(c, "connecting", instance)
    /\ UNCHANGED <<configured, result, loose>>

(* Mutated: a rejected promise is awaited for ever.                         *)
ResumesNeverRejects(c) ==
    /\ pc[c] = "connecting" /\ Fulfilled(handle[c]) /\ Return(c, "connection")
    /\ UNCHANGED <<configured, instance, conn, handle, loose>>

(* The promise getConnectionOrConnect returned is settled.                  *)
ConnectionResumes(c) ==
    /\ pc[c] = "connecting"
    /\ \/ Fulfilled(handle[c]) /\ Return(c, "connection")
       \/ conn[handle[c]] = "failed" /\ Return(c, "rejected")
    /\ UNCHANGED <<configured, instance, conn, handle, loose>>

(* connected: false without a cached promise, and otherwise what the        *)
(* connection awaited is like when the call resumes.                        *)
Connected(c) ==
    /\ pc[c] = "idle"
    /\ IF instance = NoHandle
       THEN /\ Return(c, "false")
            /\ UNCHANGED handle
       ELSE Await(c, "probing", instance) /\ UNCHANGED result
    /\ UNCHANGED <<configured, instance, conn, loose>>

ConnectedResumes(c) ==
    /\ pc[c] = "probing"
    /\ \/ Fulfilled(handle[c])
          /\ Return(c, IF conn[handle[c]] = "up" THEN "true" ELSE "false")
       \/ conn[handle[c]] = "failed" /\ Return(c, "rejected")
    /\ UNCHANGED <<configured, instance, conn, handle, loose>>

(* Mutated: the cache is cleared only if there is something to await.       *)
DisconnectNoClear(c) ==
    /\ pc[c] = "idle"
    /\ UNCHANGED instance
    /\ IF instance = NoHandle
       THEN /\ Return(c, "false")
            /\ UNCHANGED handle
       ELSE Await(c, "disconnecting", instance) /\ UNCHANGED result
    /\ UNCHANGED <<configured, conn, loose>>

(* disconnect clears the cache first, and then awaits what was cached.      *)
Disconnect(c) ==
    /\ pc[c] = "idle"
    /\ instance' = NoHandle
    /\ IF instance = NoHandle
       THEN /\ Return(c, "false")
            /\ UNCHANGED handle
       ELSE Await(c, "disconnecting", instance) /\ UNCHANGED result
    /\ UNCHANGED <<configured, conn, loose>>

(* Mutated: only a connection that is up is disconnected.                   *)
DisconnectResumesIfUp(c) ==
    /\ pc[c] = "disconnecting"
    /\ \/ /\ Fulfilled(handle[c])
          /\ Return(c, IF conn[handle[c]] = "up" THEN "true" ELSE "false")
          /\ conn' = IF conn[handle[c]] = "up"
                     THEN [conn EXCEPT ![handle[c]] = "closed"] ELSE conn
       \/ conn[handle[c]] = "failed" /\ Return(c, "rejected") /\ UNCHANGED conn
    /\ UNCHANGED <<configured, instance, handle, loose>>

(* It is there: disconnect notes whether it is up and closes it.            *)
DisconnectResumes(c) ==
    /\ pc[c] = "disconnecting"
    /\ \/ /\ Fulfilled(handle[c])
          /\ Return(c, IF conn[handle[c]] = "up" THEN "true" ELSE "false")
          /\ conn' = [conn EXCEPT ![handle[c]] = "closed"]
       \/ conn[handle[c]] = "failed" /\ Return(c, "rejected") /\ UNCHANGED conn
    /\ UNCHANGED <<configured, instance, handle, loose>>

(* External: the node answers, and the socket comes and goes.               *)
NodeAnswers(h) ==
    /\ conn[h] = "building"
    /\ conn' = [conn EXCEPT ![h] = "up"]
    /\ UNCHANGED <<configured, instance, pc, handle, result, loose>>

SocketDrops(h) ==
    /\ conn[h] = "up"
    /\ conn' = [conn EXCEPT ![h] = "down"]
    /\ UNCHANGED <<configured, instance, pc, handle, result, loose>>

SocketReturns(h) ==
    /\ conn[h] = "down"
    /\ conn' = [conn EXCEPT ![h] = "up"]
    /\ UNCHANGED <<configured, instance, pc, handle, result, loose>>

(* For advanced use: the cache is cleared or set by hand.  Nothing is       *)
(* disconnected, so from then on its user answers for the old connection,   *)
(* and for the one it sets.                                                 *)
Displace(h) ==
    /\ instance' = h
    /\ loose' = loose \union ({instance, h} \ {NoHandle})

ClearCache ==
    /\ instance # NoHandle
    /\ Displace(NoHandle)
    /\ UNCHANGED <<configured, conn, pc, handle, result>>

SetConnection ==
    /\ \E h \in Handle \ {instance} : conn[h] # "unused" /\ Displace(h)
    /\ UNCHANGED <<configured, conn, pc, handle, result>>

BuildConnection ==
    /\ \E h \in Handle : Build(h) /\ loose' = loose \union {h}
    /\ UNCHANGED <<configured, instance, pc, handle, result>>

-----------------------------------------------------------------------------
External == \E h \in Handle : NodeAnswers(h) \/ SocketDrops(h) \/ SocketReturns(h)

Call(c) == GetConnectionOrConnect(c) \/ Connected(c) \/ Disconnect(c)
Resume(c) == ConnectionResumes(c) \/ ConnectedResumes(c) \/ DisconnectResumes(c)

(* Callers that leave the cache to the module.                              *)
PlainNext == Configure \/ External \/ \E c \in Caller : Call(c) \/ Resume(c)

(* Callers that manage it themselves as well.                               *)
CacheNext == PlainNext \/ ClearCache \/ SetConnection \/ BuildConnection

CacheSpec == CacheInit /\ [][CacheNext]_cacheVars

(* Settled promises resume those who await them, and the node answers in    *)
(* the end.  Nobody need call anything, and a lost socket need not return.  *)
CacheFairness ==
    /\ \A c \in Caller : WF_cacheVars(Resume(c))
    /\ \A h \in Handle : WF_cacheVars(NodeAnswers(h))

FairCacheSpec == CacheSpec /\ CacheFairness

-----------------------------------------------------------------------------
(* "it keeps one connection open and allows to reuse the connection"        *)
(* (BlockchainApiConnection.ts:9): however connects and disconnects race,   *)
(* a connection that is open is the cached one or about to be disconnected, *)
(* unless a user has taken charge of it.                                    *)
NoOrphan == \A h \in Handle : Open(h) => h = instance \/ Doomed(h) \/ h \in loose

(* Whoever connects after a disconnect began never gets the connection that *)
(* is being torn down: it is out of the cache already.                      *)
CacheAlive ==
    instance # NoHandle /\ instance \notin loose =>
        conn[instance] # "closed" /\ ~Doomed(instance)

(* Every call returns, even of a connection that failed, or that another    *)
(* caller disconnected meanwhile.                                           *)
CallsReturn == \A c \in Caller : pc[c] # "idle" ~> pc[c] = "idle"

(* A disconnected connection is closed in the end, even when disconnect is  *)
(* called before it is up, or while its socket is lost.                     *)
DisconnectCloses == \A h \in Handle : Doomed(h) ~> ~Open(h)

=============================================================================
