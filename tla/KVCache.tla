-------------------------------- MODULE KVCache --------------------------------
(***************************************************************************)
(* The paged KV cache of a lane: PagedKVCacheManager                       *)
(* (llm_runtime/paged_kv_cache.py) and the model it binds the tensors to.  *)
(*                                                                         *)
(* Every layer has its tensors, and allocating, binding, unbinding and     *)
(* deallocating may each stop half way.  kvDevice is what is really        *)
(* allocated, apart from the manager's own list.  Tensors of an earlier    *)
(* allocation are gone before new ones are made, so they share names.      *)
(***************************************************************************)
CONSTANT KVTensors

ASSUME KVTensorsAssumption == KVTensors # {}

VARIABLES
    kvState,        \* _state: "unresolved", "configured", "bound" or "released"
    kvHanded,       \* the caller has been given the cache
    kvBound,        \* the tensors the model's layers have been given
    kvOwned,        \* _owned_tensors
    kvDevice,       \* the tensors allocated on the device
    kvReleasing     \* _release_in_progress

kvVars == <<kvState, kvHanded, kvBound, kvOwned, kvDevice, kvReleasing>>

KVInit ==
    /\ kvState \in {"unresolved", "configured"}
    /\ kvHanded = FALSE
    /\ kvBound = {} /\ kvOwned = {} /\ kvDevice = {}
    /\ kvReleasing = FALSE

\* configure, which can replace the configuration once.
Configure ==
    /\ kvState = "unresolved"
    /\ kvState' = "configured"
    /\ UNCHANGED <<kvHanded, kvBound, kvOwned, kvDevice, kvReleasing>>

\* Mutant: the manager forgets what it could not deallocate.
DeallocatedForgets(tensors, device, stuck) ==
    /\ kvOwned' = {}
    /\ kvDevice' = device \ (tensors \ stuck)

\* _deallocate_owned_tensors: those that are stuck stay the manager's.
Deallocated(tensors, device, stuck) ==
    /\ kvOwned' = stuck
    /\ kvDevice' = device \ (tensors \ stuck)

\* allocate: leftovers of an earlier call are deallocated, the tensors made, and bound.
Allocate ==
    /\ kvState = "configured"
    /\ kvState' = "bound"
    /\ kvHanded' = TRUE
    /\ kvBound' = KVTensors
    /\ kvOwned' = KVTensors
    /\ kvDevice' = (kvDevice \ kvOwned) \cup KVTensors
    /\ UNCHANGED kvReleasing

\* The leftovers are stuck, or a tensor cannot be made, or the layers cannot be given theirs.
AllocateRaises ==
    /\ kvState = "configured"
    /\ \/ \E stuck \in SUBSET kvOwned \ {{}} : Deallocated(kvOwned, kvDevice, stuck)
       \/ \E made \in SUBSET KVTensors :
            \E stuck \in SUBSET made :
               Deallocated(made, (kvDevice \ kvOwned) \cup made, stuck)
    /\ UNCHANGED <<kvState, kvHanded, kvBound, kvReleasing>>

\* Neither can they be made to give them back: the manager is left bound, the caller without
\* a cache.
AllocateRaisesTwice ==
    /\ kvState = "configured"
    /\ kvState' = "bound"
    /\ kvBound' \in SUBSET KVTensors
    /\ kvOwned' = KVTensors
    /\ kvDevice' = (kvDevice \ kvOwned) \cup KVTensors
    /\ UNCHANGED <<kvHanded, kvReleasing>>

ToUnbind == kvState = "bound" /\ ~kvReleasing

\* release: the model gives up the tensors, then they are deallocated.
Release ==
    /\ kvState # "released" => Deallocated(kvOwned, kvDevice, {})
    /\ kvState = "released" => UNCHANGED <<kvOwned, kvDevice>>
    /\ kvState' = "released"
    /\ kvBound' = IF ToUnbind THEN {} ELSE kvBound
    /\ kvReleasing' = FALSE
    /\ UNCHANGED kvHanded

\* The model does not give them up, or some of them are stuck.
ReleaseRaises ==
    /\ kvState # "released"
    /\ \/ /\ ToUnbind
          /\ kvBound' \in SUBSET kvBound
          /\ UNCHANGED <<kvOwned, kvDevice, kvReleasing>>
       \/ /\ \E stuck \in SUBSET kvOwned \ {{}} : Deallocated(kvOwned, kvDevice, stuck)
          /\ kvBound' = IF ToUnbind THEN {} ELSE kvBound
          /\ kvReleasing' = (kvReleasing \/ kvState = "bound")
    /\ UNCHANGED <<kvState, kvHanded>>

-----------------------------------------------------------------------------

\* Through any allocation, binding or release that stops half way, the layers of the model never
\* have a tensor that is not on the device, and the manager owns exactly those that are, so that
\* none is lost or deallocated twice.
ModelSeesAllocated == kvBound \subseteq kvDevice /\ kvOwned = kvDevice

=============================================================================
