------------------------ MODULE InterProcessResource ------------------------
(***************************************************************************)
(* InterProcessResourceManager (runtime/inter-process-resource.h): a ring  *)
(* of resources in shared memory, one of them active.  Workers take the    *)
(* active one for the time of a script; the master resets the next one and *)
(* makes it active when no worker is left on it, and clears the ones left  *)
(* behind.  The control block is used under a mutex, so each of its        *)
(* operations is one step; what the master does with a resource between    *)
(* two of them (reset, clear) takes time, and workers go on meanwhile.     *)
(***************************************************************************)
EXTENDS Integers

CONSTANTS Worker,           \* slots of workers: logname_id
          Pid,              \* what the kernel may call a process
          ResourceAmount,   \* RESOURCE_AMOUNT
          None              \* no resource

DistinctPids(p) == \A v, w \in Worker : p[v] = p[w] => v = w

\* The manager is instantiated with 2 (instance cache) and 30 (confdata).
\* With 1, which its static_assert admits, the next resource is the active one.
ASSUME ResourceAssumption == /\ ResourceAmount \in Nat \ {0, 1}
                             /\ Pid \subseteq Nat \ {0}
                             /\ None \notin Nat
                             /\ \E p \in [Worker -> Pid] : DistinctPids(p)

VARIABLES active_resource_id,
          acquired_pids,             \* acquired_pids[r][w]: the user of r in slot w, or 0
          dirty_inactive_resources,  \* of the master: to be cleared
          wiping,                    \* the resource the master resets or clears, or None
          switching,                 \* the master is in try_switch_to_next_unused_resource
          pid,                       \* pid[w]: the process in slot w, or 0
          current                    \* current[w]: the resource it uses, or None

ringVars == <<active_resource_id, acquired_pids, dirty_inactive_resources>>
resourceVars == <<ringVars, wiping, switching, pid, current>>

Resource == 0 .. ResourceAmount - 1

ResourceInit ==
  /\ active_resource_id = 0
  /\ acquired_pids = [r \in Resource |-> [w \in Worker |-> 0]]
  /\ dirty_inactive_resources = {}
  /\ wiping = None
  /\ switching = FALSE
  /\ pid = CHOOSE p \in [Worker -> Pid] : DistinctPids(p)
  /\ current = [w \in Worker |-> None]

(***************************************************************************)
(* InterProcessResourceControl.                                            *)
(***************************************************************************)
acquire_active_resource_id(w) ==
  acquired_pids' = [acquired_pids EXCEPT ![active_resource_id][w] = pid[w]]

release(w, r) == acquired_pids' = [acquired_pids EXCEPT ![r][w] = 0]

\* Mutant: a new process leaves what its predecessor had taken.
ReleaseNothing(w) == acquired_pids' = acquired_pids

force_release_all_resources(w) ==
  acquired_pids' = [r \in Resource |-> [acquired_pids[r] EXCEPT ![w] = 0]]

NextResource(r) == (r + 1) % ResourceAmount

get_next_inactive_resource_id == NextResource(active_resource_id)

is_resource_unused(r) == \A w \in Worker : acquired_pids[r][w] = 0

\* Mutant: the ring does not close.
NoWrap == active_resource_id' = active_resource_id + 1

switch_active_to_next == active_resource_id' = get_next_inactive_resource_id

(***************************************************************************)
(* Workers.  A child takes an empty slot, and first gives back what its    *)
(* predecessor in the slot had when it died.  (A child that dies before    *)
(* that has done nothing.)                                                 *)
(***************************************************************************)
Fork(w) ==
  /\ pid[w] = 0
  /\ \E p \in Pid \ {pid[v] : v \in Worker} : pid' = [pid EXCEPT ![w] = p]
  /\ force_release_all_resources(w)
  /\ UNCHANGED <<active_resource_id, dirty_inactive_resources, wiping, switching, current>>

acquire_current_resource(w) ==
  /\ pid[w] # 0 /\ current[w] = None
  /\ acquire_active_resource_id(w)
  /\ current' = [current EXCEPT ![w] = active_resource_id]
  /\ UNCHANGED <<active_resource_id, dirty_inactive_resources, wiping, switching, pid>>

release_resource(w) ==
  /\ current[w] \in Resource
  /\ release(w, current[w])
  /\ current' = [current EXCEPT ![w] = None]
  /\ UNCHANGED <<active_resource_id, dirty_inactive_resources, wiping, switching, pid>>

Die(w) ==
  /\ pid[w] # 0
  /\ pid' = [pid EXCEPT ![w] = 0]
  /\ current' = [current EXCEPT ![w] = None]
  /\ UNCHANGED <<ringVars, wiping, switching>>

WorkerStep(w) == \/ Fork(w) \/ Die(w)
                 \/ acquire_current_resource(w) \/ release_resource(w)

(***************************************************************************)
(* The master: try_switch_to_next_unused_resource.                         *)
(***************************************************************************)
BeginReset ==
  /\ wiping = None
  /\ is_resource_unused(get_next_inactive_resource_id)
  /\ wiping' = get_next_inactive_resource_id
  /\ switching' = TRUE
  /\ UNCHANGED <<ringVars, pid, current>>

EndReset ==
  /\ wiping # None /\ switching
  /\ switch_active_to_next
  /\ dirty_inactive_resources' =
       (dirty_inactive_resources \cup {active_resource_id}) \ {wiping}
  /\ wiping' = None
  /\ switching' = FALSE
  /\ UNCHANGED <<acquired_pids, pid, current>>

(***************************************************************************)
(* The master: clear_dirty_unused_resources_in_sequence.  The loop goes    *)
(* round the ring from the oldest resource and stops at the first dirty    *)
(* one that is in use.                                                     *)
(***************************************************************************)
Distance(r) == (r - active_resource_id) % ResourceAmount

\* Mutant: the loop passes over dirty resources in use.
AnyDirty == {r \in dirty_inactive_resources : is_resource_unused(r)}

OldestDirty ==
  {r \in dirty_inactive_resources :
     \A s \in dirty_inactive_resources : Distance(r) <= Distance(s)}

\* Mutant: the table of pids is not looked at.
ClearUnchecked(r) ==
  /\ wiping = None
  /\ r \in OldestDirty
  /\ wiping' = r
  /\ UNCHANGED <<ringVars, switching, pid, current>>

BeginClear(r) ==
  /\ wiping = None
  /\ r \in OldestDirty
  /\ is_resource_unused(r)
  /\ wiping' = r
  /\ UNCHANGED <<ringVars, switching, pid, current>>

EndClear ==
  /\ wiping # None /\ ~switching
  /\ dirty_inactive_resources' = dirty_inactive_resources \ {wiping}
  /\ wiping' = None
  /\ UNCHANGED <<active_resource_id, acquired_pids, switching, pid, current>>

MasterOfResources == \/ BeginReset \/ EndReset
                     \/ \E r \in Resource : BeginClear(r)
                     \/ EndClear

ResourceNext == MasterOfResources \/ \E w \in Worker : WorkerStep(w)

ResourceSpec == ResourceInit /\ [][ResourceNext]_resourceVars

(***************************************************************************)
(* Properties.                                                             *)
(***************************************************************************)
\* While the master resets or clears a resource, no process uses it, whatever
\* happened between the check of the table and the end of the reset; and a
\* process that releases a resource finds its own pid there, which is the
\* assertion of release.
ResourceInUseIsKept ==
  \A w \in Worker : current[w] \in Resource =>
    /\ wiping # current[w]
    /\ acquired_pids[current[w]][w] = pid[w]
=============================================================================
