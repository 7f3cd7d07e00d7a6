---------------------------- MODULE ExecutionTree ----------------------------
(***************************************************************************)
(* get_run_details (client.py): find a run's root execution, fetch the      *)
(* executions under it level by level (execution_tree.py), a level with a   *)
(* pool of threads, and hand each task the details of its child.  Requests  *)
(* of a level overtake each other, and any of them may fail.                *)
(***************************************************************************)
EXTENDS Integers, Sequences, FiniteSets, SequencesExt

CONSTANTS
  Ids,      \* execution ids
  Root,     \* the one asked for
  Trees,    \* bound: the trees considered, id -> the ids of its children
  PoolSizes  \* bound: the values of max_workers; 1: no threads

ASSUME TreeConstantsOK ==
  /\ Root \in Ids
  /\ Trees \subseteq [Ids -> Seq(Ids)]
  /\ PoolSizes \subseteq Nat \ {0}

VARIABLES
  tree,       \* the server's executions, which do not change
  workers,    \* max_workers, fixed
  step,       \* "run", "level", "fetch", "drain", "done", "raised"
  nodes,      \* id -> the details kept for it and its parent
  level,      \* the executions being fetched: [id, parent]
  started,    \* how many of them have been handed to a thread
  landed,     \* indexes of those whose request is over, in that order
  failed,     \* those of them that failed
  collected,  \* how many responses the caller has taken, in order
  persisted   \* ids given to the persist hook

fetching == <<level, started, landed, failed, collected>>
treeVars == <<tree, workers, step, nodes, fetching, persisted>>

Fetched == DOMAIN nodes
NoNodes == [x \in {} |-> x]

TreeInit ==
  /\ tree \in Trees
  /\ workers \in PoolSizes
  /\ step = "run"
  /\ nodes = NoNodes
  /\ level = <<>> /\ started = 0 /\ landed = <<>> /\ failed = {} /\ collected = 0
  /\ persisted = {}

(* An id that is no run's (404) is taken for the execution itself; any other *)
(* error is raised, and a run may have no root execution.                    *)
FindRoot ==
  /\ step = "run"
  /\ \/ step' = "level" /\ level' = <<[id |-> Root, parent |-> "none"]>>
     \/ step' \in {"done", "raised"} /\ level' = level
  /\ UNCHANGED <<tree, workers, nodes, started, landed, failed, collected, persisted>>

(* The level, without what is fetched; a child named twice in it stays twice. *)
Frontier == FlattenSeq([i \in DOMAIN level |->
              IF level[i].id \in Fetched THEN <<>> ELSE <<level[i]>>])

BeginLevel ==
  /\ step = "level"
  /\ IF Frontier = <<>> THEN step' = "done" /\ UNCHANGED fetching
     ELSE /\ step' = "fetch"
          /\ level' = Frontier
          /\ started' = 0 /\ landed' = <<>> /\ failed' = {} /\ collected' = 0
  /\ UNCHANGED <<tree, workers, nodes, persisted>>

-----------------------------------------------------------------------------
(* parallel_map. *)

Flying == (1..started) \ ToSet(landed)
Inline == workers = 1 \/ Len(level) = 1

(* Inline, the next request waits for the last response to be taken.         *)
Start ==
  /\ step = "fetch" /\ started < Len(level)
  /\ IF Inline THEN started = collected ELSE Cardinality(Flying) < workers
  /\ started' = started + 1
  /\ UNCHANGED <<tree, workers, step, nodes, level, landed, failed, collected, persisted>>

Land(i) ==
  /\ i \in Flying
  /\ landed' = Append(landed, i)
  /\ failed' \in {failed, failed \cup {i}}
  /\ UNCHANGED <<tree, workers, step, nodes, level, started, collected, persisted>>

Collect ==
  /\ step = "fetch"
  /\ collected + 1 \in ToSet(landed) \ failed
  /\ collected' = collected + 1
  /\ UNCHANGED <<tree, workers, step, nodes, level, started, landed, failed, persisted>>

(* The first failure in order cancels what has not started.                  *)
CollectFailure ==
  /\ step = "fetch"
  /\ collected + 1 \in ToSet(landed) \cap failed
  /\ step' = "drain"
  /\ UNCHANGED <<tree, workers, nodes, fetching, persisted>>

(* The pool is left when its threads are idle.                               *)
IdleAtOnce == TRUE  \* mutant: the failure is raised while others are under way
Idle == Flying = {}
LeavePool == /\ step = "drain" /\ Idle
             /\ step' = "raised"
             /\ UNCHANGED <<tree, workers, nodes, fetching, persisted>>

-----------------------------------------------------------------------------
(* Responses come in the order of the level, whatever order they landed in.  *)
ResponseAsLanded(i) == level[landed[i]].id  \* mutant: as they come in
ResponseTo(i) == level[i].id

ChildrenOf(entry) ==
  [c \in DOMAIN tree[entry.id] |-> [id |-> tree[entry.id][c], parent |-> entry.id]]

LastOf(x) == CHOOSE i \in DOMAIN level :
               level[i].id = x /\ \A j \in DOMAIN level : level[j].id = x => j <= i

CloseLevel ==
  /\ step = "fetch" /\ collected = Len(level)
  /\ LET ids == {level[i].id : i \in DOMAIN level}
     IN /\ nodes' = [x \in Fetched \cup ids |->
              IF x \in Fetched THEN nodes[x]
              ELSE [details |-> ResponseTo(LastOf(x)), parent |-> level[LastOf(x)].parent]]
        /\ persisted' = persisted \cup ids
  /\ level' = FlattenSeq([i \in DOMAIN level |-> ChildrenOf(level[i])])
  /\ step' = "level"
  /\ UNCHANGED <<tree, workers, started, landed, failed, collected>>

(* _enrich_execution_tree: what the task at position c of x is given.        *)
ContextOf(x, c) == nodes[tree[x][c]].details

FetchStep == \/ FindRoot \/ BeginLevel \/ Start
             \/ \E i \in Flying : Land(i)
             \/ Collect \/ CollectFailure \/ LeavePool \/ CloseLevel

TreeOver == step \in {"done", "raised"}

TreeNext == FetchStep \/ (TreeOver /\ UNCHANGED treeVars)

(* Every request ends.                                                       *)
TreeSpec == TreeInit /\ [][TreeNext]_treeVars /\ WF_treeVars(FetchStep)

-----------------------------------------------------------------------------
(* A tree handed out is whole: it has all the executions under the root, and *)
(* each task is given its own child's details, however the requests overtook *)
(* each other.  What was given to the persist hook was fetched, and its      *)
(* parents were before it.  When the call is over, no request is under way.  *)
Whole ==
  step = "done" /\ nodes # NoNodes =>
    /\ Root \in Fetched
    /\ \A x \in Fetched : \A c \in DOMAIN tree[x] :
         tree[x][c] \in Fetched /\ ContextOf(x, c) = tree[x][c]

PersistedInOrder ==
  \A x \in persisted : /\ x \in Fetched
                       /\ x # Root => nodes[x].parent \in persisted

TreeIsExact == Whole /\ PersistedInOrder /\ (TreeOver => Flying = {})
=============================================================================
