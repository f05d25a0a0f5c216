------------------------------ MODULE ClonePool ------------------------------
(***************************************************************************)
(* The pool of clones of one project, patchguru/utils/ClonedRepoManager.py *)
(* as patchguru/analysis/PRRetriever.py sets it up: a few working trees,   *)
(* the commit each of them is recorded to hold (in memory, and in the file *)
(* clone_state_<repo>.json that the next process reads), and the order in  *)
(* which they were used.  A manager asks for "main" first and pulls it;    *)
(* then its users ask for commits, one call of get_cloned_repo at a time.  *)
(* git may refuse, and the process may die, in any step.                   *)
(***************************************************************************)
EXTENDS Naturals, Functions

CONSTANTS
    Commits,            \* the commits of the pull requests (hashes)
    NbClones,           \* ClonedRepoManager.nb_clones
    Existing,           \* the branches the project has
    MaxFaults           \* bound: how often a process dies, or submodules fail

Branches == {"main", "master", "dev"}

ASSUME ClonesAssumption == NbClones \in Nat \ {0}
ASSUME CommitsAssumption == Commits \cap (Branches \cup {"unknown"}) = {}
ASSUME ExistingAssumption == Existing \subseteq Branches
ASSUME FaultsAssumption == MaxFaults \in Nat

Clones == 1 .. NbClones
Requests == Commits \cup {"main"}

VARIABLES
    pc,         \* where get_cloned_repo is; "down" when there is no manager
    wanted,     \* the commit get_cloned_repo was called with
    trying,     \* the one _safe_checkout is trying
    clone,      \* the clone it works on
    recorded,   \* clone_id_to_state[..]["commit"]
    usage,      \* usage_order[1 .. NbClones], the last one used last
    handed,     \* the ClonedRepo returned last
    head,       \* what is checked out in each clone
    stateFile,  \* the commits in the state file; all "unknown" when there is none
    torn,       \* ... unless it is not JSON
    recent,     \* history: the last NbClones commits this manager handed out, latest first
    faults      \* history: how many processes died or submodule updates failed

vars == <<pc, wanted, trying, clone, recorded, usage, handed, head, stateFile, torn,
          recent, faults>>

None == [commit |-> "unknown", clone |-> 1]
Unknown == [c \in Clones |-> "unknown"]    \* also: no commits were handed out
InOrder == [i \in Clones |-> i]

Init ==
    /\ pc = "down"
    /\ wanted = "main" /\ trying = "main" /\ clone = 1
    /\ recorded = Unknown
    /\ usage = InOrder
    /\ handed = None
    /\ \E branch \in Existing : head = [c \in Clones |-> branch]
    /\ stateFile = Unknown /\ torn = FALSE
    /\ recent = Unknown
    /\ faults = 0
-----------------------------------------------------------------------------
(***************************************************************************)
(* A manager is made: it reads the state file and resets every clone to    *)
(* its own HEAD, which stays what it was.  get_repo asks for "main".       *)
(***************************************************************************)
Start ==
    /\ pc = "down"
    /\ ~torn
    /\ recorded' = stateFile
    /\ usage' = InOrder
    /\ recent' = Unknown
    /\ wanted' = "main"
    /\ pc' = "Get"
    /\ UNCHANGED <<trying, clone, handed, head, stateFile, torn, faults>>

(* json.load raises, and retrieve_pr reports that there is no pull request *)
StartTorn ==
    /\ pc = "down"
    /\ torn
    /\ UNCHANGED vars

Request(commit) ==
    /\ pc = "Idle"
    /\ wanted' = commit
    /\ pc' = "Get"
    /\ UNCHANGED <<trying, clone, recorded, usage, handed, head, stateFile, recent, torn, faults>>

(* The process is done with its pull requests.                             *)
Stop ==
    /\ pc = "Idle"
    /\ pc' = "down"
    /\ UNCHANGED <<wanted, trying, clone, recorded, usage, handed, head, stateFile, recent, torn, faults>>

\* usage_order.remove(c), usage_order.append(c)
MovedToEnd(order, c) ==
    [i \in Clones |-> CASE i = NbClones -> c
                       [] i < NbClones /\ (\E j \in 1 .. i : order[j] = c) -> order[i + 1]
                       [] OTHER -> order[i]]

\* the history keeps as many commits as there are clones
MovedToFront(commits, commit) ==
    [i \in Clones |-> CASE i = 1 -> commit
                       [] i > 1 /\ (\A j \in 1 .. i - 1 : commits[j] # commit) -> commits[i - 1]
                       [] OTHER -> commits[i]]

(* _have_used_clone_id, and the ClonedRepo that is returned, which         *)
(* get_repo pulls when it is the first one                                 *)
Return(c) ==
    /\ handed' = [commit |-> wanted, clone |-> c]
    /\ recent' = MovedToFront(recent, wanted)
    /\ pc' = IF recent = Unknown THEN "Pull" ELSE "Idle"

HandOut_KeepsOrder(c) == Return(c) /\ usage' = usage

HandOut(c) == Return(c) /\ usage' = MovedToEnd(usage, c)

(* the first clone that is recorded to hold the commit is used again       *)
Holding(commit) == {c \in Clones : recorded[c] = commit}

Reuse_NotUsed ==
    /\ pc = "Get"
    /\ \E c \in Holding(wanted) :
         /\ \A d \in Holding(wanted) : c <= d
         /\ HandOut_KeepsOrder(c)
    /\ UNCHANGED <<wanted, trying, clone, recorded, head, stateFile, torn, faults>>

Reuse ==
    /\ pc = "Get"
    /\ \E c \in Holding(wanted) :
         /\ \A d \in Holding(wanted) : c <= d
         /\ HandOut(c)
    /\ UNCHANGED <<wanted, trying, clone, recorded, head, stateFile, torn, faults>>

(* otherwise the least recently used clone gets it                         *)
Choose ==
    /\ pc = "Get"
    /\ Holding(wanted) = {}
    /\ clone' = usage[1]
    /\ trying' = wanted
    /\ pc' = "Checkout"
    /\ UNCHANGED <<wanted, recorded, usage, handed, head, stateFile, recent, torn, faults>>
-----------------------------------------------------------------------------
(***************************************************************************)
(* _safe_checkout: a branch that fails gives way to the next one, a commit *)
(* (or the last branch) is fetched and tried once more.                    *)
(***************************************************************************)
CanCheckOut(target) == target \in Commits \cup Existing

Checkout ==
    /\ pc = "Checkout"
    /\ CanCheckOut(trying)
    /\ head' = [head EXCEPT ![clone] = trying]
    /\ pc' = "Record"
    /\ UNCHANGED <<wanted, trying, clone, recorded, usage, handed, stateFile, recent, torn, faults>>

NextBranch_Cycles ==
    \/ trying = "main" /\ trying' = "master" /\ UNCHANGED pc
    \/ trying = "master" /\ trying' = "main" /\ UNCHANGED pc
    \/ trying \notin {"main", "master"} /\ pc' = "Forced" /\ UNCHANGED trying

NextBranch ==
    \/ trying = "main" /\ trying' = "master" /\ UNCHANGED pc
    \/ trying = "master" /\ trying' = "dev" /\ UNCHANGED pc
    \/ trying \notin {"main", "master"} /\ pc' = "Forced" /\ UNCHANGED trying

CheckoutFails ==
    /\ pc = "Checkout"
    /\ NextBranch
    /\ UNCHANGED <<wanted, clone, recorded, usage, handed, head, stateFile, recent, torn, faults>>

(* the checkout succeeded, but the update of the submodules did not        *)
SubmodulesFail ==
    /\ pc = "Checkout"
    /\ faults < MaxFaults
    /\ faults' = faults + 1
    /\ CanCheckOut(trying)
    /\ head' = [head EXCEPT ![clone] = trying]
    /\ NextBranch
    /\ UNCHANGED <<wanted, clone, recorded, usage, handed, stateFile, recent, torn>>

ForcedCheckout ==
    /\ pc = "Forced"
    /\ CanCheckOut(trying)
    /\ head' = [head EXCEPT ![clone] = trying]
    /\ pc' = "Record"
    /\ UNCHANGED <<wanted, trying, clone, recorded, usage, handed, stateFile, recent, torn, faults>>

(* ... and an exception ends the process                                   *)
ForcedFails ==
    /\ pc = "Forced"
    /\ pc' = "down"
    /\ UNCHANGED <<wanted, trying, clone, recorded, usage, handed, head, stateFile, recent, torn, faults>>

Record_First ==
    /\ pc = "Record"
    /\ recorded' = [recorded EXCEPT ![1] = wanted]
    /\ pc' = "Write"
    /\ UNCHANGED <<wanted, trying, clone, usage, handed, head, stateFile, recent, torn, faults>>

Record ==
    /\ pc = "Record"
    /\ recorded' = [recorded EXCEPT ![clone] = wanted]
    /\ pc' = "Write"
    /\ UNCHANGED <<wanted, trying, clone, usage, handed, head, stateFile, recent, torn, faults>>

(* _write_clone_state, which all later processes rely on                   *)
Write ==
    /\ pc = "Write"
    /\ stateFile' = recorded
    /\ HandOut(clone)
    /\ UNCHANGED <<wanted, trying, clone, recorded, head, torn, faults>>

(* get_repo: git pull, which needs a branch and may fail on it as well     *)
Pull ==
    /\ pc = "Pull"
    /\ head[handed.clone] \in Branches
    /\ pc' = "Idle"
    /\ UNCHANGED <<wanted, trying, clone, recorded, usage, handed, head, stateFile, recent, torn, faults>>

PullFails ==
    /\ pc = "Pull"
    /\ pc' = "down"
    /\ UNCHANGED <<wanted, trying, clone, recorded, usage, handed, head, stateFile, recent, torn, faults>>

(* The process dies; open(.., "w") has truncated a file being written.     *)
Crash ==
    /\ pc # "down"
    /\ faults < MaxFaults
    /\ faults' = faults + 1
    /\ pc' = "down"
    /\ torn' \in IF pc = "Write" THEN {FALSE, TRUE} ELSE {torn}
    /\ UNCHANGED <<wanted, trying, clone, recorded, usage, handed, head, stateFile, recent>>
-----------------------------------------------------------------------------
\* the steps of a call of get_cloned_repo, and of the pull after the first
Call ==
    \/ Reuse \/ Choose
    \/ Checkout \/ CheckoutFails \/ SubmodulesFail \/ ForcedCheckout \/ ForcedFails
    \/ Record \/ Write
    \/ Pull \/ PullFails

Next ==
    \/ Start \/ StartTorn \/ Stop
    \/ \E commit \in Commits \cup {"main"} : Request(commit)
    \/ Call
    \/ Crash

Spec == Init /\ [][Next]_vars

(* Every git command and every write comes back: it succeeds or it raises. *)
FairSpec == Spec /\ WF_vars(Call)
-----------------------------------------------------------------------------
(***************************************************************************)
(* Properties.                                                             *)
(***************************************************************************)
Labels == {"down", "Idle", "Get", "Checkout", "Forced", "Record", "Write", "Pull"}
Contents == Commits \cup Branches \cup {"unknown"}

(* Every variable keeps its shape; usage_order stays an order of all the   *)
(* clones.                                                                 *)
TypeOK ==
    /\ pc \in Labels
    /\ wanted \in Requests /\ trying \in Commits \cup Branches /\ clone \in Clones
    /\ recorded \in [Clones -> Requests \cup {"unknown"}]
    /\ usage \in [Clones -> Clones] /\ IsInjective(usage)
    /\ handed \in [commit: Requests \cup {"unknown"}, clone: Clones]
    /\ head \in [Clones -> Contents]
    /\ stateFile \in [Clones -> Requests \cup {"unknown"}] /\ torn \in BOOLEAN
    /\ recent \in [Clones -> Requests \cup {"unknown"}]
    /\ faults \in Nat

Holds(c, commit) == head[c] = commit \/ (commit = "main" /\ head[c] \in Branches)

(* No two clones are ever recorded to hold the same commit, in memory or   *)
(* in the file, whatever failed and whichever process died: the search of  *)
(* get_cloned_repo cannot be ambiguous.                                    *)
Unambiguous(record) ==
    \A c, d \in Clones : record[c] = record[d] /\ c # d => record[c] = "unknown"

OneClonePerCommit == Unambiguous(recorded) /\ Unambiguous(stateFile)

(* "We use three instances to efficiently switch between the commits just  *)
(* before and just after a PR, as well as the latest commit in the main    *)
(* branch": the last NbClones commits asked for are all there, each in a   *)
(* clone of its own that is recorded to hold it, whatever git refused.     *)
RecentAreCached ==
    pc = "Idle" => \A i \in Clones : recent[i] # "unknown" => Holding(recent[i]) # {}

(* A checkout never happens in a clone that was handed out for one of the  *)
(* other last NbClones - 1 commits: PullRequest reads the files of the two *)
(* commits side by side.                                                   *)
OthersUndisturbed ==
    [][\A c \in Clones : head'[c] # head[c] =>
         \A i \in 1 .. NbClones - 1 : recent[i] # "unknown" => recorded[c] # recent[i]]_vars

(* The clone that is returned has the commit checked out ("checkout        *)
(* desired commit"), be it found in the record or checked out just now,    *)
(* unless a process died or the submodules of a checkout could not be      *)
(* updated: checkouts that git refuses never falsify the record.           *)
HandsOutCommit ==
    pc \in {"Idle", "Pull"} /\ faults = 0 => Holds(handed.clone, handed.commit)

(* Every call of get_cloned_repo returns or ends the process: the          *)
(* recursion of _safe_checkout over the names of the main branch stops.    *)
CallReturns == pc = "Get" ~> pc \in {"Idle", "down"}

=============================================================================
