----------------------------- MODULE CableNames -----------------------------
(***************************************************************************)
(* The names of the virtual cable's endpoints (src-tauri/src/amvc_sync.rs).*)
(* A command plans which endpoints to rename, renames them one by one      *)
(* through the operating system, and an apply plans once more to report    *)
(* the result.  The commands run on the blocking pool, so two of them may  *)
(* interleave; an endpoint keeps a token that says which bus it backs.     *)
(***************************************************************************)

CONSTANTS Endpoints, Commands,
          SlotOf,      \* endpoint -> the bus its token stands for
          Requests,    \* the labels an apply may ask for: [slot -> name]
          Factory,     \* the labels of a restore (FACTORY_LABELS)
          NoRequest

VARIABLES displayed,   \* endpoint -> the name Windows shows
          present,     \* the endpoints of the installed driver
          task,        \* command -> where it is
          clean        \* history: the last command, if nothing overlapped or
                       \* broke it

cableNamesVars == <<displayed, present, task, clean>>

Slots == {SlotOf[e] : e \in Endpoints}
Speakers == "Speakers"
Labels == Requests \cup {Factory}
Idle == [at |-> "idle", labels |-> NoRequest, todo |-> {}, plan |-> {}]

CableNamesTypeOK ==
    /\ displayed \in [Endpoints -> {Speakers} \cup UNION {{l[s] : s \in Slots} : l \in Labels}]
    /\ present \subseteq Endpoints /\ clean \subseteq Commands
    /\ task \in [Commands -> [at : {"idle", "plan", "rename", "report", "aligned", "differs",
                                    "restored", "failed"},
                             labels : Labels \cup {NoRequest},
                             todo : SUBSET Endpoints, plan : SUBSET Endpoints]]

CableNamesInit == /\ displayed = [e \in Endpoints |-> Speakers]
                  /\ present = Endpoints
                  /\ task = [c \in Commands |-> Idle]
                  /\ clean = {}

(* Definitions ending in _Bug are mutants.                                 *)
Target_Bug(labels, e) == labels[CHOOSE s \in Slots : TRUE]
Target(labels, e) == labels[SlotOf[e]]

Running == {c \in Commands : task[c].at \in {"plan", "rename", "report"}}
Restores(c) == task[c].labels = Factory

(* A command starts, perhaps while others run.                             *)
Begin(c, labels) ==
    /\ task[c].at = "idle"
    /\ task' = [task EXCEPT ![c] = [at |-> "plan", labels |-> labels, todo |-> present, plan |-> {}]]
    /\ clean' = IF Running = {} THEN {c} ELSE {}
    /\ UNCHANGED <<displayed, present>>

(* build_plan looks at one endpoint of the registry after the other.  A    *)
(* restore rewrites those whose name is right as well.                     *)
NeedsChange(c, e) == displayed[e] # Target(task[c].labels, e)
PlanOne(c, e) ==
    /\ task[c].at \in {"plan", "report"} /\ e \in task[c].todo
    /\ LET noted == e \in present /\ (NeedsChange(c, e) \/ Restores(c))
       IN task' = [task EXCEPT ![c].todo = @ \ {e},
                               ![c].plan = IF noted THEN @ \cup {e} ELSE @]
    /\ UNCHANGED <<displayed, present, clean>>

Planned(c) ==
    /\ task[c].at = "plan" /\ task[c].todo = {}
    /\ task' = [task EXCEPT ![c].at = "rename", ![c].todo = task[c].plan, ![c].plan = {}]
    /\ UNCHANGED <<displayed, present, clean>>

(* com_apply_targets writes the name the plan had for this endpoint.       *)
RenameEndpoint(c, e) ==
    /\ task[c].at = "rename" /\ e \in task[c].todo /\ e \in present
    /\ displayed' = [displayed EXCEPT ![e] = Target(task[c].labels, e)]
    /\ task' = [task EXCEPT ![c].todo = @ \ {e}]
    /\ UNCHANGED <<present, clean>>

(* An endpoint that is gone, or that cannot be asked for its identifier,   *)
(* is passed over; a write that fails ends the command and leaves the      *)
(* endpoints that come later as they were.                                 *)
PassOver(c, e) ==
    /\ task[c].at = "rename" /\ e \in task[c].todo
    /\ task' = [task EXCEPT ![c].todo = @ \ {e}]
    /\ clean' = clean \ {c}
    /\ UNCHANGED <<displayed, present>>
WriteFails(c) ==
    /\ task[c].at = "rename" /\ task[c].todo \cap present # {}
    /\ task' = [task EXCEPT ![c] = [Idle EXCEPT !.at = "failed", !.labels = task[c].labels]]
    /\ clean' = clean \ {c}
    /\ UNCHANGED <<displayed, present>>

Renamed(c) ==
    /\ task[c].at = "rename" /\ task[c].todo = {}
    /\ task' = IF Restores(c) THEN [task EXCEPT ![c].at = "restored"]
               ELSE [task EXCEPT ![c].at = "report", ![c].todo = present]
    /\ UNCHANGED <<displayed, present, clean>>
Report(c) ==
    /\ task[c].at = "report" /\ task[c].todo = {}
    /\ task' = [task EXCEPT ![c].at = IF task[c].plan = {} THEN "aligned" ELSE "differs",
                            ![c].plan = {}]
    /\ UNCHANGED <<displayed, present, clean>>
Forget(c) ==
    /\ task[c].at \in {"aligned", "differs", "restored", "failed"}
    /\ task' = [task EXCEPT ![c] = Idle]
    /\ clean' = clean \ {c}
    /\ UNCHANGED <<displayed, present>>

(* The driver loses an endpoint, or gets it back with its first name.      *)
Uninstall(e) == /\ e \in present /\ present' = present \ {e}
                /\ clean' = IF Running = {} THEN clean ELSE {}
                /\ UNCHANGED <<displayed, task>>
Install(e) == /\ e \notin present /\ present' = present \cup {e}
              /\ displayed' = [displayed EXCEPT ![e] = Speakers]
              /\ clean' = {}
              /\ UNCHANGED task

CableNamesNext == \/ \E c \in Commands, l \in Labels : Begin(c, l)
                  \/ \E c \in Commands, e \in Endpoints : PlanOne(c, e) \/ RenameEndpoint(c, e) \/ PassOver(c, e)
                  \/ \E c \in Commands : \/ Planned(c) \/ WriteFails(c) \/ Renamed(c)
                                         \/ Report(c) \/ Forget(c)
                  \/ \E e \in Endpoints : Uninstall(e) \/ Install(e)

(***************************************************************************)
(* Whatever the interleaving of the commands and however often a rename    *)
(* breaks off half way, an endpoint shows its factory name or a name some  *)
(* request or the restore had for the bus it backs, never that of another  *)
(* bus (amvc_sync.rs:229).  A command that nothing overlapped and nothing  *)
(* broke leaves every endpoint with the name it asked for, and an apply    *)
(* then says so (amvc_sync.rs:418).                                        *)
(***************************************************************************)
NamesFitTheBus ==
    \A e \in Endpoints : displayed[e] \in {Speakers} \cup {l[SlotOf[e]] : l \in Labels}
LoneCommandAligns ==
    \A c \in clean : task[c].at \in {"aligned", "differs", "restored"} =>
        /\ task[c].at # "differs"
        /\ \A e \in present : displayed[e] = task[c].labels[SlotOf[e]]
=============================================================================
