------------------------------- MODULE Lists -------------------------------
(***************************************************************************)
(* The user's servers and subscriptions: the two lists in memory, the pinned*)
(* server, what the status shows of it, and their three files (commands.rs, *)
(* AppState of state.rs, Store of store.rs).                                *)
(*                                                                          *)
(* A command is a job: a sequence of sections still to run, each of them    *)
(* the stretch of code under one lock, one save of a file, or one exchange  *)
(* with a provider.  Jobs run side by side on the threads of the runtime.   *)
(* A server is its id, its subscription and its `print`, the fingerprint by *)
(* which a refresh recognises it; the rest of a node rides along.           *)
(***************************************************************************)
EXTENDS Naturals, SequencesExt

CONSTANTS
  Jobs,      \* commands and timers in flight
  SubIds,    \* numbers of subscriptions, never given twice
  FreeIds,   \* those a pool of free servers gets
  Ids,       \* numbers for servers, handed out as uuids are: never one in use
  Prints,
  NoId, Own, \* no server; the subscription of the user's own servers
  MaxServed, \* bound: servers a provider lists
  MaxOwn,    \* bound: servers the user has added by hand
  MaxCommands, \* bound: commands in a history
  Starts,    \* lists a history begins with, as the files hold them
  Hitches    \* "none", "overlap" (commands side by side), "crash"

ASSUME ListsAssumption ==
  /\ Jobs # {} /\ Ids \subseteq Nat
  /\ FreeIds \subseteq SubIds /\ Own \notin SubIds /\ NoId \notin Ids
  /\ Hitches \subseteq {"none", "overlap", "crash"} /\ {MaxServed, MaxOwn, MaxCommands} \subseteq Nat
  /\ Starts \subseteq [servers : Seq([id : Ids, sub : SubIds \cup {Own}, print : Prints]),
                       subs : Seq(SubIds), ui : Ids \cup {NoId}]

VARIABLES
  nodes, subs, \* AppState.nodes, .subs
  active,      \* AppState.active_id
  shown,       \* status.active_id
  disk,        \* servers.json, subscriptions.json, ui.json
  jobs,        \* what each job still has to do, and what it does it with
  left,        \* commands left
  hitch        \* what this history may meet with

lists == <<nodes, subs, active>>
bounds == <<left, hitch>>
listsVars == <<lists, shown, disk, jobs, bounds>>

NoJob == [todo |-> <<>>, sub |-> Own, arg |-> <<>>]
Quiet == \A j \in Jobs : jobs[j] = NoJob
IdsOf(list) == {list[i].id : i \in DOMAIN list}

(* The pinned server, or the first one when the pin points at none.         *)
Resolve ==
  IF active \in IdsOf(nodes) THEN active
  ELSE IF nodes = <<>> THEN NoId ELSE Head(nodes).id

InUse == IdsOf(nodes) \cup IdsOf(disk.servers) \cup {active, disk.ui, shown}
NewIds(n) == CHOOSE s \in [1..n -> Ids \ InUse] :
  \A i, k \in 1..n : i < k => s[i] < s[k]

Server(id, sub, print) == [id |-> id, sub |-> sub, print |-> print]

(***************************************************************************)
(* Sections.                                                                *)
(***************************************************************************)
EmitNodes == <<"resolve", "show">>
MergeSections == <<"merge", "saveNodes", "saveSubs">> \o EmitNodes
RefreshSections == <<"lookUp", "fetch">> \o MergeSections
DeleteSectionsMutant == <<"dropSub", "saveSubs", "saveNodes", "dropNodes">> \o EmitNodes
DeleteSections == <<"dropSub", "dropNodes", "saveSubs", "saveNodes">> \o EmitNodes

Now(j, section) == jobs[j].todo # <<>> /\ Head(jobs[j].todo) = section
Goto(j, job) == jobs' = [jobs EXCEPT ![j] = IF job.todo = <<>> THEN NoJob ELSE job]
GoOn(j, todo, arg) == Goto(j, [todo |-> todo, sub |-> jobs[j].sub, arg |-> arg])
AdvanceWith(j, arg) == GoOn(j, Tail(jobs[j].todo), arg)
Advance(j) == AdvanceWith(j, jobs[j].arg)

(* What of a list is wanted, in its order.                                  *)
Only(list, wanted) ==
  FlattenSeq([n \in DOMAIN list |-> IF list[n] \in wanted THEN <<list[n]>> ELSE <<>>])

(* Up to MaxOwn servers pasted at once: a fingerprint that was in the list  *)
(* before is skipped.                                                       *)
Known(print) == \E i \in DOMAIN nodes : nodes[i].print = print

PushNodes(j) ==
  /\ Now(j, "push")
  /\ LET fresh == Only(jobs[j].arg, {p \in Prints : ~Known(p)})
         ids == NewIds(Len(fresh))
     IN nodes' = nodes \o [i \in DOMAIN fresh |-> Server(ids[i], Own, fresh[i])]
  /\ Advance(j) /\ UNCHANGED <<subs, active, shown, disk, bounds>>

(* add_free_pool: a pool that is there is refreshed, none is added twice.   *)
Pools == ToSet(subs) \cap FreeIds
LookFreeMutant(j) ==
  /\ Now(j, "lookFree")
  /\ Advance(j)
  /\ UNCHANGED <<lists, shown, disk, bounds>>
LookFree(j) ==
  /\ Now(j, "lookFree")
  /\ IF Pools = {} THEN Advance(j)
     ELSE \E s \in Pools : Goto(j, [todo |-> RefreshSections, sub |-> s, arg |-> <<>>])
  /\ UNCHANGED <<lists, shown, disk, bounds>>

PushSub(j) ==
  /\ Now(j, "pushSub")
  /\ subs' = Append(subs, jobs[j].sub)
  /\ Advance(j) /\ UNCHANGED <<nodes, active, shown, disk, bounds>>

(* What is left to do when a refresh fails: add_free_pool takes back the    *)
(* pool it could not fill.                                                  *)
Failing(j) ==
  IF "giveBack" \in ToSet(jobs[j].todo)
  THEN <<"saveSubs", "giveBack", "saveSubs">> ELSE <<"saveSubs">>

(* The provider is asked by the url found in the list; what it serves, or   *)
(* nothing, is known an await later.                                        *)
LookUp(j) ==
  /\ Now(j, "lookUp")
  /\ IF jobs[j].sub \in ToSet(subs) THEN Advance(j)
     ELSE GoOn(j, Tail(Failing(j)), <<>>)
  /\ UNCHANGED <<lists, shown, disk, bounds>>

Fetch(j) ==
  /\ Now(j, "fetch")
  /\ \/ \E served \in BoundedSeq(Prints, MaxServed) : GoOn(j, MergeSections, served)
     \/ GoOn(j, Failing(j), <<>>)
  /\ UNCHANGED <<lists, shown, disk, bounds>>

GiveBack(j) ==
  /\ Now(j, "giveBack")
  /\ subs' = Only(subs, SubIds \ {jobs[j].sub})
  /\ Advance(j) /\ UNCHANGED <<nodes, active, shown, disk, bounds>>

(* merge_subscription_nodes: each server that is there claims the first     *)
(* incoming one with its fingerprint, and keeps its id and place; those     *)
(* nobody claimed go to the end.                                            *)
ClaimMutant(sub, acc, node) ==
  IF node.sub # sub THEN [acc EXCEPT !.merged = Append(@, node)]
  ELSE LET hits == {i \in DOMAIN acc.incoming : acc.incoming[i].print = node.print}
       IN IF hits = {} THEN acc
          ELSE [acc EXCEPT !.merged = Append(@, [acc.incoming[Min(hits)] EXCEPT !.id = node.id])]
Claim(sub, acc, node) ==
  IF node.sub # sub THEN [acc EXCEPT !.merged = Append(@, node)]
  ELSE LET hits == {i \in DOMAIN acc.incoming : acc.incoming[i].print = node.print}
       IN IF hits = {} THEN acc
          ELSE [merged |-> Append(acc.merged, [acc.incoming[Min(hits)] EXCEPT !.id = node.id]),
                incoming |-> RemoveAt(acc.incoming, Min(hits))]

MergeSubscriptionNodes(existing, incoming, sub) ==
  LET after[n \in 0..Len(existing)] ==
        IF n = 0 THEN [merged |-> <<>>, incoming |-> incoming]
        ELSE Claim(sub, after[n - 1], existing[n])
      result == after[Len(existing)]
  IN result.merged \o result.incoming

Merge(j) ==
  /\ Now(j, "merge")
  /\ LET served == jobs[j].arg
         ids == NewIds(Len(served))
         incoming == [i \in DOMAIN served |-> Server(ids[i], jobs[j].sub, served[i])]
     IN nodes' = MergeSubscriptionNodes(nodes, incoming, jobs[j].sub)
  /\ Advance(j) /\ UNCHANGED <<subs, active, shown, disk, bounds>>

DropSub(j) ==
  /\ Now(j, "dropSub")
  /\ subs' = Only(subs, SubIds \ {jobs[j].sub})
  /\ Advance(j) /\ UNCHANGED <<nodes, active, shown, disk, bounds>>

DropNodes(j) ==
  /\ Now(j, "dropNodes")
  /\ nodes' = Only(nodes, {n \in ToSet(nodes) : n.sub # jobs[j].sub})
  /\ Advance(j) /\ UNCHANGED <<subs, active, shown, disk, bounds>>

DropNode(j) ==
  /\ Now(j, "dropNode")
  /\ nodes' = Only(nodes, {n \in ToSet(nodes) : n.id # jobs[j].arg[1]})
  /\ Advance(j) /\ UNCHANGED <<subs, active, shown, disk, bounds>>

(* update_server puts what the user edited in the place of the server.      *)
Replace(j) ==
  /\ Now(j, "replace")
  /\ LET id == jobs[j].arg[1] IN
     IF id \in IdsOf(nodes)
     THEN /\ nodes' = [i \in DOMAIN nodes |->
                         IF nodes[i].id = id THEN [nodes[i] EXCEPT !.print = jobs[j].arg[2]]
                         ELSE nodes[i]]
          /\ Advance(j)
     ELSE UNCHANGED nodes /\ Goto(j, NoJob)
  /\ UNCHANGED <<subs, active, shown, disk, bounds>>

(* pin_active: before a reordering the choice is made explicit.             *)
PinnedMutant == active
Pinned == Resolve
PinActive(j) ==
  /\ Now(j, "pin")
  /\ active' = Pinned
  /\ Advance(j) /\ UNCHANGED <<nodes, subs, shown, disk, bounds>>

(* A stable sort by the position of each one's key in `order`; those whose  *)
(* key it does not name come last.                                          *)
SortBy(list, order, key) ==
  FlattenSeq([k \in DOMAIN order |-> Only(list, {x \in ToSet(list) : key[x] = order[k]})])
    \o Only(list, {x \in ToSet(list) : key[x] \notin ToSet(order)})

SortNodes(j) ==
  /\ Now(j, "sort")
  /\ nodes' = SortBy(nodes, jobs[j].arg, [n \in ToSet(nodes) |-> n.id])
  /\ Advance(j) /\ UNCHANGED <<subs, active, shown, disk, bounds>>

SortSubs(j) ==
  /\ Now(j, "sortSubs")
  /\ subs' = SortBy(subs, jobs[j].arg, [s \in ToSet(subs) |-> s])
  /\ AdvanceWith(j, subs')
  /\ UNCHANGED <<nodes, active, shown, disk, bounds>>

(* reflow_nodes_by_subs: servers follow their subscriptions; the user's own *)
(* and those whose subscription is gone come last.                          *)
Reflow(j) ==
  /\ Now(j, "reflow")
  /\ nodes' = SortBy(nodes, jobs[j].arg, [n \in ToSet(nodes) |-> n.sub])
  /\ Advance(j) /\ UNCHANGED <<subs, active, shown, disk, bounds>>

Pick(j) ==
  /\ Now(j, "pick")
  /\ IF jobs[j].arg[1] \in IdsOf(nodes)
     THEN active' = jobs[j].arg[1] /\ Advance(j)
     ELSE UNCHANGED active /\ Goto(j, NoJob)
  /\ UNCHANGED <<nodes, subs, shown, disk, bounds>>

(* emit_nodes reads the lists, then writes the status.                      *)
ResolveShown(j) ==
  /\ Now(j, "resolve")
  /\ AdvanceWith(j, <<Resolve>>)
  /\ UNCHANGED <<lists, shown, disk, bounds>>

Show(j) ==
  /\ Now(j, "show")
  /\ shown' = jobs[j].arg[1]
  /\ Advance(j) /\ UNCHANGED <<lists, disk, bounds>>

(* A save writes what is in memory at that moment, all at once (Store::save *)
(* writes a temporary file and renames it).                                 *)
SaveNodes(j) ==
  /\ Now(j, "saveNodes") /\ disk' = [disk EXCEPT !.servers = nodes]
  /\ Advance(j) /\ UNCHANGED <<lists, shown, bounds>>
SaveSubs(j) ==
  /\ Now(j, "saveSubs") /\ disk' = [disk EXCEPT !.subs = subs]
  /\ Advance(j) /\ UNCHANGED <<lists, shown, bounds>>
SaveUi(j) ==
  /\ Now(j, "saveUi") /\ disk' = [disk EXCEPT !.ui = active]
  /\ Advance(j) /\ UNCHANGED <<lists, shown, bounds>>

(***************************************************************************)
(* Commands.                                                                *)
(***************************************************************************)
Start(j, todo, sub, arg) ==
  /\ jobs[j] = NoJob /\ (hitch # "overlap" => Quiet)
  /\ left > 0 /\ left' = left - 1
  /\ jobs' = [jobs EXCEPT ![j] = [todo |-> todo, sub |-> sub, arg |-> arg]]
  /\ UNCHANGED <<lists, shown, disk, hitch>>

Busy == UNION {ToSet(jobs[j].todo) : j \in Jobs}

AddLinks(j) ==
  \E pasted \in BoundedSeq(Prints, MaxOwn) \ {<<>>} :
    /\ Cardinality({i \in DOMAIN nodes : nodes[i].sub = Own}) + Len(pasted) <= MaxOwn
    /\ "push" \notin Busy
    /\ Start(j, <<"push", "saveNodes">> \o EmitNodes, Own, pasted)

NewSub(s) ==
  s \notin ToSet(subs) \cup ToSet(disk.subs) \cup {jobs[k].sub : k \in Jobs}
             \cup {nodes[i].sub : i \in DOMAIN nodes}

AddSubscription(j) ==
  \E s \in SubIds \ FreeIds :
    NewSub(s) /\ Start(j, <<"pushSub", "saveSubs">> \o RefreshSections, s, <<>>)

AddFreePool(j) ==
  \E s \in FreeIds :
    /\ NewSub(s)
    /\ Start(j, <<"lookFree", "pushSub", "saveSubs">> \o RefreshSections \o <<"giveBack">>,
             s, <<>>)

Refresh(j) ==
  \E s \in ToSet(subs) : Start(j, RefreshSections, s, <<>>)

DeleteSubscription(j) ==
  \E s \in ToSet(subs) : Start(j, DeleteSections, s, <<>>)

DeleteServer(j) ==
  \E id \in IdsOf(nodes) :
    Start(j, <<"dropNode", "saveNodes", "saveUi">> \o EmitNodes, Own, <<id>>)

UpdateServer(j) ==
  \E i \in DOMAIN nodes, print \in Prints :
    /\ print # nodes[i].print
    /\ Start(j, <<"replace", "saveNodes">> \o EmitNodes, Own, <<nodes[i].id, print>>)

ReorderServers(j) ==
  /\ Len(nodes) > 1
  /\ \E i, k \in DOMAIN nodes : \* a line is dragged to another place
       i # k /\ LET seen == [n \in DOMAIN nodes |-> nodes[n].id]
                    order == InsertAt(RemoveAt(seen, i), k, seen[i])
                IN Start(j, <<"pin", "saveUi", "sort", "saveNodes">> \o EmitNodes, Own, order)

ReorderSubscriptions(j) ==
  /\ Len(subs) > 1
  /\ Start(j, <<"pin", "saveUi", "sortSubs", "reflow", "saveSubs", "saveNodes">>
                \o EmitNodes, Own, Reverse(subs))

SetActiveServer(j) ==
  \E id \in IdsOf(nodes) : Start(j, <<"pick", "saveUi", "show">>, Own, <<id>>)

(* The app is killed and started again: memory is what the files say, and   *)
(* get_status shows what that resolves to.                                  *)
Restart ==
  /\ hitch = "crash"
  /\ nodes' = disk.servers /\ subs' = disk.subs /\ active' = disk.ui
  /\ shown' = Resolve'
  /\ jobs' = [j \in Jobs |-> NoJob]
  /\ UNCHANGED <<disk, bounds>>

ListsInit ==
  /\ disk \in Starts
  /\ nodes = disk.servers /\ subs = disk.subs /\ active = disk.ui /\ shown = Resolve
  /\ jobs = [j \in Jobs |-> NoJob] /\ left = MaxCommands /\ hitch \in Hitches

Section(j) ==
  \/ PushNodes(j) \/ LookFree(j) \/ PushSub(j) \/ LookUp(j) \/ Fetch(j) \/ GiveBack(j) \/ Merge(j)
  \/ DropSub(j) \/ DropNodes(j) \/ DropNode(j) \/ Replace(j) \/ PinActive(j) \/ SortNodes(j)
  \/ SortSubs(j) \/ Reflow(j) \/ Pick(j) \/ ResolveShown(j) \/ Show(j)
  \/ SaveNodes(j) \/ SaveSubs(j) \/ SaveUi(j)

Command(j) ==
  \/ AddLinks(j) \/ AddSubscription(j) \/ AddFreePool(j) \/ Refresh(j)
  \/ DeleteSubscription(j) \/ DeleteServer(j) \/ UpdateServer(j) \/ ReorderServers(j)
  \/ ReorderSubscriptions(j) \/ SetActiveServer(j)

ListsNext == Restart \/ \E j \in Jobs : Section(j) \/ Command(j)

ListsSpec == ListsInit /\ [][ListsNext]_listsVars

(***************************************************************************)
(* What must hold.                                                          *)
(***************************************************************************)
(* A refresh is stable: servers that are none of its business keep their    *)
(* order, its own survive with id and order as often as the provider still  *)
(* lists them, and newcomers are behind everybody (the comment on           *)
(* merge_subscription_nodes).                                               *)
Survivors(before, after) == Only(before, {n \in ToSet(before) : n.id \in IdsOf(after)})
RefreshIsStable ==
  [][\A j \in Jobs : Merge(j) =>
       LET kept == Survivors(nodes, nodes')
           Count(list, p) == Len(SelectSeq(list, LAMBDA n : n.sub = jobs[j].sub /\ n.print = p))
       IN /\ IsPrefix(kept, nodes')
          /\ \A i \in DOMAIN nodes : nodes[i].sub # jobs[j].sub => nodes[i] \in ToSet(kept)
          /\ \A p \in Prints :
               LET listed == Len(SelectSeq(jobs[j].arg, LAMBDA q : q = p))
               IN /\ Count(nodes', p) = listed
                  /\ Count(kept, p) = Min({listed, Count(nodes, p)})]_listsVars

(* A new order of the lines is no reason to connect to another server       *)
(* (pin_active); when the list changes between the pin and the sort, as long*)
(* as the pinned server is in it.                                           *)
OrderChoosesNothing ==
  [][\A j \in Jobs : Now(j, "sort") \/ Now(j, "reflow") =>
       (jobs'[j] # jobs[j] /\ (hitch = "overlap" => active \in IdsOf(nodes))
          => Resolve' = Resolve)]_listsVars

(* At rest the files say what memory says, however commands overlapped.     *)
DiskCatchesUp ==
  Quiet => disk = [servers |-> nodes, subs |-> subs, ui |-> active]

(* Commands one after the other leave nobody behind: each server is the    *)
(* user's own or of a subscription there is, there is one pool at most, and *)
(* the status shows the server a connect would choose.  Commands side by    *)
(* side, and a kill between two saves, may break each of the three.         *)
NoStrays ==
  hitch = "none" /\ Quiet =>
    /\ \A i \in DOMAIN nodes : nodes[i].sub \in ToSet(subs) \cup {Own}
    /\ Cardinality(Pools) <= 1
    /\ shown = Resolve
=============================================================================
