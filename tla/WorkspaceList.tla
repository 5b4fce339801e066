---------------------------- MODULE WorkspaceList ----------------------------
(***************************************************************************)
(* The list of workspaces a client shows, beside the one the backend       *)
(* stores.  Every operation is a request: the list is changed when its     *)
(* answer comes, some change it at once and take it back on failure, and   *)
(* answers come in any order.  The list is asked for as a whole at the     *)
(* start, on focus, and every fifteen seconds of a remote backend.         *)
(*                                                                         *)
(* A workspace stands for its path; its settings are a group and a field   *)
(* `other' that stands for all others.  A branch name is a number.         *)
(***************************************************************************)
EXTENDS Naturals, FiniteSets, SequencesExt

CONSTANTS
  Workspace, Parent,  \* Parent[w]: the workspace a worktree belongs to, or None
  Group,              \* the workspace groups there may be
  None,
  Known,              \* what the backend stores at the start, in its order
  Calls,              \* bound: numbers of the requests under way at once
  Plans               \* what the user does in a behaviour: a set of records

VARIABLES
  rows, active,  \* workspaces and activeWorkspaceId
  ref,           \* workspaceSettingsRef
  groups,        \* appSettings.workspaceGroups, as last answered
  deleting,      \* deletingWorktreeIds
  loaded,        \* hasLoaded
  cycle,         \* refreshInFlight: the call of the refresh cycle, or None
  restoring,     \* useWorkspaceRestore: who was seen, and who is still to be connected
  adding,        \* addWorkspacesFromPaths: the paths left, those known, how many were added
  calls,         \* requests under way
  saves,         \* queueSaveSettings: group lists to be saved, in order
  stored,        \* the backend: its workspaces and groups
  left           \* what the user may still do

vars == <<rows, active, ref, groups, deleting, loaded, cycle, restoring, adding, calls, saves, stored, left>>
screen == <<rows, active, ref, groups, deleting, loaded>>

Idle == [op |-> "none"]
NoSettings == [group |-> None, other |-> 0]
Fresh(w) == [id |-> w, name |-> 0, set |-> NoSettings, up |-> FALSE]

Ids(list) == {list[i].id : i \in DOMAIN list}
RowOf(list, w) == SelectSeq(list, LAMBDA e : e.id = w)[1]
Mapped(list, w, F(_)) == [i \in DOMAIN list |-> IF list[i].id = w THEN F(list[i]) ELSE list[i]]
Without(list, gone) == SelectSeq(list, LAMBDA e : e.id \notin gone)
Children(w) == {c \in Workspace : Parent[c] = w}

\* The effect of useWorkspaces: settings as shown replace those of the ref.
SettingsOf(list) ==
  [w \in Ids(list) |-> SelectLastInSeq(list, LAMBDA e : e.id = w)]
RefOf(list) == [w \in Ids(list) |-> list[SettingsOf(list)[w]].set]
Show(list) == rows' = list /\ ref' = RefOf(list)

(***************************************************************************)
(* Requests.                                                               *)
(***************************************************************************)
Call(op, w, arg, old) == [op |-> op, of |-> w, arg |-> arg, old |-> old, out |-> None, is |-> "sent"]
Free == {n \in Calls : calls[n] = Idle}
Next1 == CHOOSE n \in Free : \A m \in Free : n <= m
Send(c) == Free # {} /\ calls' = [calls EXCEPT ![Next1] = c]
Done(n) == [calls EXCEPT ![n] = Idle]
Spend(what) == left[what] > 0 /\ left' = [left EXCEPT ![what] = @ - 1]

\* The refresh cycle of a focus or of the remote interval; one at a time.
Poll ==
  /\ cycle = None /\ Free # {}
  /\ cycle' = Next1
  /\ Send(Call("list", None, None, None))
  /\ UNCHANGED <<screen, restoring, adding, stored, left, saves>>

\* Adding a folder, a clone of a git url, a worktree of a parent, or a copy.
Add(w) ==
  /\ Spend("adds")
  /\ w \notin Ids(rows) /\ w \notin Ids(stored.rows)
  /\ Parent[w] = None \/ Parent[w] \in Ids(rows)
  /\ Send(Call("add", w, TRUE, None))
  /\ UNCHANGED <<screen, cycle, restoring, adding, stored, saves>>

\* addWorkspacesFromPaths starts: what exists is what was on screen.
AddMany(list) ==
  /\ Spend("adds") /\ adding = None
  /\ adding' = [paths |-> list, existing |-> Ids(rows), added |-> 0, asked |-> FALSE]
  /\ UNCHANGED <<screen, cycle, restoring, calls, stored, saves>>

\* It skips what exists and adds the rest one after the other.
AddNext ==
  /\ adding # None /\ ~adding.asked
  /\ LET rest == SelectSeq(adding.paths, LAMBDA w : w \notin adding.existing) IN
     IF rest = <<>> THEN adding' = None /\ UNCHANGED calls
     ELSE /\ Send(Call("addMany", rest[1], adding.added = 0, None))
          /\ adding' = [adding EXCEPT !.paths = rest, !.asked = TRUE]
  /\ UNCHANGED <<screen, cycle, restoring, stored, left, saves>>

\* useWorkspaceRestore, an effect: connect, one after the other, what it has not seen.
Restore ==
  /\ loaded /\ Ids(rows) \ restoring.seen # {}
  /\ restoring' = [seen |-> restoring.seen \cup Ids(rows),
                   todo |-> restoring.todo \cup (Ids(rows) \ restoring.seen)]
  /\ UNCHANGED <<screen, cycle, adding, calls, stored, left, saves>>
Reconnect ==
  \E w \in restoring.todo :
    /\ restoring' = [restoring EXCEPT !.todo = @ \ {w}]
    /\ IF w \in Ids(rows) /\ RowOf(rows, w).up THEN UNCHANGED calls
       ELSE Send(Call("connect", w, None, None))
    /\ UNCHANGED <<screen, cycle, adding, stored, left, saves>>

\* Settings are shown at once; the request carries them all.
Patch(w, set) ==
  /\ Show(Mapped(rows, w, LAMBDA e : [e EXCEPT !.set = set]))
  /\ Send(Call("settings", w, set, ref[w]))
UpdateSettings(w) ==
  /\ Spend("sets") /\ w \in Ids(rows)
  /\ Patch(w, [ref[w] EXCEPT !.other = 1 - @])
  /\ UNCHANGED <<active, groups, deleting, loaded, cycle, restoring, adding, stored, saves>>
AssignGroup(w) ==
  /\ Spend("sets") /\ w \in Ids(rows) /\ Parent[w] = None
  /\ \E g \in groups \cup {None} : g # ref[w].group /\ Patch(w, [ref[w] EXCEPT !.group = g])
  /\ UNCHANGED <<active, groups, deleting, loaded, cycle, restoring, adding, stored, saves>>

CreateGroup(g) ==
  /\ Spend("groups") /\ g \notin groups
  /\ saves' = Append(saves, groups \cup {g})
  /\ UNCHANGED <<screen, cycle, restoring, adding, calls, stored>>
\* The members are sent away and the group is taken from the list, all at once.
DeleteGroup(g) ==
  /\ Spend("groups") /\ g \in groups
  /\ saves' = Append(saves, groups \ {g})
  /\ LET members == {w \in Ids(rows) : RowOf(rows, w).set.group = g}
         freed == [w \in members |-> [ref[w] EXCEPT !.group = None]]
         order == SetToSeq(members)
         slots == SetToSortSeq(Free, <)
     IN /\ Len(slots) >= Len(order)
        /\ calls' = [n \in Calls |->
             IF \E i \in DOMAIN order : slots[i] = n
             THEN LET w == order[CHOOSE i \in DOMAIN order : slots[i] = n]
                  IN Call("settings", w, freed[w], ref[w])
             ELSE calls[n]]
        /\ Show([i \in DOMAIN rows |-> IF rows[i].id \in members
                   THEN [rows[i] EXCEPT !.set = freed[rows[i].id]] ELSE rows[i]])
  /\ UNCHANGED <<active, groups, deleting, loaded, cycle, restoring, adding, stored>>
\* The settings are saved one after the other; the answer is what is shown.
SaveGroups ==
  /\ saves # <<>> /\ saves' = Tail(saves)
  /\ \/ stored' = [stored EXCEPT !.groups = Head(saves)] /\ groups' = Head(saves) /\ UNCHANGED left
     \/ Spend("fails") /\ UNCHANGED <<stored, groups>>
  /\ UNCHANGED <<rows, active, ref, deleting, loaded, cycle, restoring, adding, calls>>

\* The call keeps which worktrees of the workspace were on screen.
RemoveWorkspace(w) ==
  /\ Spend("removes") /\ w \in Ids(rows) /\ Parent[w] = None
  /\ Send(Call("remove", w, Children(w) \cap Ids(rows), None))
  /\ UNCHANGED <<screen, cycle, restoring, adding, stored, saves>>
RemoveWorktree(w) ==
  /\ Spend("removes") /\ w \in Ids(rows) /\ Parent[w] # None
  /\ deleting' = deleting \cup {w}
  /\ Send(Call("removeWorktree", w, None, None))
  /\ UNCHANGED <<rows, active, ref, groups, loaded, cycle, restoring, adding, stored, saves>>
\* The name is shown at once; the whole entry is kept for a failure.
RenameWorktree(w) ==
  /\ Spend("renames") /\ w \in Ids(rows) /\ Parent[w] # None
  /\ Show(Mapped(rows, w, LAMBDA e : [e EXCEPT !.name = @ + 1]))
  /\ Send(Call("rename", w, RowOf(rows, w).name + 1, RowOf(rows, w)))
  /\ UNCHANGED <<active, groups, deleting, loaded, cycle, restoring, adding, stored, saves>>

Select(w) ==
  /\ Spend("selects") /\ active' = w
  /\ w \in Ids(rows) \cup {None}
  /\ UNCHANGED <<rows, ref, groups, deleting, loaded, cycle, restoring, adding, calls, stored, saves>>

(***************************************************************************)
(* The backend, whose own interleavings SessionPool has.                   *)
(***************************************************************************)
Answered(n, out) == calls' = [calls EXCEPT ![n].out = out, ![n].is = "ok"]
Serve(n) ==
  LET c == calls[n]
      has == c.of \in Ids(stored.rows)
      Row(list) == RowOf(list, c.of)
      Store(list) == stored' = [stored EXCEPT !.rows = list]
      Change(F(_)) == Store(Mapped(stored.rows, c.of, F))
                      /\ Answered(n, RowOf(Mapped(stored.rows, c.of, F), c.of))
  IN
  /\ c # Idle /\ c.is = "sent"
  /\ \/ c.op = "list" /\ Answered(n, stored.rows) /\ UNCHANGED stored
     \/ /\ c.op \in {"add", "addMany"} /\ ~has /\ (Parent[c.of] # None => Parent[c.of] \in Ids(stored.rows))
        /\ Store(Append(stored.rows, [Fresh(c.of) EXCEPT !.up = TRUE]))
        /\ Answered(n, [Fresh(c.of) EXCEPT !.up = TRUE])
     \/ c.op = "connect" /\ has /\ Change(LAMBDA e : [e EXCEPT !.up = TRUE])
     \/ c.op = "settings" /\ has /\ Change(LAMBDA e : [e EXCEPT !.set = c.arg])
     \/ c.op = "rename" /\ has /\ Change(LAMBDA e : [e EXCEPT !.name = c.arg])
     \/ c.op \in {"remove", "removeWorktree"} /\ has
        /\ Store(Without(stored.rows, {c.of} \cup Children(c.of))) /\ Answered(n, None)
  /\ UNCHANGED <<screen, cycle, restoring, adding, left, saves>>

Refuse(n) ==
  LET c == calls[n] IN
  /\ c # Idle /\ c.is = "sent"
  /\ \/ /\ c.op \notin {"list", "add", "addMany"} /\ c.of \notin Ids(stored.rows)
        /\ UNCHANGED left
     \/ /\ c.op \in {"add", "addMany"}
        /\ c.of \in Ids(stored.rows) \/ (Parent[c.of] # None /\ Parent[c.of] \notin Ids(stored.rows))
        /\ UNCHANGED left
     \/ Spend("fails")
  /\ calls' = [calls EXCEPT ![n].is = "failed"]
  /\ UNCHANGED <<screen, cycle, restoring, adding, stored, saves>>

(***************************************************************************)
(* The answers.                                                            *)
(***************************************************************************)
Ok(n, op) == calls[n].op = op /\ calls[n].is = "ok" /\ calls' = Done(n)
Shown(n) == calls[n].of

\* Mutant: what is on screen and was not listed stays.
ListedMerges(list) == list \o SelectSeq(rows, LAMBDA e : e.id \notin Ids(list))
Listed(list) == list
OnList(n) ==
  /\ Ok(n, "list")
  /\ Show(Listed(calls[n].out))
  /\ active' = IF active \in Ids(calls[n].out) THEN active ELSE None
  /\ loaded' = TRUE
  /\ cycle' = IF cycle = n THEN None ELSE cycle
  /\ UNCHANGED <<groups, deleting, restoring, adding, saves, stored, left>>

\* The row is appended, whatever the list holds by now.
OnAdd(n) ==
  /\ Ok(n, "add")
  /\ Show(Append(rows, calls[n].out)) /\ active' = Shown(n)
  /\ UNCHANGED <<groups, deleting, loaded, cycle, restoring, adding, saves, stored, left>>
OnAddMany(n) ==
  /\ Ok(n, "addMany")
  /\ Show(Append(rows, calls[n].out))
  /\ active' = IF calls[n].arg THEN Shown(n) ELSE active
  /\ adding' = [paths |-> Tail(adding.paths), existing |-> adding.existing \cup {Shown(n)},
                added |-> adding.added + 1, asked |-> FALSE]
  /\ UNCHANGED <<groups, deleting, loaded, cycle, restoring, saves, stored, left>>

OnConnect(n) ==
  /\ Ok(n, "connect")
  /\ Show(Mapped(rows, Shown(n), LAMBDA e : [e EXCEPT !.up = TRUE]))
  /\ UNCHANGED <<active, groups, deleting, loaded, cycle, restoring, adding, saves, stored, left>>
\* markWorkspaceConnected, on the event of the app-server.
MarkConnected(w) ==
  /\ w \in Ids(stored.rows) /\ RowOf(stored.rows, w).up
  /\ w \in Ids(rows) /\ ~RowOf(rows, w).up
  /\ Show(Mapped(rows, w, LAMBDA e : [e EXCEPT !.up = TRUE]))
  /\ UNCHANGED <<active, groups, deleting, loaded, cycle, restoring, adding, calls, saves, stored, left>>

\* The answer of a settings write or of a rename is the whole entry.
OnUpdated(n) ==
  /\ \E op \in {"settings", "rename"} : Ok(n, op)
  /\ Show(Mapped(rows, Shown(n), LAMBDA e : calls[n].out))
  /\ UNCHANGED <<active, groups, deleting, loaded, cycle, restoring, adding, saves, stored, left>>

OnRemove(n) ==
  /\ Ok(n, "remove")
  /\ Show(Without(rows, {Shown(n)} \cup Children(Shown(n))))
  /\ active' = IF active \in {Shown(n)} \cup calls[n].arg THEN None ELSE active
  /\ UNCHANGED <<groups, deleting, loaded, cycle, restoring, adding, saves, stored, left>>
OnRemoveWorktree(n) ==
  /\ Ok(n, "removeWorktree")
  /\ Show(Without(rows, {Shown(n)}))
  /\ active' = IF active = Shown(n) THEN None ELSE active
  /\ deleting' = deleting \ {Shown(n)}
  /\ UNCHANGED <<groups, loaded, cycle, restoring, adding, saves, stored, left>>

\* Failures: a list leaves things be, an optimistic change is taken back.
OnFailure(n) ==
  LET c == calls[n] IN
  /\ c # Idle /\ c.is = "failed" /\ calls' = Done(n)
  /\ loaded' = (loaded \/ c.op = "list")
  /\ cycle' = IF cycle = n THEN None ELSE cycle
  /\ deleting' = IF c.op = "removeWorktree" THEN deleting \ {c.of} ELSE deleting
  /\ adding' = IF c.op = "addMany" THEN [adding EXCEPT !.paths = Tail(@), !.asked = FALSE] ELSE adding
  /\ CASE c.op = "settings" -> Show(Mapped(rows, c.of, LAMBDA e : [e EXCEPT !.set = c.old]))
       [] c.op = "rename" -> Show(Mapped(rows, c.of, LAMBDA e : c.old))
       [] OTHER -> UNCHANGED <<rows, ref>>
  /\ UNCHANGED <<active, groups, restoring, saves, stored, left>>

----------------------------------------------------------------------------
Init ==
  /\ rows = <<>> /\ active = None /\ ref = <<>> /\ groups = {} /\ deleting = {} /\ loaded = FALSE
  /\ cycle = None /\ adding = None /\ saves = <<>>
  /\ restoring = [seen |-> {}, todo |-> {}]
  /\ calls = [n \in Calls |-> IF n = 1 THEN Call("list", None, None, None) ELSE Idle]
  /\ stored = [rows |-> [i \in DOMAIN Known |-> Fresh(Known[i])], groups |-> {}]
  /\ left \in Plans

User ==
  \/ \E w \in Workspace :
       Add(w) \/ UpdateSettings(w) \/ AssignGroup(w) \/ RemoveWorkspace(w) \/ RemoveWorktree(w)
       \/ RenameWorktree(w) \/ Select(w)
  \/ \E g \in Group : CreateGroup(g) \/ DeleteGroup(g)
  \/ AddMany(SetToSeq({w \in Workspace : Parent[w] = None}))

Own == AddNext \/ Restore \/ Reconnect \/ SaveGroups
Handle(n) ==
  OnList(n) \/ OnAdd(n) \/ OnAddMany(n) \/ OnConnect(n) \/ OnUpdated(n) \/ OnRemove(n)
  \/ OnRemoveWorktree(n) \/ OnFailure(n)

Next ==
  \/ User \/ Poll \/ Own
  \/ \E w \in Workspace : MarkConnected(w)
  \/ \E n \in Calls : Serve(n) \/ Refuse(n) \/ Handle(n)

Served(n) == Serve(n) \/ Refuse(n)
Fairness ==
  /\ WF_vars(Poll) /\ WF_vars(Own)
  /\ \A n \in Calls : WF_vars(Served(n)) /\ WF_vars(Handle(n))
Spec == Init /\ [][Next]_vars /\ Fairness

----------------------------------------------------------------------------
\* In the end what is shown is what is stored, in its order and once each, the
\* workspace at hand is one of them or none, no removal is shown as under way
\* and the groups are those saved: whatever order the answers of adding,
\* removing, renaming and settings come in, and whatever an older list brought
\* back (useWorkspaceCrud.refreshWorkspaces).
Settled ==
  /\ rows = stored.rows /\ active \in Ids(rows) \cup {None} /\ deleting = {}
  /\ groups = stored.groups /\ ref = RefOf(rows)
=============================================================================
