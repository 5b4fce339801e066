------------------------------ MODULE RemoteServers ------------------------------
(***************************************************************************)
(* The servers a phone knows: the list in the settings, one of them in     *)
(* use, and the wizard that asks for one while none is reached.  Whatever  *)
(* changes the list saves all settings, built from those shown when it was *)
(* pressed or, in a handler that saves more than once, from its own; saves *)
(* are done one after the other.  Each change of the settings is followed  *)
(* by a check of the server in use.  What is typed is chosen here when it  *)
(* is sent (see SettingsForms for the drafts).                             *)
(***************************************************************************)
EXTENDS Naturals, Sequences, SequencesExt, FiniteSets

CONSTANTS
  Name, Host,
  Known,   \* the servers at the start, a sequence; numbered from 1
  None,
  Budgets  \* bound: what may happen in a behaviour, a set of records

VARIABLES
  settings, \* appSettings: the list, the one in use, and its host and token
  stored,   \* what the app has stored: the server it talks to
  queue,    \* saves: the first is at the app
  jobs,     \* handlers under way, and checks: see NewJob
  ui,       \* what is ready and busy: see Init
  log,      \* history: see Init
  left

vars == <<settings, stored, queue, jobs, ui, log, left>>

Spend(what) == left[what] > 0 /\ left' = [left EXCEPT ![what] = @ - 1]
MaySpend(ok) == IF ok THEN left' = left ELSE Spend("fails")

(***************************************************************************)
(* The list in the settings.                                               *)
(***************************************************************************)
Ids(s) == {e.id : e \in ToSet(s.list)}
PlaceOf(s, id) == CHOOSE n \in DOMAIN s.list : s.list[n].id = id
ActivePlace(s) == IF s.active \in Ids(s) THEN PlaceOf(s, s.active) ELSE 1
buildSettings(s, list, preferred) ==
  LET there == {e.id : e \in ToSet(list)}
      id == IF preferred \in there THEN preferred ELSE IF s.active \in there THEN s.active ELSE list[1].id
      e == CHOOSE x \in ToSet(list) : x.id = id IN
  [list |-> list, active |-> id, host |-> e.host, token |-> e.token]
\* Every save: the host and token in use are those of the server in use.
normalizeRemoteBackends(s) ==
  LET n == ActivePlace(s) IN
  [s EXCEPT !.active = s.list[n].id, !.list[n].host = s.host, !.list[n].token = s.token]
updateActive(s, change) ==
  LET n == ActivePlace(s) IN
  buildSettings(s, [s.list EXCEPT ![n] = [f \in DOMAIN @ |-> IF f \in DOMAIN change THEN change[f] ELSE @[f]]],
                s.list[n].id)
Taken(s, name) == \E e \in ToSet(s.list) : e.name = name
isRemoteServerConfigured(s) == s.token # None

(***************************************************************************)
(* Saves, and what follows a change of the settings or the end of the      *)
(* wizard's own attempt: a check, unless there is nothing to check.  An    *)
(* earlier check goes on, though it is no longer waited for.               *)
(***************************************************************************)
NewJob(kind) == [n |-> log.jobs + 1, kind |-> kind, phase |-> "first", got |-> None,
                 prev |-> None, next |-> None, id |-> 0, of |-> None]
Save(n, base, next, more) ==
  [job |-> n, base |-> base, next |-> normalizeRemoteBackends(next), at |-> "waiting",
   drops |-> more.drops, picks |-> more.picks]
Plain == [drops |-> {}, picks |-> None]
Follows(s, u, others, lg) ==
  IF u.busy THEN ui' = u /\ jobs' = others /\ log' = lg
  ELSE IF ~isRemoteServerConfigured(s) THEN
    ui' = [u EXCEPT !.ready = FALSE, !.checking = None] /\ jobs' = others /\ log' = [lg EXCEPT !.check = 0]
  ELSE /\ ui' = [u EXCEPT !.checking = lg.jobs + 1]
       /\ jobs' = others \cup {[NewJob("check") EXCEPT !.n = lg.jobs + 1, !.phase = "list"]}
       /\ log' = [lg EXCEPT !.jobs = @ + 1, !.check = lg.jobs + 1]

Got(n, got) == {IF j.n = n THEN [j EXCEPT !.got = got] ELSE j : j \in jobs}
Served ==
  /\ queue # <<>> /\ Head(queue).at = "waiting"
  /\ stored' = Head(queue).next /\ queue' = [queue EXCEPT ![1].at = "stored"]
  /\ UNCHANGED <<settings, jobs, ui, log, left>>
SaveFails ==
  /\ queue # <<>> /\ Head(queue).at = "waiting" /\ Spend("fails")
  /\ queue' = Tail(queue) /\ jobs' = Got(Head(queue).job, "error")
  /\ UNCHANGED <<settings, stored, ui, log>>
\* A save undoes what others saved since its settings were read.
Differ(s, t) == (Ids(s) \ Ids(t)) \cup (Ids(t) \ Ids(s))
Saved ==
  LET save == Head(queue) IN
  /\ queue # <<>> /\ save.at = "stored"
  /\ settings' = save.next /\ queue' = Tail(queue)
  /\ Follows(save.next, ui, Got(save.job, "ok"),
             [log EXCEPT !.crossed = @ \cup Differ(settings, save.base),
                         !.moved = @ \/ settings.active # save.base.active,
                         !.deleted = @ \cup save.drops,
                         !.choice = IF save.picks # None THEN save.picks ELSE @])
  /\ UNCHANGED <<stored, left>>

(***************************************************************************)
(* The list of the settings panel.  What changes nothing is not saved.     *)
(***************************************************************************)
Changes(what, next, more) ==
  /\ Spend(what) /\ next # settings /\ queue' = Append(queue, Save(0, settings, next, more))
  /\ UNCHANGED <<settings, stored, jobs, ui>>
Given(id, host) == [log EXCEPT !.given = @ \cup {<<id, host>>}]
handleSelectRemoteBackend(id) ==
  id # settings.active /\ Changes("lists", buildSettings(settings, settings.list, id), [Plain EXCEPT !.picks = id]) /\ UNCHANGED log
Swapped(list, a, b) == [list EXCEPT ![a] = list[b], ![b] = list[a]]
handleMoveRemoteBackend(id, up) ==
  LET n == PlaceOf(settings, id)
      m == IF up THEN n - 1 ELSE n + 1 IN
  /\ m \in DOMAIN settings.list
  /\ Changes("lists", buildSettings(settings, Swapped(settings.list, n, m), None), Plain)
  /\ UNCHANGED log
Lesser(a, b) == IF a < b THEN a ELSE b
NextActive(id) ==
  LET n == PlaceOf(settings, id)
      remaining == RemoveAt(settings.list, n) IN
  IF settings.active = id THEN remaining[Lesser(n, Len(remaining))].id ELSE settings.active
handleDeleteRemoteBackend(id) ==
  /\ Len(settings.list) > 1
  /\ Changes("lists", buildSettings(settings, RemoveAt(settings.list, PlaceOf(settings, id)), NextActive(id)),
             [drops |-> {id}, picks |-> IF settings.active = id THEN NextActive(id) ELSE None])
  /\ UNCHANGED log
\* The fields edit the server in use.
handleCommitRemoteName(name) ==
  ~Taken(settings, name) /\ Changes("edits", updateActive(settings, [name |-> name]), Plain) /\ UNCHANGED log
handleCommitRemoteHost(host) ==
  Changes("edits", updateActive(settings, [host |-> host]), Plain) /\ log' = Given(settings.active, host)
handleCommitRemoteToken(token) ==
  Changes("edits", updateActive(settings, [token |-> token]), Plain) /\ UNCHANGED log

(***************************************************************************)
(* The handlers that save, reach the server, and save again.               *)
(***************************************************************************)
Begins(what, j, next, u) ==
  /\ Spend(what) /\ jobs' = jobs \cup {j} /\ queue' = Append(queue, Save(j.n, settings, next, Plain))
  /\ ui' = u /\ log' = [Given(IF j.kind = "add" THEN j.id ELSE settings.active, next.host) EXCEPT !.jobs = @ + 1]
  /\ UNCHANGED <<settings, stored>>
handleAddRemoteBackend(name, host, token) ==
  LET id == 1 + Cardinality({g[1] : g \in log.given})
      next == buildSettings(settings, Append(settings.list, [id |-> id, name |-> name, host |-> host, token |-> token]), id) IN
  /\ ~Taken(settings, name)
  /\ Begins("adds", [NewJob("add") EXCEPT !.prev = settings, !.next = next, !.id = id], next,
            [ui EXCEPT !.adding = TRUE])
handleAddRemoteConfirm(name, host, token) == ~ui.adding /\ handleAddRemoteBackend(name, host, token)
handleMobileConnectTest(host, token) ==
  LET next == updateActive(settings, [host |-> host, token |-> token]) IN
  /\ ~ui.testing
  /\ IF next # settings THEN Begins("tests", NewJob("test"), next, [ui EXCEPT !.testing = TRUE])
     ELSE /\ Spend("tests") /\ jobs' = jobs \cup {[NewJob("test") EXCEPT !.phase = "list"]}
          /\ ui' = [ui EXCEPT !.testing = TRUE] /\ log' = [log EXCEPT !.jobs = @ + 1]
          /\ UNCHANGED <<settings, stored, queue>>
\* The wizard.
showMobileSetupWizard == ~ui.ready /\ ~ui.dismissed
WizardAccepts == showMobileSetupWizard /\ ~ui.busy /\ ui.checking = None
onConnectTest(host, token) ==
  LET next == [settings EXCEPT !.host = host, !.token = token] IN
  /\ WizardAccepts
  /\ Begins("setups", [NewJob("setup") EXCEPT !.next = normalizeRemoteBackends(next)], next,
            [ui EXCEPT !.busy = TRUE])
onClose ==
  /\ showMobileSetupWizard /\ Spend("closes") /\ ui' = [ui EXCEPT !.dismissed = TRUE]
  /\ UNCHANGED <<settings, stored, queue, jobs, log>>

\* listWorkspaces, of the server the app talks to now.
Lists(j, ok) ==
  /\ j.phase = "list" /\ j.got = None /\ MaySpend(ok)
  /\ jobs' = (jobs \ {j}) \cup {[j EXCEPT !.got = IF ok THEN "ok" ELSE "error", !.of = stored.host]}
  /\ log' = [log EXCEPT !.reached = IF ok THEN @ \cup {stored.host} ELSE @]
  /\ UNCHANGED <<settings, stored, queue, ui>>

\* How a handler goes on, saving or not, and how it ends; at once when it has
\* its answer, but for a check, which first reads the list of workspaces.
Due(j) == j.got # None /\ j.kind # "check" /\ ~(j.kind = "setup" /\ j.phase = "list")
Becomes(j, phase) == (jobs \ {j}) \cup {[j EXCEPT !.phase = phase, !.got = None]}
Asks(j) == jobs' = Becomes(j, "list") /\ UNCHANGED <<queue, ui, log>>
Saves(j, phase, base, next, more) ==
  /\ jobs' = Becomes(j, phase) /\ queue' = Append(queue, Save(j.n, base, next, more)) /\ UNCHANGED <<ui, log>>
Ends(j, u, lg) == jobs' = jobs \ {j} /\ ui' = u /\ log' = lg /\ UNCHANGED queue
Reached(u) == [u EXCEPT !.ready = TRUE, !.dismissed = FALSE]
Astray(j) == j.of # settings.host
At(j, kind, phase, got) == j.kind = kind /\ j.phase = phase /\ j.got = got

\* A server that is not reached, or not saved as reached, is taken out again.
AddGoes(j) ==
  LET done == [ui EXCEPT !.adding = FALSE]
      refused == [log EXCEPT !.refused = @ \cup {j.id}] IN
  \/ At(j, "add", "first", "error") /\ Ends(j, done, refused)
  \/ At(j, "add", "first", "ok") /\ Asks(j)
  \/ At(j, "add", "list", "ok") /\ Saves(j, "second", j.next, j.next, [Plain EXCEPT !.picks = j.id])
  \/ /\ \/ At(j, "add", "list", "error") \/ At(j, "add", "second", "error")
     /\ Saves(j, "back", j.next, j.prev, Plain)
  \/ /\ At(j, "add", "second", "ok")
     /\ Ends(j, Reached(done), [log EXCEPT !.added = @ \cup {j.id}, !.astray = Astray(j)])
  \/ At(j, "add", "back", "ok") /\ Ends(j, done, refused)
  \/ At(j, "add", "back", "error") /\ Ends(j, done, [refused EXCEPT !.stuck = @ \cup {j.id}])
TestGoes(j) ==
  LET done == [ui EXCEPT !.testing = FALSE] IN
  \/ At(j, "test", "first", "error") /\ Ends(j, done, log)
  \/ At(j, "test", "first", "ok") /\ Asks(j)
  \/ At(j, "test", "list", "ok") /\ Saves(j, "second", settings, settings, Plain)
  \/ At(j, "test", "list", "error") /\ Ends(j, done, log)
  \/ /\ \E got \in {"ok", "error"} : At(j, "test", "second", got)
     /\ Ends(j, Reached(done), [log EXCEPT !.astray = Astray(j)])
SetupGoes(j) ==
  LET fails == [ui EXCEPT !.ready = FALSE, !.busy = FALSE] IN
  \/ At(j, "setup", "first", "ok") /\ Asks(j)
  \/ /\ At(j, "setup", "list", "ok") /\ jobs' = Becomes(j, "second")
     /\ queue' = Append(queue, Save(j.n, j.next, j.next, Plain))
     /\ ui' = [ui EXCEPT !.ready = TRUE] /\ log' = [log EXCEPT !.astray = Astray(j)]
  \/ /\ At(j, "setup", "first", "error") \/ At(j, "setup", "list", "error") \/ At(j, "setup", "second", "error")
     /\ Follows(settings, fails, jobs \ {j}, log) /\ UNCHANGED queue
  \/ /\ At(j, "setup", "second", "ok")
     /\ Follows(settings, [ui EXCEPT !.busy = FALSE], jobs \ {j}, log) /\ UNCHANGED queue
runConnectivityCheck(j) ==
  /\ j.kind = "check" /\ j.got # None
  /\ Ends(j, [ui EXCEPT !.ready = j.got = "ok", !.checking = IF @ = j.n THEN None ELSE @],
          [log EXCEPT !.astray = Astray(j)])
Goes(j) ==
  (AddGoes(j) \/ TestGoes(j) \/ SetupGoes(j) \/ runConnectivityCheck(j)) /\ UNCHANGED <<settings, stored, left>>

----------------------------------------------------------------------------
Init ==
  LET s == buildSettings([active |-> 1], Known, 1) IN
  /\ settings = s /\ stored = s /\ queue = <<>>
  /\ jobs = IF isRemoteServerConfigured(s)
            THEN {[n |-> 1, kind |-> "check", phase |-> "list", got |-> None, prev |-> None, next |-> None, id |-> 0, of |-> None]}
            ELSE {}
  /\ ui = [ready |-> FALSE,     \* mobileServerReady
           dismissed |-> FALSE, \* setupWizardDismissed
           checking |-> IF jobs = {} THEN None ELSE 1, \* the check that is waited for
           busy |-> FALSE,      \* the wizard's own attempt
           adding |-> FALSE, testing |-> FALSE]
  /\ log = [jobs |-> 1,       \* how many handlers and checks there were
            check |-> 1,      \* the last check, until it is given up
            given |-> {<<e.id, e.host>> : e \in ToSet(Known)}, \* the hosts that were given for each server
            added |-> Ids(s), \* as the user was told, and deleted, and not added after all
            deleted |-> {}, refused |-> {},
            stuck |-> {},     \* that could not be taken out again
            crossed |-> {},   \* that came or went between the reading and the writing of the settings
            choice |-> 1,     \* the server chosen to be in use
            moved |-> FALSE,  \* whether another came to be in use in between
            reached |-> {},   \* the hosts that answered
            astray |-> FALSE] \* whether the last answer was of another host than the one in use
  /\ left \in Budgets

Tokens == {None, "token"}
Next ==
  \/ \E j \in jobs : Goes(j)
  \/ /\ \A j \in jobs : ~Due(j)
     /\ \/ Served \/ SaveFails \/ Saved \/ onClose
        \/ \E id \in Ids(settings) : \/ handleSelectRemoteBackend(id) \/ handleDeleteRemoteBackend(id)
                                     \/ \E up \in BOOLEAN : handleMoveRemoteBackend(id, up)
        \/ \E name \in Name : \/ handleCommitRemoteName(name)
                              \/ \E host \in Host : handleAddRemoteConfirm(name, host, "token")
        \/ \E token \in Tokens : handleCommitRemoteToken(token)
        \/ \E host \in Host : \/ handleCommitRemoteHost(host) \/ handleMobileConnectTest(host, "token")
                              \/ onConnectTest(host, "token")
        \/ \E j \in jobs, ok \in BOOLEAN : Lists(j, ok)

Spec == Init /\ [][Next]_vars

----------------------------------------------------------------------------
\* Whatever is shown, stored or on its way: there is a server in use, one of
\* the list, and the host and token in use are its; no two have one name.
Consistent(s) ==
  /\ s.active \in Ids(s) /\ Cardinality(Ids(s)) = Len(s.list) /\ Cardinality({e.name : e \in ToSet(s.list)}) = Len(s.list)
  /\ s.host = s.list[ActivePlace(s)].host /\ s.token = s.list[ActivePlace(s)].token
ServersAreConsistent == \A s \in {settings, stored} \cup {save.next : save \in ToSet(queue)} : Consistent(s)

\* A server is in the list from when it was said to be added until it is
\* deleted, with a host that was given for it, and not when it was not added
\* after all or is deleted; when all is done, the one in use is the one chosen.
\* All but for what was saved in between, and a server that could not be taken
\* out again.
Quiet == queue = <<>> /\ \A j \in jobs : j.kind = "check"
ServersAreAsAsked ==
  /\ log.added \ log.deleted \subseteq Ids(settings) \cup log.crossed
  /\ \A e \in ToSet(settings.list) : <<e.id, e.host>> \in log.given
  /\ Ids(settings) \cap (log.refused \cup log.deleted) \subseteq log.crossed \cup log.stuck
  /\ Quiet /\ ~log.moved => settings.active \in {log.choice} \cup log.stuck

\* When no answer is waited for and the last was of the server in use, no
\* wizard is shown only if that server did answer.
ReadyIsReached ==
  ui.ready /\ Quiet /\ jobs = {} /\ ~log.astray => settings.host \in log.reached

\* What says it is busy is under way; a check is said to be just when the last
\* one, of a server that can be checked, is.
ServersAreUnderWay ==
  LET Runs(kind) == \E j \in jobs : j.kind = kind IN
  /\ ui.checking # None <=> isRemoteServerConfigured(settings) /\ \E j \in jobs : j.n = log.check
  /\ (ui.busy => Runs("setup")) /\ (ui.adding => Runs("add")) /\ (ui.testing => Runs("test"))
=============================================================================
