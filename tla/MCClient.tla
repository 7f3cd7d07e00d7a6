----------------------------- MODULE MCClient -----------------------------
(* A call of the API client: one request, the opening of a log stream, or    *)
(* the details of a run, which are many requests in threads; the threads     *)
(* that share its rate limiter; or a search for runs, page by page.          *)
EXTENDS LogStream, RateLimiter, ExecutionTree, RunSearch, TLC

(* Searches among a handful of runs, with every kind of option.              *)
NoNotes == [k \in {} |-> {}]
RunOf(id, name, by, notes, day) == [id |-> id, name |-> name, by |-> by, notes |-> notes, at |-> day]
FiveRuns ==
  <<RunOf(5, {"orders"}, "ann", "team" :> {"search"}, 5),
    RunOf(4, {"orders", "retry"}, "bob", "team" :> {} @@ "debug" :> {"on"}, 4),
    RunOf(3, {"orders"}, "ann", "debug" :> {}, 3),
    RunOf(2, {"users"}, "ann", NoNotes, 2),
    RunOf(1, {"orders"}, "ann", "team" :> {"search", "infra"}, 1)>>
SomeHistories == {FiveRuns, SubSeq(FiveRuns, 1, 4), <<>>}
LaterRuns == <<RunOf(6, {"orders"}, "ann", "team" :> {"search"}, 6), RunOf(7, {"orders"}, "bob", NoNotes, 6)>>

Options == [name |-> "", created_by |-> "", annotation |-> <<>>, json |-> [k \in {} |-> ""],
            start |-> NoDate, end |-> NoDate, query |-> {}, limit |-> 0, filter_query |-> {}]
Note(key, value) == [key |-> key, value |-> value]
On(hour, zone) == [hour |-> hour, zone |-> zone]

Limited(o) == {[o EXCEPT !.limit = l] : l \in 0 .. 3}
SomeSearches ==
  UNION {Limited(o) : o \in {
    Options,
    [Options EXCEPT !.name = "orders"],
    [Options EXCEPT !.name = "orders", !.created_by = "Me"],
    [Options EXCEPT !.created_by = "bob", !.filter_query = {ValueContains("name", "users")}],
    [Options EXCEPT !.annotation = <<Note("team", "search")>>],
    [Options EXCEPT !.annotation = <<Note("team", "none"), Note("debug", "")>>],
    [Options EXCEPT !.annotation = <<Note("team", "infra"), Note("team", "none")>>, !.json = "team" :> ""],
    [Options EXCEPT !.annotation = <<Note("debug", "on"), Note("debug", "none")>>],
    [Options EXCEPT !.name = "retry", !.query = {ValueContains("name", "users")}],
    [Options EXCEPT !.start = On(2, "Z"), !.end = On(2, "-")],
    [Options EXCEPT !.start = On(2, ""), !.name = "orders"],
    [Options EXCEPT !.end = On(4, "+")]}}
  \union {[Options EXCEPT !.filter_query = {ValueContains("name", "orders")}],
          [Options EXCEPT !.name = "orders", !.limit = 101]}

-----------------------------------------------------------------------------
CONSTANTS root, e1, e2, e3, e4

FiveIds == {root, e1, e2, e3, e4}
Tree(f) == [x \in FiveIds |-> IF x \in DOMAIN f THEN f[x] ELSE <<>>]

\* Two levels; one execution under two parents and twice under one; a chain.
ThreeTrees ==
  { Tree(root :> <<e1, e2, e3>> @@ e1 :> <<e4>>),
    Tree(root :> <<e1, e2>> @@ e1 :> <<e3, e3>> @@ e2 :> <<e4, e3>> @@ e3 :> <<e4>>),
    Tree(root :> <<e1>> @@ e1 :> <<e2>>) }

VARIABLE which  \* "request", "details", "limiter" or "search", which no step changes

NoRequest ==
  /\ method = "get" /\ pc = "done" /\ phase = "first" /\ round = 0 /\ backoff = 1
  /\ held = {} /\ hops = 0 /\ current = "asked" /\ answer = "ok"
  /\ attempts = 0 /\ sends = 0 /\ left = 0 /\ slot = FALSE
  /\ applied = 0 /\ heard = FALSE /\ outcome = "none"
  /\ opens = 0 /\ conns = 0 /\ live = FALSE /\ stage = "plain"

NoDetails ==
  /\ tree = Tree(root :> <<>>) /\ workers = 1 /\ step = "done" /\ nodes = NoNodes
  /\ level = <<>> /\ started = 0 /\ landed = <<>> /\ failed = {} /\ collected = 0
  /\ persisted = {}

NoThreads ==
  /\ interval = 0 /\ since = Longest /\ pause_left = 0 /\ owner = Nobody
  /\ at = [w \in Workers |-> "idle"] /\ timer = [w \in Workers |-> 0]
  /\ patience = [w \in Workers |-> Unlimited] /\ asked = [w \in Workers |-> 0]

NoSearch ==
  /\ options = Options /\ runs = <<>> /\ starting = Len(NewRuns)
  /\ calling = "shown" /\ searches = MaxSearches /\ filter = {} /\ cursor = NoToken
  /\ rows = <<>> /\ pages = <<>> /\ final = NoToken
  /\ from = NoToken /\ asOf = <<>> /\ cut = 0 /\ hole = FALSE /\ before = {}

clientVars == <<which, streamVars, treeVars, limiterVars, searchVars>>

ClientInit == \/ which = "request" /\ StreamInit /\ NoDetails /\ NoThreads /\ NoSearch
              \/ which = "details" /\ TreeInit /\ NoRequest /\ NoThreads /\ NoSearch
              \/ which = "limiter" /\ LimiterInit /\ NoRequest /\ NoDetails /\ NoSearch
              \/ which = "search" /\ SearchInit /\ NoRequest /\ NoDetails /\ NoThreads

AsRequest == which = "request" /\ UNCHANGED <<which, treeVars, limiterVars, searchVars>>
AsDetails == which = "details" /\ UNCHANGED <<which, streamVars, limiterVars, searchVars>>
AsLimiter == which = "limiter" /\ UNCHANGED <<which, streamVars, treeVars, searchVars>>
AsSearch == which = "search" /\ UNCHANGED <<which, streamVars, treeVars, limiterVars>>

ClientNext == \/ AsRequest /\ StreamNext
              \/ AsDetails /\ TreeNext
              \/ AsLimiter /\ LimiterNext
              \/ AsSearch /\ SearchNext

ClientSteps == \/ AsRequest /\ StreamSteps
               \/ AsDetails /\ FetchStep
               \/ AsSearch /\ SearchStep

\* The fairness of StreamSpec, TreeSpec or FairLimiterSpec, for what is done; that
\* of a search makes it go on.
ClientSpec ==
  /\ ClientInit /\ [][ClientNext]_clientVars
  /\ WF_clientVars(ClientSteps)
  /\ WF_clientVars(AsLimiter /\ Tick)
  /\ \A w \in Workers : WF_clientVars(AsLimiter /\ Acquire(w))

(* The layers do not multiply and no thread is waited for in vain: every     *)
(* call ends, however long the outage, and every retry with a deadline gets  *)
(* a slot of the limiter or is refused, however the others are scheduled.    *)
CallsEnd == <>(Over /\ TreeOver /\ SearchOver) /\ BoundedWaitEnds
=============================================================================
