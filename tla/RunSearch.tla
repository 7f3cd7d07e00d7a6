----------------------------- MODULE RunSearch -----------------------------
(***************************************************************************)
(* The search for pipeline runs (pipeline_run_search.py and the search       *)
(* command of pipeline_runs_cli.py): options become a filter, the filter is  *)
(* asked for page by page until enough rows are there, and the last page is  *)
(* cut to the limit.  The user goes on from the token of the result, while   *)
(* new runs are started.  The server (external) keeps runs newest first; its *)
(* token names the last run of a page.                                       *)
(***************************************************************************)
EXTENDS Integers, Sequences, FiniteSets, SequencesExt

CONSTANTS
  Searches,   \* the options of a search
  Histories,  \* the runs there are at first, newest first
  NewRuns,    \* the runs that may start meanwhile, in order
  WhoAmI,     \* the user that users_me() names
  Offset,     \* today's offset of local time
  PageSize,   \* of the server
  MaxSearches \* bound on the calls that continue each other

DefaultLimit == 10
LargestLimit == 100
NoToken == 0

VARIABLES
  options,   \* of the search
  runs,      \* at the server, newest first; ids count up
  starting,  \* how many of NewRuns have started
  calling,   \* "idle", "pages", "simple", "shown", "error"
  searches,  \* calls made so far
  filter,    \* filter_query: a set of predicates, all of which must hold
  cursor,    \* current_token
  rows,      \* all_rows
  pages,     \* page_chunks
  final,     \* final_next_token
  from, asOf, cut, hole, before
             \* history: the call's token, the runs at its first answer, rows
             \* cut from its last page, an empty page, the ids of earlier rows

\* The runs of a list that are in a set, in its order.
Among(list, set) == FlattenSeq([i \in DOMAIN list |-> IF list[i] \in set THEN <<list[i]>> ELSE <<>>])
Follows(run, token) == token # NoToken => run.id < token

resultVars == <<rows, pages, final>>
historyVars == <<from, asOf, cut, hole, before>>
searchVars == <<options, runs, starting, calling, searches, filter, cursor, resultVars, historyVars>>
-----------------------------------------------------------------------------
(* Options.  A value of an annotation is "none" for a key alone, "" or a     *)
(* word; a date is an hour and the zone it is written with.                  *)
NoDate == [hour |-> 0, zone |-> ""]

ById(notes) == [k \in {n.key : n \in ToSet(notes)} |->
  notes[CHOOSE i \in DOMAIN notes :
          notes[i].key = k /\ \A j \in DOMAIN notes : notes[j].key = k => j <= i].value]
Annotations(o) ==
  LET listed == ById(o.annotation)
  IN [k \in DOMAIN listed \union DOMAIN o.json |-> IF k \in DOMAIN o.json THEN o.json[k] ELSE listed[k]]

RichSearch(o) == \/ o.name # "" \/ o.created_by # "" \/ o.annotation # <<>> \/ DOMAIN o.json # {}
                 \/ o.start # NoDate \/ o.end # NoDate \/ o.query # {} \/ o.limit # 0
Limit(o) == Max({1, Min({IF o.limit = 0 THEN DefaultLimit ELSE o.limit, LargestLimit})})

(* A date without a zone is taken at today's offset, whatever its season.    *)
HasTimezone(date) == date.zone \in {"Z", "+", "-"}
Shift(zone) == CASE zone = "Z" -> 1 [] zone = "+" -> 0 [] zone = "-" -> 2
\* The instant that is sent; zones are one hour apart, and none is negative.
Instant(date) == date.hour + IF HasTimezone(date) THEN Shift(date.zone) ELSE 1 - Offset

Predicate(kind, key, word, start, end) ==
  [kind |-> kind, key |-> key, word |-> word, start |-> start, end |-> end]
ValueContains(key, word) == Predicate("value_contains", key, word, 0, 0)
ValueEquals(key, word) == Predicate("value_equals", key, word, 0, 0)
KeyExists(key) == Predicate("key_exists", key, "", 0, 0)
TimeRange(start, end) == Predicate("time_range", "created_at", "", start, end)

OfAnnotation(key, value) ==
  CASE value = "none" -> KeyExists(key)
    [] value = "" -> ValueEquals(key, "")
    [] OTHER -> ValueContains(key, value)

SentDate(date) == IF date = NoDate THEN 0 ELSE Instant(date)

BuildFilter(o, created_by) ==
  LET notes == Annotations(o)
  IN {ValueContains("name", n) : n \in {o.name} \ {""}}
     \union {ValueEquals("created_by", u) : u \in {created_by} \ {""}}
     \union {OfAnnotation(k, notes[k]) : k \in DOMAIN notes}
     \union {TimeRange(SentDate(o.start), SentDate(o.end)) : d \in {<<o.start, o.end>>} \ {<<NoDate, NoDate>>}}

IsMe(name) == name \in {"me", "Me"}
-----------------------------------------------------------------------------
(* The server (external).  A value is the set of its words.                  *)
ValueOf(run, key) == CASE key = "name" -> run.name
                       [] key = "created_by" -> {run.by}
                       [] OTHER -> run.notes[key]
Has(run, key) == key \in {"name", "created_by"} \union DOMAIN run.notes
Satisfies(run, p) ==
  CASE p.kind = "key_exists" -> Has(run, p.key)
    [] p.kind = "value_equals" -> Has(run, p.key) /\ ValueOf(run, p.key) = {p.word} \ {""}
    [] p.kind = "value_contains" -> Has(run, p.key) /\ p.word \in ValueOf(run, p.key)
    [] p.kind = "time_range" -> /\ p.start = 0 \/ run.at >= p.start
                                /\ p.end = 0 \/ run.at <= p.end
Listed(preds, token) ==
  Among(runs, {r \in ToSet(runs) : Follows(r, token) /\ \A p \in preds : Satisfies(r, p)})

PageOf(listed) == SubSeq(listed, 1, Min({PageSize, Len(listed)}))
(* The token of a page; a last page that is full may have one, too.          *)
TokensAfter(listed) ==
  IF Len(listed) > PageSize THEN {listed[PageSize].id}
  ELSE IF Len(listed) = PageSize THEN {listed[PageSize].id, NoToken} ELSE {NoToken}

StartRun ==
  /\ starting < Len(NewRuns)
  /\ starting' = starting + 1
  /\ runs' = <<NewRuns[starting']>> \o runs
  /\ UNCHANGED <<options, calling, searches, filter, cursor, resultVars, historyVars>>
-----------------------------------------------------------------------------
(* The parameters: ids count up as runs start, annotations have other keys   *)
(* than the server's own, and no date is as early as 0, which stands for no  *)
(* date.                                                                     *)
AllRuns == UNION {ToSet(h) : h \in Histories} \union ToSet(NewRuns)
NewestFirst(list) == \A i \in DOMAIN list, j \in DOMAIN list : i < j => list[i].id > list[j].id

OptionsOK(o) ==
  /\ o.annotation \in Seq(ToSet(o.annotation)) /\ o.limit \in Nat
  /\ \A k \in {n.key : n \in ToSet(o.annotation)} \union DOMAIN o.json : k \notin {"name", "created_by"}
  /\ \A date \in {o.start, o.end} : date # NoDate => Instant(date) \in Nat \ {0}

ASSUME SearchConstantsOK ==
  /\ Histories \subseteq Seq(AllRuns) /\ NewRuns \in Seq(AllRuns)
  /\ \A r \in AllRuns : r.id \in Nat \ {NoToken}
  /\ \A i \in DOMAIN NewRuns, j \in DOMAIN NewRuns : i < j => NewRuns[i].id < NewRuns[j].id
  /\ \A h \in Histories : /\ NewestFirst(h)
                          /\ \A i \in DOMAIN h, j \in DOMAIN NewRuns : h[i].id < NewRuns[j].id
  /\ \A o \in Searches : OptionsOK(o)
  /\ WhoAmI # "" /\ PageSize \in Nat \ {0} /\ MaxSearches \in Nat
-----------------------------------------------------------------------------
SearchInit ==
  /\ options \in Searches /\ runs \in Histories /\ starting = 0
  /\ calling = "idle" /\ searches = 0 /\ filter = {} /\ cursor = NoToken
  /\ rows = <<>> /\ pages = <<>> /\ final = NoToken
  /\ from = NoToken /\ asOf = <<>> /\ cut = 0 /\ hole = FALSE /\ before = {}

(* A first call, or one with the token of the last result.                   *)
CanBegin == /\ searches < MaxSearches
            /\ \/ calling = "idle"
               \/ calling = "shown" /\ final # NoToken
BeginCall ==
  /\ CanBegin
  /\ searches' = searches + 1
  /\ cursor' = final /\ from' = final
  /\ rows' = <<>> /\ pages' = <<>> /\ final' = NoToken
  /\ asOf' = <<>> /\ cut' = 0 /\ hole' = FALSE
  /\ before' = before \union {rows[i].id : i \in DOMAIN rows}
  /\ UNCHANGED <<options, runs, starting>>

BeginSimple ==
  /\ ~RichSearch(options) /\ BeginCall
  /\ filter' = options.filter_query
  /\ calling' = "simple"

BeginSearch ==
  /\ RichSearch(options) /\ BeginCall
  /\ filter' = IF options.query # {} THEN options.query
               ELSE BuildFilter(options, IF IsMe(options.created_by) THEN WhoAmI ELSE options.created_by)
  /\ calling' = "pages"

(* users_me() answers nothing: an error instead of a search.                 *)
MeIsUnknown ==
  /\ CanBegin
  /\ RichSearch(options) /\ IsMe(options.created_by)
  /\ calling' = "error"
  /\ UNCHANGED <<options, runs, starting, searches, filter, cursor, resultVars, historyVars>>

FetchSimple ==
  /\ calling = "simple"
  /\ \E listed \in {Listed(filter, cursor)} :
     LET page == PageOf(listed)
     IN \E token \in TokensAfter(listed) :
          /\ rows' = [i \in DOMAIN page |-> [index |-> i, id |-> page[i].id]]
          /\ final' = token
  /\ asOf' = runs
  /\ calling' = "shown"
  /\ UNCHANGED <<options, runs, starting, searches, filter, cursor, pages, from, cut, hole, before>>

Left == Limit(options) - Len(rows)
\* Mutant: each page is cut to the limit, not to what is left of it.
TakenWhole(page) == SubSeq(page, 1, Min({Limit(options), Len(page)}))

Taken(page) == SubSeq(page, 1, Min({Left, Len(page)}))
RowsOf(page) == [i \in DOMAIN page |-> [index |-> Len(rows) + i, id |-> page[i].id]]

Stops(token, count) == token = NoToken \/ count >= Limit(options)
FinalToken(token, count) == IF count >= Limit(options) THEN token ELSE NoToken

FetchPage ==
  /\ calling = "pages"
  /\ \E listed \in {Listed(filter, cursor)} :
     LET page == PageOf(listed)
         taken == Taken(page)
     IN \E token \in TokensAfter(listed) :
          /\ page # <<>>
          /\ rows' = rows \o RowsOf(taken)
          /\ pages' = Append(pages, [rows |-> RowsOf(taken), token |-> cursor, next |-> token])
          /\ cursor' = token
          /\ calling' = IF Stops(token, Len(rows')) THEN "shown" ELSE "pages"
          /\ final' = IF Stops(token, Len(rows')) THEN FinalToken(token, Len(rows')) ELSE final
          /\ cut' = Len(page) - Len(taken)
  /\ asOf' = IF pages = <<>> THEN runs ELSE asOf
  /\ UNCHANGED <<options, runs, starting, searches, filter, from, hole, before>>

(* A page without runs ends the loop, whatever its token: at the end of the  *)
(* runs, or one that the server answers although more are there.             *)
FetchEmptyPage ==
  /\ calling = "pages"
  /\ asOf' = IF pages = <<>> THEN runs ELSE asOf
  /\ hole' = (Listed(filter, cursor) # <<>>)
  /\ calling' = "shown" /\ final' = NoToken
  /\ UNCHANGED <<options, runs, starting, searches, filter, cursor, rows, pages, from, cut, before>>

(* A request fails: the error goes through, the rows so far are lost.        *)
FetchFails ==
  /\ calling \in {"pages", "simple"}
  /\ calling' = "error" /\ rows' = <<>> /\ pages' = <<>>
  /\ UNCHANGED <<options, runs, starting, searches, filter, cursor, final, historyVars>>

SearchStep == \/ BeginSimple \/ BeginSearch \/ MeIsUnknown
              \/ FetchSimple \/ FetchPage \/ FetchEmptyPage \/ FetchFails
SearchOver == calling \in {"shown", "error"}

SearchNext == SearchStep \/ StartRun \/ (SearchOver /\ UNCHANGED searchVars)
SearchSpec == SearchInit /\ [][SearchNext]_searchVars
-----------------------------------------------------------------------------
(* What the options ask for, said of the runs themselves.                    *)
Noted(run, key, value) ==
  /\ key \in DOMAIN run.notes
  /\ value = "" => run.notes[key] = {}
  /\ value \notin {"", "none"} => value \in run.notes[key]
Within(run, o) ==
  /\ o.start # NoDate => run.at >= Instant(o.start)
  /\ o.end # NoDate => run.at <= Instant(o.end)
Asked(run, o) ==
  /\ o.name # "" => o.name \in run.name
  /\ o.created_by # "" => run.by = IF IsMe(o.created_by) THEN WhoAmI ELSE o.created_by
  /\ \A k \in DOMAIN o.json : Noted(run, k, o.json[k])
  /\ \A i \in DOMAIN o.annotation :
       LET n == o.annotation[i]
       IN n.key \notin DOMAIN o.json /\ (\A j \in DOMAIN o.annotation : o.annotation[j].key = n.key => j <= i)
            => Noted(run, n.key, n.value)
  /\ Within(run, o)
Wanted(run, o) ==
  IF ~RichSearch(o) THEN \A p \in o.filter_query : Satisfies(run, p)
  ELSE IF o.query # {} THEN \A p \in o.query : Satisfies(run, p)
  ELSE Asked(run, o)
WantedAfter(token) == Among(asOf, {r \in ToSet(asOf) : Follows(r, token) /\ Wanted(r, options)})

(* The rows are the newest of the runs asked for, as they were when the      *)
(* search began, in order and numbered without a gap; there are as many as   *)
(* allowed, unless an empty page ended the search; no run comes again in a   *)
(* later result, whatever starts meanwhile; and what a result leaves out     *)
(* follows its token, but for rows cut off the last page.                    *)
SearchIsExact ==
  calling = "shown" =>
    LET wanted == WantedAfter(from)
        past == Len(rows) + cut
    IN /\ \A i \in DOMAIN rows : i <= Len(wanted) /\ rows[i] = [index |-> i, id |-> wanted[i].id]
       /\ FlattenSeq([i \in DOMAIN pages |-> pages[i].rows]) \in {rows, <<>>}
       /\ RichSearch(options) => Len(rows) <= Limit(options)
       /\ RichSearch(options) /\ ~hole => Len(rows) = Min({Limit(options), Len(wanted)})
       /\ {rows[i].id : i \in DOMAIN rows} \intersect before = {}
       /\ final # NoToken => WantedAfter(final) = SubSeq(wanted, past + 1, Len(wanted))
       /\ final = NoToken /\ ~hole => past = Len(wanted)
       /\ cut > 0 => Len(rows) = Limit(options)
=============================================================================
