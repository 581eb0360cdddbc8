------------------------------- MODULE WebPage -------------------------------
(***************************************************************************)
(* One page of the web client at work: refreshes that are started and not  *)
(* awaited, so that they overlap and answer in any order, and handlers     *)
(* that set a busy flag, call the API, start a refresh when the call was   *)
(* acknowledged, and clear the flag at last.                               *)
(*                                                                         *)
(* A part of a page is a number that grows with every change of it on the  *)
(* server.  The parts of a phase are read at one moment: what is said of a *)
(* part below concerns that part alone, and its moment is any one between  *)
(* the request and the answer.                                             *)
(***************************************************************************)
EXTENDS WebPages

CONSTANTS Pages,       \* the pages of this instance
          Visitors,    \* who looks at them: a role, a role in the case (or
                       \* "none") and the explicit grants held
          Clicks,      \* handlers that may be started
          Fetches,     \* refreshes that may be under way at once
          MaxTyped     \* bound on the queries typed into a picker

ASSUME PagesAssumption == Pages \subseteq DOMAIN Refresh
ASSUME VisitorsAssumption ==
  \A v \in Visitors : v.role \in ROLES /\ v.caseRole \in CASE_ROLES \cup {"none"}

VARIABLES page,        \* the page that is looked at
          visitor,     \* and by whom
          server,      \* server[p]: how often part p was changed
          shown,       \* shown[p]: what the page shows of it, 0 for nothing
          written,     \* written[p]: what an acknowledged change made of it
          followed,    \* ... one that the page followed by reading or setting p
          missed,      \* parts that could not be read the last time
          lost,        \* was a request lost since the newest refresh began?
          fetching,    \* fetching[f]: the phase of a refresh and its answer
          overlapped,  \* did the newest answers race with others?
          clicked,     \* clicked[c]: the handler that click c started
          flags        \* flags[g]: the row that set busy flag g, 0 for none

pageVars == <<page, visitor, server, shown, written, followed, missed, lost,
              fetching, overlapped, clicked, flags>>

Parts == PartsOf(page)
Flags == FlagsOf(page)

Quiet    == [phase |-> 0]
Unused   == [stage |-> "unused"]
NoAnswer == [p \in {} |-> 0]

-----------------------------------------------------------------------------
\* The mount effect starts the first refresh; a picker has nothing to look up.
PageInit ==
  /\ page \in Pages
  /\ visitor \in Visitors
  /\ page = "users" => createsRolesFor(visitor.role) # {}   \* canManageUsers
  /\ server = [p \in Parts |-> 1]
  /\ shown = [p \in Parts |-> 0]
  /\ written = [p \in Parts |-> 0]
  /\ followed = [p \in Parts |-> 0]
  /\ missed = {}
  /\ lost = FALSE
  /\ \E first \in Fetches :
       fetching = [f \in Fetches |-> IF /\ f = first
                     /\ page \notin {"picker", "session"}
                     THEN [phase |-> 1, got |-> NoAnswer] ELSE Quiet]
  /\ overlapped = FALSE
  /\ clicked = [c \in Clicks |-> Unused]
  /\ flags = [g \in Flags |-> 0]

Phases == Refresh[page]
UnderWay == {f \in Fetches : fetching[f] # Quiet}

Pending  == {c \in Clicks : clicked[c].stage \in {"calling", "served"}}

\* refresh(): the first phase is asked for, beside whatever is under way.
StartRefresh(others) ==
  \E f \in Fetches \ UnderWay :
    /\ fetching' = [g \in Fetches |->
         IF g = f THEN [phase |-> 1, got |-> NoAnswer]
         ELSE IF g \in others THEN fetching[g] ELSE Quiet]
    /\ overlapped' = (others # {})
    /\ lost' = FALSE

\* After phase i: the next one, or the end.
After(i) == IF i < Len(Phases) THEN [phase |-> i + 1, got |-> NoAnswer] ELSE Quiet

MayGet(p) == Passes(visitor, Get[p])

\* The server answers the requests of a phase, or refuses them.
ReadPhase(f) ==
  /\ f \in UnderWay /\ fetching[f].got = NoAnswer
  /\ fetching' = [fetching EXCEPT ![f].got =
       [p \in Phases[fetching[f].phase].parts |-> IF MayGet(p) THEN server[p] ELSE 0]]
  /\ UNCHANGED <<page, visitor, server, shown, written, followed, missed, lost,
                 overlapped, clicked, flags>>

\* The answers arrive and are set; those that failed and were caught are empty.
ApplyPhase(f) ==
  /\ f \in UnderWay /\ fetching[f].got # NoAnswer
  /\ LET i       == fetching[f].phase
         refused == {p \in Phases[i].parts : fetching[f].got[p] = 0}
     IN \E failed \in SUBSET Phases[i].caught :
          /\ refused \subseteq failed
          /\ shown' = [p \in Parts |->
               IF p \in failed THEN 0
               ELSE IF p \in Phases[i].parts THEN fetching[f].got[p]
               ELSE shown[p]]
          /\ missed' = (missed \ Phases[i].parts) \cup failed
          /\ lost' = (lost \/ failed # refused)
          /\ fetching' = [fetching EXCEPT ![f] = After(i)]
  /\ UNCHANGED <<page, visitor, server, written, followed, overlapped, clicked, flags>>

\* A request of the phase is refused or lost: the rest of its try block is
\* skipped and an error is set.
FailPhase(f) ==
  /\ f \in UnderWay /\ fetching[f].got # NoAnswer
  /\ LET i    == fetching[f].phase
         skip == {j \in DOMAIN Phases : j >= i /\ Phases[j].block = Phases[i].block}
         last == CHOOSE j \in skip : \A k \in skip : k <= j
         open == Phases[i].parts \ Phases[i].caught
     IN /\ open # {}
        /\ missed' = missed \cup UNION {Phases[j].parts : j \in skip}
        /\ lost' = (lost \/ \A p \in open : fetching[f].got[p] # 0)
        /\ fetching' = [fetching EXCEPT ![f] = After(last)]
  /\ UNCHANGED <<page, visitor, server, shown, written, followed, overlapped, clicked,
                 flags>>

-----------------------------------------------------------------------------
\* A click on a button that is drawn and not disabled.
StartHandler(c) ==
  /\ clicked[c] = Unused
  /\ \E a \in Handlers[page] : \E row \in 1..a.rows :
       /\ \A p \in a.needs : shown[p] > 0
       /\ a.flag # "none" => flags[a.flag] # row
       /\ clicked' = [clicked EXCEPT ![c] = [stage |-> "calling", does |-> a]]
       /\ flags' = [g \in Flags |-> IF g = a.flag THEN row ELSE flags[g]]
  /\ UNCHANGED <<page, visitor, server, shown, written, followed, missed, lost, fetching,
                 overlapped>>

\* The route lets the call through and the server commits the change.
ServeCall(c) ==
  /\ clicked[c].stage = "calling" /\ Passes(visitor, clicked[c].does.calls)
  /\ server' = [p \in Parts |->
       IF p \in clicked[c].does.changes THEN server[p] + 1 ELSE server[p]]
  /\ clicked' = [clicked EXCEPT ![c] =
       [stage |-> "served", does |-> @.does,
        made |-> [p \in clicked[c].does.changes |-> server'[p]]]]
  /\ UNCHANGED <<page, visitor, shown, written, followed, missed, lost, fetching,
                 overlapped, flags>>

\* finally: the flag is cleared, whichever row it names by now.
Releases(a) == [g \in Flags |-> IF g = a.flag THEN 0 ELSE flags[g]]

\* The call is refused, fails on its way, or its answer is lost: an error.
CallFails(c) ==
  /\ c \in Pending
  /\ flags' = Releases(clicked[c].does)
  /\ clicked' = [clicked EXCEPT ![c] = [stage |-> "done"]]
  /\ UNCHANGED <<page, visitor, server, shown, written, followed, missed, lost, fetching,
                 overlapped>>

\* What is known of the parts, `known` so far, once c was acknowledged.
Acknowledged(c, known) ==
  [p \in Parts |->
     IF p \in clicked[c].does.changes /\ clicked[c].made[p] > known[p]
     THEN clicked[c].made[p] ELSE known[p]]

\* Mutant: the page is not refreshed.
ReturnsUnrefreshed(c) ==
  /\ clicked[c].stage = "served" /\ clicked[c].does.then = "refresh"
  /\ written' = Acknowledged(c, written)
  /\ followed' = Acknowledged(c, followed)
  /\ flags' = Releases(clicked[c].does)
  /\ clicked' = [clicked EXCEPT ![c] = [stage |-> "done"]]
  /\ UNCHANGED <<page, visitor, server, shown, missed, lost, fetching, overlapped>>

\* The call is acknowledged: refresh(), or the answer is set.
CallReturns(c) ==
  /\ clicked[c].stage = "served" /\ clicked[c].does.then = "refresh"
  /\ written' = Acknowledged(c, written)
  /\ followed' = Acknowledged(c, followed)
  /\ StartRefresh(UnderWay)
  /\ flags' = Releases(clicked[c].does)
  /\ clicked' = [clicked EXCEPT ![c] = [stage |-> "done"]]
  /\ UNCHANGED <<page, visitor, server, shown, missed>>

\* The answer of c is older than one that was acknowledged before it.
Outdated(c) ==
  \E p \in Parts \cap clicked[c].does.changes : clicked[c].made[p] < followed[p]

CallSets(c) ==
  /\ clicked[c].stage = "served" /\ clicked[c].does.then = "set"
  /\ LET set == clicked[c].does.changes IN
       /\ written' = Acknowledged(c, written)
       /\ followed' = Acknowledged(c, followed)
       /\ shown' = [p \in Parts |->
            IF p \in set THEN clicked[c].made[p] ELSE shown[p]]
       /\ missed' = missed \ set
  /\ overlapped' = (overlapped \/ UnderWay # {} \/ Outdated(c))
  /\ flags' = Releases(clicked[c].does)
  /\ clicked' = [clicked EXCEPT ![c] = [stage |-> "done"]]
  /\ UNCHANGED <<page, visitor, server, lost, fetching>>

CallShowsNothing(c) ==
  /\ clicked[c].stage = "served" /\ clicked[c].does.then = "nothing"
  /\ written' = Acknowledged(c, written)
  /\ flags' = Releases(clicked[c].does)
  /\ clicked' = [clicked EXCEPT ![c] = [stage |-> "done"]]
  /\ UNCHANGED <<page, visitor, server, shown, followed, missed, lost, fetching,
                 overlapped>>

\* UserPicker: a key stroke clears the timer of a lookup that has not been
\* sent, but not a lookup that has.  An empty query has no results.
Type ==
  /\ page = "picker" /\ server["results"] <= MaxTyped
  /\ server' = [server EXCEPT !["results"] = @ + 1]
  /\ written' = [written EXCEPT !["results"] = server'["results"]]
  /\ followed' = [followed EXCEPT !["results"] = server'["results"]]
  /\ \E timers \in SUBSET {f \in UnderWay : fetching[f].got = NoAnswer} :
       /\ Cardinality(timers) <= 1
       /\ \/ /\ StartRefresh(UnderWay \ timers)
             /\ UNCHANGED <<shown, missed>>
          \/ /\ fetching' = [f \in Fetches |->
                  IF f \in timers THEN Quiet ELSE fetching[f]]
             /\ overlapped' = (UnderWay \ timers # {})
             /\ shown' = followed'
             /\ missed' = {} /\ UNCHANGED lost
  /\ UNCHANGED <<page, visitor, clicked, flags>>

PageNext ==
  \/ Type
  \/ \E f \in Fetches : ReadPhase(f) \/ ApplyPhase(f) \/ FailPhase(f)
  \/ \E c \in Clicks :
       \/ StartHandler(c) \/ ServeCall(c) \/ CallFails(c)
       \/ CallReturns(c) \/ CallSets(c) \/ CallShowsNothing(c)

-----------------------------------------------------------------------------
\* What the pages do not read again after a change of their own: a download
\* may turn the integrity mark of a version or an artifact, which stays on the
\* page as it was, and an activation leaves its page for the login.
NotReadAgain == {"versions", "item", "preview"}

\* A page at rest shows every change of its own that the server acknowledged,
\* unless that part could not be read again, or answers raced: nothing orders
\* the answers of two refreshes (refresh() is called without an await), or of
\* two calls whose answers are set.  The parts that a download changes may be
\* behind what downloads made of them, but not behind the other changes.
ShownIsOwnWrites ==
  (UnderWay = {} /\ ~overlapped) =>
    \A p \in Parts :
      \/ p \in missed
      \/ shown[p] >= written[p]
      \/ p \in NotReadAgain /\ shown[p] >= followed[p]

\* Who may see a part of a page sees it when the page is at rest: a part that
\* this visitor is refused does not take others with it.  Visitors outside the
\* case are left aside: the member list they are refused does just that.
MemberSeesPage ==
  (UnderWay = {} /\ ~overlapped /\ ~lost /\ visitor.caseRole # "none") =>
    \A p \in missed : ~MayGet(p)
=============================================================================
