------------------------------ MODULE Handlers -------------------------------
(***************************************************************************)
(* The daemon's request handlers, `dispatch` in                            *)
(* crates/deep-diff-forge-daemon/src/handler.rs, over the session table:   *)
(* each method is a script of stages, with the client's deadline checked   *)
(* between them (deadline.rs), and counts what it did to the table after   *)
(* it has let go of it (metrics.rs).                                       *)
(*                                                                         *)
(* Requests run at once; a stage is one step.  The deadline may pass at    *)
(* any time, also while a request waits for admission.  Any stage of work  *)
(* may fail.  What a stage computes is left out, and so are the counters   *)
(* that no other state bears on.  Bound: MaxServed requests.               *)
(***************************************************************************)
EXTENDS Sessions, Sequences

CONSTANTS Requests,  \* request slots
          MaxServed

ASSUME RequestsFinite == IsFiniteSet(Requests)
ASSUME MaxServedNat == MaxServed \in Nat

VARIABLES req,       \* what each slot is serving
          served,    \* the requests taken so far
          running,   \* Engine::running
          metrics    \* the session counters of Metrics

handlerVars == <<req, served, running, metrics>>

Work == {"parse", "rank", "render", "dirs", "acquire", "seal", "view", "verify", "answer"}

\* A fault of review_change: the acquisition follows the directories at once.
ChangeUnchecked == <<"dirs", "acquire", "check", "seal", "check", "view">>

\* review.change: the directories Git will read, the acquisition, the sealed review
\* and its view.
review_change == <<"dirs", "check", "acquire", "check", "seal", "check", "view">>

\* The patch of a request, parsed and sealed.
sealed == <<"parse", "check">>
parse_patch_param == <<"parse", "check">>
session_open == parse_patch_param \o <<"open", "count_open">>

\* METHODS and the arms of dispatch.
Script(m) ==
  <<"check">> \o
  CASE m \in {"engine.initialize", "engine.methods", "daemon.metrics"} -> <<"answer">>
    [] m \in {"daemon.health", "daemon.status"} -> <<"look">>
    [] m = "daemon.shutdown" -> <<"stop">>
    [] m = "diff.plan" -> parse_patch_param \o <<"rank">>
    [] m = "diff.compute" -> sealed \o <<"render">>
    [] m = "diff.rank" -> sealed \o <<"rank">>
    [] m = "review.change" -> review_change
    [] m \in {"review.outline", "review.hunks"} -> sealed \o <<"view">>
    [] m = "session.open" -> session_open
    [] m = "session.snapshot" -> <<"snapshot", "check", "rank">>
    [] m = "session.close" -> <<"close">>
    [] m = "findings.verify" -> sealed \o <<"verify">>

Methods == {"engine.initialize", "daemon.health", "daemon.shutdown", "diff.plan", "diff.compute",
            "review.change", "review.outline", "session.open", "session.snapshot", "session.close",
            "findings.verify"}

Idle == [method |-> "none", at |-> 0, late |-> FALSE, past |-> 0, evicted |-> 0]

HInit == /\ req = [r \in Requests |-> Idle]
         /\ served = 0
         /\ running = TRUE
         /\ metrics = [opened |-> 0, closed |-> 0, evicted |-> 0, resets |-> 0]
-----------------------------------------------------------------------------
Stage(r) == Script(req[r].method)[req[r].at]
At(r, stages) == req[r].method # "none" /\ Stage(r) \in stages
NoTable == UNCHANGED vars

\* The stages of work that r has done after the deadline, with the present one.
Past(r) == req[r].past + (IF req[r].late /\ Stage(r) \in Work THEN 1 ELSE 0)

\* The request has been answered, or refused.
Finish(r) == req' = [req EXCEPT ![r] = [Idle EXCEPT !.past = Past(r)]]

\* The request goes to its next stage, with f as its locals.
Advance(r, f) ==
  IF f.at = Len(Script(f.method)) THEN Finish(r)
  ELSE req' = [req EXCEPT ![r] = [f EXCEPT !.at = @ + 1, !.past = Past(r)]]

\* parse_request and the METHODS entry: one that has none, or takes no such param, is
\* refused and never gets here.
Take(r, m) ==
  /\ req[r].method = "none" /\ served < MaxServed
  /\ req' = [req EXCEPT ![r] = [Idle EXCEPT !.method = m, !.at = 1]]
  /\ served' = served + 1
  /\ UNCHANGED <<running, metrics>> /\ NoTable

\* The client's 30 seconds are over.
DeadlinePasses(r) ==
  /\ req[r].method # "none" /\ ~req[r].late
  /\ req' = [req EXCEPT ![r].late = TRUE]
  /\ UNCHANGED <<served, running, metrics>> /\ NoTable

\* deadline::check, within the deadline of this request.
check(r) ==
  /\ At(r, {"check"})
  /\ IF req[r].late THEN Finish(r) ELSE Advance(r, req[r])
  /\ UNCHANGED <<served, running, metrics>> /\ NoTable

\* A stage outside the table: done, or refused (a patch that does not parse, input the
\* guards refuse, a failed Git, a repository outside the roots, a cursor).
DoWork(r) ==
  /\ At(r, Work)
  /\ Advance(r, req[r]) \/ Finish(r)
  /\ UNCHANGED <<served, running, metrics>> /\ NoTable

stop(r) ==
  /\ At(r, {"stop"})
  /\ running' = FALSE
  /\ Advance(r, req[r])
  /\ UNCHANGED <<served, metrics>> /\ NoTable

\* Engine::sessions counts the reset of a poisoned table.
Resets == metrics.resets + (IF poisoned THEN 1 ELSE 0)
CountReset == metrics' = [metrics EXCEPT !.resets = Resets]

\* daemon.health and daemon.status read the table.
health(r) ==
  /\ At(r, {"look"})
  /\ Look
  /\ CountReset /\ Advance(r, req[r])
  /\ UNCHANGED <<served, running>>

snapshot(r, i) ==
  /\ At(r, {"snapshot"})
  /\ Snapshot(i)
  /\ CountReset /\ Advance(r, req[r])
  /\ UNCHANGED <<served, running>>

\* session.open retains the patch; one over the whole budget is refused.
open_session(r, w) ==
  /\ At(r, {"open"})
  /\ \/ /\ Open(w)
        /\ Advance(r, [req[r] EXCEPT !.evicted = Cardinality(Locked.live) + 1 - Cardinality(table'.live)])
     \/ w > MaxRetained /\ Look /\ Finish(r)
     \/ OpenPanics(w) /\ Finish(r)
  /\ CountReset
  /\ UNCHANGED <<served, running>>

\* A fault of count_open: one eviction is counted however many there were.
CountOneEviction(r) ==
  /\ At(r, {"count_open"})
  /\ metrics' = [metrics EXCEPT !.opened = @ + 1, !.evicted = @ + (IF req[r].evicted > 0 THEN 1 ELSE 0)]
  /\ Advance(r, req[r])
  /\ UNCHANGED <<served, running>> /\ NoTable

\* Metrics::session_opened and sessions_evicted, after the table was released.
count_open(r) ==
  /\ At(r, {"count_open"})
  /\ metrics' = [metrics EXCEPT !.opened = @ + 1, !.evicted = @ + req[r].evicted]
  /\ Advance(r, req[r])
  /\ UNCHANGED <<served, running>> /\ NoTable

\* session.close; the count follows with nothing in between that could stop it.
close_session(r, i) ==
  /\ At(r, {"close"})
  /\ Close(i)
  /\ metrics' = [metrics EXCEPT !.resets = Resets,
                                !.closed = @ + (IF i \in Locked.live THEN 1 ELSE 0)]
  /\ Advance(r, req[r])
  /\ UNCHANGED <<served, running>>

HNext == \E r \in Requests :
           \/ \E m \in Methods : Take(r, m)
           \/ DeadlinePasses(r) \/ check(r) \/ DoWork(r) \/ stop(r) \/ health(r)
           \/ \E i \in Ids : snapshot(r, i) \/ close_session(r, i)
           \/ \E w \in Sizes : open_session(r, w)
           \/ count_open(r)

HSpec == Init /\ HInit /\ [][HNext]_<<vars, handlerVars>>
-----------------------------------------------------------------------------
\* A request overruns its client's deadline by one stage of work at most
\* (handler.rs:902-904, deadline.rs:6-11): between any two there is a check.
OverrunsOneStage == \A r \in Requests : req[r].past <= 1

\* Unless a panic reset the table, the sessions that daemon.metrics counts as opened are
\* those it counts as closed or evicted, those live and those a request is about to count.
CountersAddUp ==
  LET counting == {r \in Requests : At(r, {"count_open"})}
      Uncounted == Total(counting, [r \in Requests |-> req[r].evicted])
  IN  served > 0 /\ metrics.resets = 0 /\ ~poisoned =>
        metrics.opened + Cardinality(counting)
          = metrics.closed + metrics.evicted + Uncounted + Cardinality(table.live)

\* However requests interleave, ticks are rebased, ids wrap and panics empty the table, what
\* the daemon keeps of its sessions agrees: the bytes it counts are those of the entries,
\* every entry has a tick of its own, no id is given twice in a lap, and the counters of
\* daemon.metrics add up to the table.
SessionsAddUp == TypeOK /\ RetainedExact /\ TicksOrdered /\ NoIdReused /\ CountersAddUp
=============================================================================
