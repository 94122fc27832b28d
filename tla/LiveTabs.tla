------------------------------ MODULE LiveTabs ------------------------------
(***************************************************************************)
(* The open pages of one session and how they stay current: the server     *)
(* publishes an event after a change (realtime/publisher.py), a stream     *)
(* carries it to the leader tab (realtime/sse.py, realtime/core.js), the   *)
(* leader forwards it to the other tabs (realtime/tabs.js), and what the   *)
(* stream lost is recovered by comparing revisions (realtime/sync.js).     *)
(*                                                                         *)
(* What a page shows is a number, the count of changes so far.  The token  *)
(* the server answers with is another: a hash of counts and of the latest  *)
(* time stamps (realtime/sync.py), which a change need not move and which  *)
(* may come back.  A tab holds one live block.  Every tab is coordinated   *)
(* (BroadcastChannel and localStorage work).  Timers fire in any order; a  *)
(* lease runs out whenever its holder is late, which a throttled           *)
(* background tab is.                                                      *)
(***************************************************************************)
EXTENDS Integers

CONSTANTS
    Tabs,        \* the pages that may be opened
    NoTab,       \* the holder of a lease nobody holds
    MaxVersion,  \* bound: changes on the server
    MaxTrouble   \* bound: streams dropped, requests failed, tabs lost, leases slipped

ASSUME LiveTabsAssumption ==
    /\ NoTab \notin Tabs
    /\ MaxVersion \in Nat
    /\ MaxTrouble \in Nat

VARIABLES
    tab,      \* the scripts of every page
    lease,    \* the leader's lease in localStorage
    version,  \* what the server would show
    revision, \* the token of each version
    missed,   \* history: tabs whose last fragment request failed
    trouble   \* what went wrong so far, bounded by MaxTrouble

tabsVars == <<tab, lease, version, revision, missed, trouble>>

Versions == 0..MaxVersion
NotYet == -1      \* no revisions compared yet; no request under way

\* Whatever the tokens of the versions are: a change that was stamped before
\* another and commits after it leaves the token as it was, and a token comes
\* back when what moved it is deleted.  A token is named by the first version
\* that has it.
Tokens ==
    {token \in [Versions -> Versions] :
        \A v \in Versions : token[v] = v \/ (token[v] < v /\ token[token[v]] = token[v])}

States == {"idle", "connecting", "live", "degraded"}

Blank == [page |-> "closed", leader |-> FALSE, standing |-> FALSE, state |-> "idle",
          source |-> "none", polling |-> FALSE, safety |-> FALSE,
          sync |-> NotYet, known |-> NotYet, snapshot |-> NotYet, asking |-> FALSE,
          due |-> FALSE, shown |-> 0]

Running(t) == tab[t].page = "running"

LeasedToAnother(t) == lease.live /\ lease.holder # t

-----------------------------------------------------------------------------
(* What the handlers of one tab do to its record r. *)

\* Never more than one comparison at a time.  A request under way is the version
\* it was sent at: the server answers it at that one or at a later one.
RunSync(r) == IF r.sync = NotYet THEN [r EXCEPT !.sync = version] ELSE r

\* Mutant: whoever hears of a degraded stream polls.
AnyonePolls(r) == [r EXCEPT !.polling = TRUE]

StartPolling(r) == IF r.leader THEN [r EXCEPT !.polling = TRUE] ELSE r

SetState(r, next) ==
    IF r.state = next THEN r
    ELSE LET w == [r EXCEPT !.state = next]
         IN CASE next = "degraded" ->
                    LET d == StartPolling([w EXCEPT !.safety = FALSE])
                    IN IF d.leader THEN RunSync(d) ELSE d
              [] next = "live" -> [w EXCEPT !.polling = FALSE, !.safety = w.leader]
              [] OTHER -> w

OpenStream(r) == [r EXCEPT !.source = "opening"]

Schedule(r) == [r EXCEPT !.due = TRUE]

\* Only a block whose token moved is fetched again.
ApplySnapshot(r, token) ==
    IF r.known = token THEN r ELSE Schedule([r EXCEPT !.known = token])

OnLeaderDemoted(r) ==
    [r EXCEPT !.leader = FALSE, !.source = "none", !.polling = FALSE, !.safety = FALSE]

-----------------------------------------------------------------------------
(* The channel between the tabs: what t posts, the other pages handle.  A  *)
(* message only schedules a refresh, sets a revision or names a state, and *)
(* is handled at once.                                                     *)

\* What a step of t makes of the tabs: its own record becomes r, and the other
\* running tabs make of the message what heard says.
Does(t, r, heard) ==
    tab' = [u \in Tabs |-> IF u = t THEN r ELSE IF Running(u) THEN heard[u] ELSE tab[u]]

\* A leader trusts its own state.
HearsState(r, next) == IF r.leader THEN r ELSE SetState(r, next)

\* t moves to a state; a leader tells the other tabs.
Moves(t, r, next) ==
    LET told == [u \in Tabs |-> IF r.leader /\ r.state # next THEN HearsState(tab[u], next) ELSE tab[u]]
    IN Does(t, SetState(r, next), told)

Troubled == trouble < MaxTrouble /\ trouble' = trouble + 1

-----------------------------------------------------------------------------
TabsInit ==
    /\ tab = [t \in Tabs |-> Blank]
    /\ lease = [holder |-> NoTab, live |-> FALSE]
    /\ version = 0
    /\ revision \in Tokens
    /\ missed = {}
    /\ trouble = 0

\* The server renders a page; its scripts have not run yet.
Load(t) ==
    /\ tab[t].page = "closed"
    /\ tab' = [tab EXCEPT ![t].page = "loaded", ![t].shown = version]
    /\ UNCHANGED <<lease, version, revision, missed, trouble>>

\* A leader answers with its snapshot, when it has one, and with its state.
Answered(r, leader) ==
    LET w == IF leader.snapshot = NotYet THEN r
             ELSE ApplySnapshot([r EXCEPT !.asking = FALSE], leader.snapshot)
    IN HearsState(w, leader.state)

\* The scripts start: a tab that sees a leader asks it for its snapshot, one
\* that sees none stands for election.
StartCoordinated(t) ==
    /\ tab[t].page = "loaded"
    /\ LET r == [tab[t] EXCEPT !.page = "running", !.asking = LeasedToAnother(t),
                               !.standing = ~lease.live]
           asked == {u \in Tabs : r.asking /\ Running(u) /\ tab[u].leader}
       IN IF asked = {} THEN Does(t, r, tab)
          ELSE \E u \in asked : Does(t, Answered(r, tab[u]), tab)
    /\ UNCHANGED <<lease, version, revision, missed, trouble>>

\* Mutant: the lease is renewed whoever holds it.
RenewsAnyway(t) ==
    /\ Running(t) /\ tab[t].leader
    /\ lease' = [holder |-> t, live |-> TRUE]
    /\ UNCHANGED <<tab, version, revision, missed, trouble>>

\* The heartbeat of a leader: it renews its lease, or steps down before another's.
Renew(t) ==
    /\ Running(t) /\ tab[t].leader
    /\ IF LeasedToAnother(t)
       THEN /\ Does(t, OnLeaderDemoted(tab[t]), tab)
            /\ UNCHANGED lease
       ELSE /\ lease' = [holder |-> t, live |-> TRUE]
            /\ UNCHANGED tab
    /\ UNCHANGED <<version, revision, missed, trouble>>

\* The heartbeat of a follower: without a live lease it stands.
Stand(t) ==
    /\ Running(t) /\ ~tab[t].leader /\ ~lease.live
    /\ ~tab[t].standing
    /\ tab' = [tab EXCEPT ![t].standing = TRUE]
    /\ UNCHANGED <<lease, version, revision, missed, trouble>>

\* After a short delay it looks again, and gives way to a live lease.
GiveWay(t) ==
    /\ Running(t) /\ tab[t].standing /\ lease.live
    /\ tab' = [tab EXCEPT ![t].standing = FALSE]
    /\ UNCHANGED <<lease, version, revision, missed, trouble>>

\* It leads otherwise.  Nothing holds the storage between its look and its
\* write, so that it may also write over a lease just taken.
BecomeLeader(t) ==
    /\ Running(t) /\ tab[t].standing
    /\ LET r == [tab[t] EXCEPT !.standing = FALSE, !.leader = TRUE, !.asking = FALSE]
       IN Moves(t, OpenStream(r), "connecting")
    /\ lease' = [holder |-> t, live |-> TRUE]
    /\ UNCHANGED <<version, revision, missed, trouble>>

\* A lease runs out: its holder is gone, or late.
LeaseRunsOut ==
    /\ lease.live
    /\ IF Running(lease.holder) /\ tab[lease.holder].leader THEN Troubled ELSE UNCHANGED trouble
    /\ lease' = [lease EXCEPT !.live = FALSE]
    /\ UNCHANGED <<tab, version, revision, missed>>

-----------------------------------------------------------------------------
(* The stream. *)

\* The response begins before the server has subscribed to the channel.
StreamOpens(t) ==
    /\ Running(t) /\ tab[t].source = "opening"
    /\ Moves(t, Schedule(RunSync([tab[t] EXCEPT !.source = "open", !.polling = FALSE])), "live")
    /\ UNCHANGED <<lease, version, revision, missed, trouble>>

Subscribed(t) ==
    /\ Running(t) /\ tab[t].source = "open"
    /\ tab' = [tab EXCEPT ![t].source = "subscribed"]
    /\ UNCHANGED <<lease, version, revision, missed, trouble>>

\* The stream ends (its lifetime, Redis, the network); the browser reconnects.
StreamDrops(t) ==
    /\ Running(t) /\ tab[t].source \in {"open", "subscribed"}
    /\ Troubled
    /\ LET r == [tab[t] EXCEPT !.source = "opening"]
       IN IF r.state = "live" THEN Moves(t, r, "connecting") ELSE Does(t, r, tab)
    /\ UNCHANGED <<lease, version, revision, missed>>

\* The answer is an error: the browser gives the stream up.
StreamRefused(t) ==
    /\ Running(t) /\ tab[t].source = "opening"
    /\ Troubled
    /\ Moves(t, [tab[t] EXCEPT !.source = "none"], "degraded")
    /\ UNCHANGED <<lease, version, revision, missed>>

\* No open within degradedAfterSeconds.
Degrade(t) ==
    /\ Running(t) /\ tab[t].source = "opening" /\ tab[t].state = "connecting"
    /\ Moves(t, tab[t], "degraded")
    /\ UNCHANGED <<lease, version, revision, missed, trouble>>

\* A change commits and its event is published: any of the subscribed streams
\* may miss it, and a failed publication is logged and swallowed.  A tab the
\* event reaches refreshes its block and forwards it.
Change ==
    /\ version < MaxVersion
    /\ version' = version + 1
    /\ \E reached \in SUBSET {t \in Tabs : Running(t) /\ tab[t].source = "subscribed"} :
          tab' = [t \in Tabs |-> IF reached # {} /\ Running(t)
                                THEN Schedule(tab[t]) ELSE tab[t]]
    /\ UNCHANGED <<lease, revision, missed, trouble>>

-----------------------------------------------------------------------------
(* Comparing revisions. *)

PollTick(t) ==
    /\ Running(t) /\ tab[t].polling /\ tab[t].sync = NotYet
    /\ tab' = [tab EXCEPT ![t] = RunSync(@)]
    /\ UNCHANGED <<lease, version, revision, missed, trouble>>

\* Mutant: due only as long as no comparison ever succeeded.
OnlyFirstIsDue(t) ==
    /\ Running(t) /\ tab[t].safety /\ tab[t].sync = NotYet
    /\ tab[t].state = "live" /\ tab[t].leader /\ tab[t].snapshot = NotYet
    /\ tab' = [tab EXCEPT ![t] = RunSync(@)]
    /\ UNCHANGED <<lease, version, revision, missed, trouble>>

\* The rare comparison of a stream that looks healthy.
SafetyTick(t) ==
    /\ Running(t) /\ tab[t].safety /\ tab[t].sync = NotYet
    /\ tab[t].state = "live" /\ tab[t].leader
    /\ tab' = [tab EXCEPT ![t] = RunSync(@)]
    /\ UNCHANGED <<lease, version, revision, missed, trouble>>

\* A snapshot is forwarded only when it moved something here.
SyncArrives(t) ==
    /\ Running(t) /\ tab[t].sync # NotYet
    /\ \E v \in tab[t].sync..version :
          LET token == revision[v]
              r == [tab[t] EXCEPT !.sync = NotYet, !.snapshot = token]
              forwarded == [u \in Tabs |-> IF r.known # token THEN ApplySnapshot(tab[u], token) ELSE tab[u]]
          IN Does(t, ApplySnapshot(r, token), forwarded)
    /\ UNCHANGED <<lease, version, revision, missed, trouble>>

SyncFails(t) ==
    /\ Running(t) /\ tab[t].sync # NotYet
    /\ Troubled
    /\ tab' = [tab EXCEPT ![t].sync = NotYet]
    /\ UNCHANGED <<lease, version, revision, missed>>

\* The leader never answered: one comparison of the tab's own.
HandshakeTimesOut(t) ==
    /\ Running(t) /\ tab[t].asking
    /\ tab' = [tab EXCEPT ![t] = RunSync([@ EXCEPT !.asking = FALSE])]
    /\ UNCHANGED <<lease, version, revision, missed, trouble>>

-----------------------------------------------------------------------------
(* The refresh of the block.  Only the newest request may write, and the   *)
(* server reads at some point between its sending and its answer: one step *)
(* stands for both.                                                        *)

Refresh(t) ==
    /\ Running(t) /\ tab[t].due
    /\ tab' = [tab EXCEPT ![t].due = FALSE, ![t].shown = version]
    /\ missed' = missed \ {t}
    /\ UNCHANGED <<lease, version, revision, trouble>>

\* The request fails: the block stays as it is, and nothing asks again.
RefreshFails(t) ==
    /\ Running(t) /\ tab[t].due
    /\ Troubled
    /\ tab' = [tab EXCEPT ![t].due = FALSE]
    /\ missed' = missed \union {t}
    /\ UNCHANGED <<lease, version, revision>>

-----------------------------------------------------------------------------
Gone(t) ==
    /\ tab' = [tab EXCEPT ![t] = [Blank EXCEPT !.page = "gone"]]

\* The page is closed, or its session is over: it releases its lease.
Release(t) ==
    /\ Running(t) /\ Troubled
    /\ Gone(t)
    /\ lease' = IF lease.holder = t THEN [holder |-> NoTab, live |-> FALSE] ELSE lease
    /\ UNCHANGED <<version, revision, missed>>

\* The browser discards the page: nothing is released.
Discard(t) ==
    /\ Running(t) /\ Troubled
    /\ Gone(t)
    /\ UNCHANGED <<lease, version, revision, missed>>

Handlers(t) ==
    \/ StartCoordinated(t) \/ Renew(t) \/ Stand(t) \/ GiveWay(t) \/ BecomeLeader(t)
    \/ Degrade(t) \/ PollTick(t) \/ SafetyTick(t)
    \/ SyncArrives(t) \/ HandshakeTimesOut(t)
    \/ Refresh(t)

TabsNext ==
    \/ Change \/ LeaseRunsOut
    \/ \E t \in Tabs :
          \/ Load(t) \/ Handlers(t)
          \/ StreamOpens(t) \/ Subscribed(t) \/ StreamDrops(t) \/ StreamRefused(t)
          \/ SyncFails(t) \/ RefreshFails(t)
          \/ Release(t) \/ Discard(t)

\* Every timer of a running page fires, every request is answered or fails,
\* which MaxTrouble bounds.  A stream need never open, nor an event arrive.
Fairness ==
    /\ WF_tabsVars(LeaseRunsOut /\ UNCHANGED trouble)
    /\ \A t \in Tabs :
          /\ WF_tabsVars(StartCoordinated(t))
          /\ WF_tabsVars(Renew(t)) /\ WF_tabsVars(Stand(t))
          /\ WF_tabsVars(GiveWay(t) \/ BecomeLeader(t))
          /\ WF_tabsVars(Degrade(t)) /\ WF_tabsVars(PollTick(t)) /\ WF_tabsVars(SafetyTick(t))
          /\ WF_tabsVars(SyncArrives(t))
          /\ WF_tabsVars(HandshakeTimesOut(t))
          /\ WF_tabsVars(Refresh(t))

TabsSpec == TabsInit /\ [][TabsNext]_tabsVars /\ Fairness

-----------------------------------------------------------------------------
(* Properties                                                               *)

\* Every request loop and every stream belongs to a leader, and a leader recovers
\* in one way at a time: fallback polling or the safety comparison, never both.
\* A demoted tab stops both, a follower that hears of a degraded leader starts
\* neither (static/js/realtime/sync.js).
RecoveryHasOneOwner ==
    \A t \in Tabs :
        /\ tab[t].polling \/ tab[t].safety \/ tab[t].source # "none" => tab[t].leader
        /\ ~(tab[t].polling /\ tab[t].safety)

\* A page is behind, and its token tells: the server's is none of those it had
\* until then.
Stale(t) ==
    /\ Running(t) /\ tab[t].known # NotYet
    /\ \A v \in 0..tab[t].shown : revision[v] # revision[version]

\* Whatever the stream lost, a page that has compared revisions once ends up
\* showing the server's state, unless its last fragment request failed or the
\* changes it missed left the server with a token it had before.
CatchesUp == \A t \in Tabs : Stale(t) ~> ~Stale(t) \/ t \in missed

\* In the end exactly one of the open pages leads.
OneLeaderInTheEnd ==
    <>[]((\E t \in Tabs : Running(t))
            => \E t \in Tabs : tab[t].leader /\ \A u \in Tabs \ {t} : ~tab[u].leader)
=============================================================================
