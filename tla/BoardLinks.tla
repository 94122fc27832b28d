----------------------------- MODULE BoardLinks -----------------------------
(***************************************************************************)
(* The cards that wait for each other, on one board or on several:         *)
(* BLOCKS links of boards/services.py, and the message to whoever may      *)
(* start because the last blocker was closed.  A call locks the boards of  *)
(* the cards it writes, one row after the other, and what it reads of      *)
(* other boards is whatever is committed by then (PostgreSQL's READ        *)
(* COMMITTED): calls about cards of different boards interleave.  The      *)
(* other kinds of links change nothing of that.                            *)
(***************************************************************************)
EXTENDS Naturals, Sequences, BoardNames

CONSTANTS
    Home,          \* the board of each card: a number, its primary key
    Calls,         \* the requests the server works on at a time
    MaxCalls       \* bound on the calls ever made

ASSUME LinkAssumption ==
    /\ Home \in [Cards -> Nat]
    /\ MaxCalls \in Nat
    /\ None \notin Cards \cup Calls

Boards == {Home[c] : c \in Cards}
Ops    == {"close", "reopen", "link", "unlink"}
Deeds  == [op : Ops, from : Cards, to : Cards \cup {None}]

VARIABLES
    open,      \* cards whose task is in work, as committed
    blocks,    \* pairs <<blocker, blocked>>, as committed
    call,      \* what each call does, with which cards, which locks it wants yet
    holder,    \* who holds the lock of each board
    news,      \* what each card heard since it last waited
    made       \* calls ever made

vars == <<open, blocks, call, holder, news, made>>

Idle == [op |-> "none", from |-> None, to |-> None, wants |-> <<>>,
         read |-> FALSE, tell |-> {}, raced |-> {}]

-----------------------------------------------------------------------------
\* open_blockers_q
Waits(c, openNow, blocksNow) == \E b \in openNow : <<b, c>> \in blocksNow

\* Mutant: only the board of the card the person is on is locked.
OwnBoardOnly(own, other) == <<Home[own]>>

\* _lock_link_cards: the boards in the order of their keys, each once.
BoardsOf(own, other) ==
    IF Home[own] = Home[other] THEN <<Home[own]>>
    ELSE IF Home[own] < Home[other] THEN <<Home[own], Home[other]>>
    ELSE <<Home[other], Home[own]>>

Start(t, op, from, to, wants) ==
    /\ call[t].op = "none"
    /\ made < MaxCalls /\ made' = made + 1
    /\ call' = [call EXCEPT ![t] = [Idle EXCEPT !.op = op, !.from = from, !.to = to, !.wants = wants]]
    /\ UNCHANGED <<open, blocks, holder, news>>

\* complete_card, cancel_card, reopen_card: the lock of the card's own board
StartCard(t, op, c) == Start(t, op, c, None, <<Home[c]>>)

\* link_cards, unlink_cards: from the page of either card.
StartLink(t, op, from, to) ==
    /\ from # to
    /\ \E own \in {from, to} : Start(t, op, from, to, BoardsOf(own, IF own = from THEN to ELSE from))

\* _lock_board
Lock(t) ==
    /\ call[t].wants # <<>>
    /\ holder[Head(call[t].wants)] = None
    /\ holder' = [holder EXCEPT ![Head(call[t].wants)] = t]
    /\ call' = [call EXCEPT ![t].wants = Tail(@)]
    /\ UNCHANGED <<open, blocks, news, made>>

Working(t, op) == call[t].op = op /\ call[t].wants = <<>>

Released(t) == [b \in Boards |-> IF holder[b] = t THEN None ELSE holder[b]]

\* What t is about to have done
Deed(t) == [op |-> call[t].op, from |-> call[t].from, to |-> call[t].to]

\* What was done since a closing read, about c itself: another of its blockers
\* was closed or unlinked, or c was taken back into work.
About(c, deed, blocksNow) ==
    \/ deed.op = "close" /\ <<deed.from, c>> \in blocksNow
    \/ deed.op = "unlink" /\ deed.to = c
    \/ deed.op = "reopen" /\ deed.from = c

\* What c, which waited, knows once t has committed and it waits no more.  Who
\* takes the last link away looks at the card himself.
Heard(t, c, openNow, blocksNow, tell) ==
    IF c \in tell THEN "told"
    ELSE IF c \notin openNow \/ call[t].op = "unlink" THEN "free"
    ELSE IF \E deed \in call[t].raced : About(c, deed, blocksNow) THEN "raced"
    ELSE "missed"

NewsAfter(t, openNow, blocksNow, tell) ==
    [c \in Cards |-> IF Waits(c, openNow, blocksNow) THEN "waiting"
                     ELSE IF news[c] = "waiting" THEN Heard(t, c, openNow, blocksNow, tell)
                     ELSE news[c]]

\* t commits: whoever has read before that has read something else.
Commit(t, openNow, blocksNow, tell) ==
    /\ open' = openNow
    /\ blocks' = blocksNow
    /\ news' = NewsAfter(t, openNow, blocksNow, tell)
    /\ holder' = Released(t)
    /\ call' = [u \in Calls |-> IF u = t THEN Idle
                                ELSE [call[u] EXCEPT !.raced = IF call[u].read THEN @ \cup {Deed(t)} ELSE @]]
    /\ UNCHANGED made

\* A call that is refused changes nothing.
Refuse(t) ==
    /\ holder' = Released(t)
    /\ call' = [call EXCEPT ![t] = Idle]
    /\ UNCHANGED <<open, blocks, news, made>>

\* Mutant: the card that is being closed is still counted.
StillWaiting(c) ==
    {b \in open : <<c, b>> \in blocks /\ ~Waits(b, open, blocks)}

\* _after_blocker_closed: c is closed for the call that closes it.
ToTell(c) ==
    {b \in open \ {c} : <<c, b>> \in blocks /\ ~Waits(b, open \ {c}, blocks)}

\* complete_card, cancel_card up to the commit
ReadBlocked(t) ==
    /\ Working(t, "close") /\ ~call[t].read
    /\ call[t].from \in open
    /\ call' = [call EXCEPT ![t].read = TRUE, ![t].tell = ToTell(call[t].from)]
    /\ UNCHANGED <<open, blocks, holder, news, made>>

CommitClose(t) ==
    /\ Working(t, "close") /\ call[t].read
    /\ Commit(t, open \ {call[t].from}, blocks, call[t].tell)

\* reopen_card tells nobody.
CommitReopen(t) ==
    /\ Working(t, "reopen")
    /\ call[t].from \notin open
    /\ Commit(t, open \cup {call[t].from}, blocks, {})

Link(t) == <<call[t].from, call[t].to>>
Reverse(t) == <<call[t].to, call[t].from>>

\* link_cards looks for the link and for its reverse, and then writes.
ReadLinks(t) ==
    /\ Working(t, "link") /\ ~call[t].read
    /\ blocks \cap {Link(t), Reverse(t)} = {}
    /\ call' = [call EXCEPT ![t].read = TRUE]
    /\ UNCHANGED <<open, blocks, holder, news, made>>

CommitLink(t) ==
    /\ Working(t, "link") /\ call[t].read
    /\ Commit(t, open, blocks \cup {Link(t)}, {})

CommitUnlink(t) ==
    /\ Working(t, "unlink")
    /\ Link(t) \in blocks
    /\ Commit(t, open, blocks \ {Link(t)}, {})

\* The task is closed already or not closed, the link is there or is gone, or
\* the cards wait the other way round.
RefuseCall(t) ==
    /\ \/ Working(t, "close") /\ ~call[t].read /\ call[t].from \notin open
       \/ Working(t, "reopen") /\ call[t].from \in open
       \/ Working(t, "link") /\ ~call[t].read /\ blocks \cap {Link(t), Reverse(t)} # {}
       \/ Working(t, "unlink") /\ Link(t) \notin blocks
    /\ Refuse(t)

Init ==
    /\ open = Cards
    /\ blocks = {}
    /\ call = [t \in Calls |-> Idle]
    /\ holder = [b \in Boards |-> None]
    /\ news = [c \in Cards |-> "free"]
    /\ made = 0

Next ==
    \/ \E t \in Calls, c, d \in Cards :
          \/ StartCard(t, "close", c) \/ StartCard(t, "reopen", c)
          \/ StartLink(t, "link", c, d) \/ StartLink(t, "unlink", c, d)
    \/ \E t \in Calls :
          \/ Lock(t)
          \/ ReadBlocked(t) \/ CommitClose(t) \/ CommitReopen(t)
          \/ ReadLinks(t) \/ CommitLink(t) \/ CommitUnlink(t) \/ RefuseCall(t)

Spec == Init /\ [][Next]_vars

-----------------------------------------------------------------------------
(* Properties                                                               *)

TypeOK ==
    /\ open \subseteq Cards
    /\ blocks \subseteq Cards \X Cards
    /\ call \in [Calls -> [op : Ops \cup {"none"}, from : Cards \cup {None}, to : Cards \cup {None},
                           wants : Seq(Boards), read : BOOLEAN, tell : SUBSET Cards, raced : SUBSET Deeds]]
    /\ holder \in [Boards -> Calls \cup {None}]
    /\ news \in [Cards -> {"free", "waiting", "told", "raced", "missed"}]
    /\ made \in Nat

\* No two cards wait for each other, though two people may link them at once,
\* each from his card (link_cards).
NeverMutual == \A c, d \in Cards : <<c, d>> \in blocks => <<d, c>> \notin blocks

\* No two calls wait for each other's boards (_lock_link_cards).
NoCircularWait ==
    \A t, u \in Calls :
        ~ /\ t # u
          /\ call[t].wants # <<>> /\ holder[Head(call[t].wants)] = u
          /\ call[u].wants # <<>> /\ holder[Head(call[u].wants)] = t

\* Nothing waits in a circle of two: neither the cards, though two people may
\* link them at once, each from his card, nor the calls that hold the boards
\* for it (link_cards, _lock_link_cards).
NothingWaitsInACircle == NeverMutual /\ NoCircularWait

\* A card in work that waited hears it when its last blocker is closed, unless
\* between what this closing read and its own commit another one of the card's
\* blockers was closed or unlinked, or the card taken back into work: whatever
\* else went on between them, about other cards, keeps nobody from hearing
\* (_after_blocker_closed).
ToldWhenTheLastCloses == \A c \in open : news[c] # "missed"

=============================================================================
