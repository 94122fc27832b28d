---------------------------- MODULE Boards_proofs ----------------------------
(***************************************************************************)
(* What holds of boards and of the pages that show them, for any number of *)
(* cards, boards, calls, fields, requests and pages.                       *)
(*                                                                         *)
(* Cards that wait for each other (BoardLinks): it all rests on what a     *)
(* call that works has locked, the boards of the cards it writes.  Fields  *)
(* and requests (BoardRequests): a value fits its field, and what an       *)
(* archived option or another kind may do to it is asked before.  Open     *)
(* pages (LiveTabs): every handler leaves its record owned, and the token  *)
(* a page holds is one the server had by the state the page shows, unless  *)
(* its block is due or could not be fetched.                               *)
(***************************************************************************)
EXTENDS BoardLinks, BoardRequests, LiveTabs, FiniteSetTheorems, TLAPS

-----------------------------------------------------------------------------
(* Cards that wait for each other (BoardLinks).                             *)

CallState ==
    [op : Ops \cup {"none"}, from : Cards \cup {None}, to : Cards \cup {None},
     wants : Seq(Boards), read : BOOLEAN, tell : SUBSET Cards, raced : SUBSET Deeds]

\* The board of a card a call writes is held, or is still to be locked.
Covers(t, c) ==
    \/ holder[Home[c]] = t
    \/ \E i \in DOMAIN call[t].wants : call[t].wants[i] = Home[c]

\* What a call names, and what it locks, by what it does.
Locks ==
    \A t \in Calls :
        /\ call[t].op # "none" => call[t].from \in Cards /\ Covers(t, call[t].from)
        /\ call[t].op \in {"link", "unlink"} =>
              call[t].to \in Cards /\ call[t].from # call[t].to /\ Covers(t, call[t].to)
        /\ call[t].read => call[t].wants = <<>>

\* Whatever a call still wants comes after what it holds, in order.
Ordered ==
    \A t \in Calls :
        /\ \A i, j \in DOMAIN call[t].wants : i < j => call[t].wants[i] < call[t].wants[j]
        /\ \A b \in Boards : holder[b] = t => \A i \in DOMAIN call[t].wants : b < call[t].wants[i]
        /\ call[t].op = "none" => call[t].wants = <<>> /\ \A b \in Boards : holder[b] # t

\* A call that looked for its link and for the reverse still finds neither.
LinkIsNew ==
    \A t \in Calls : call[t].op = "link" /\ call[t].read => blocks \cap {Link(t), Reverse(t)} = {}

\* The news of a card say whether it waits.
NewsOfWaiting == \A c \in Cards : news[c] = "waiting" <=> Waits(c, open, blocks)

\* Once x is closed c waits for nobody, as far as it waits for x now.
FreedBy(x, c, openNow, blocksNow) ==
    /\ c \in openNow \ {x}
    /\ <<x, c>> \in blocksNow
    /\ ~Waits(c, openNow \ {x}, blocksNow)

\* A closing since whose reading nothing was done about c tells c when it is free.
TellsThose(u, openNow, blocksNow) ==
    \A c \in Cards :
        /\ FreedBy(call[u].from, c, openNow, blocksNow)
        /\ \A deed \in call[u].raced : ~About(c, deed, blocksNow)
        => c \in call[u].tell

TellsTheFree ==
    \A u \in Calls : call[u].op = "close" /\ call[u].read => TellsThose(u, open, blocks)

\* Nobody ever missed it, whether or not the card is in work now.
NeverMissed == \A c \in Cards : news[c] # "missed"

IInv ==
    /\ TypeOK
    /\ Locks
    /\ Ordered
    /\ LinkIsNew
    /\ NewsOfWaiting
    /\ TellsTheFree
    /\ NeverMutual
    /\ NeverMissed

-----------------------------------------------------------------------------
\* A call that works and writes a card holds its board.
LEMMA HoldsTheBoard ==
    ASSUME Locks, NEW t \in Calls, call[t].wants = <<>>
    PROVE  /\ call[t].op # "none" => call[t].from \in Cards /\ holder[Home[call[t].from]] = t
           /\ call[t].op \in {"link", "unlink"} =>
                 /\ call[t].to \in Cards /\ holder[Home[call[t].to]] = t
                 /\ call[t].from # call[t].to
BY DEF Locks, Covers

\* The boards of two cards, in order.
LEMMA BoardsInOrder ==
    ASSUME NEW own \in Cards, NEW other \in Cards
    PROVE  /\ BoardsOf(own, other) \in Seq(Boards)
           /\ \A i, j \in DOMAIN BoardsOf(own, other) :
                 i < j => BoardsOf(own, other)[i] < BoardsOf(own, other)[j]
           /\ \E i \in DOMAIN BoardsOf(own, other) : BoardsOf(own, other)[i] = Home[own]
           /\ \E i \in DOMAIN BoardsOf(own, other) : BoardsOf(own, other)[i] = Home[other]
<1> DEFINE s == BoardsOf(own, other)
<1>1. Home[own] \in Boards /\ Home[other] \in Boards /\ Home[own] \in Nat /\ Home[other] \in Nat
  BY LinkAssumption DEF Boards
<1>2. CASE Home[own] = Home[other]
  <2>1. s = <<Home[own]>>
    BY <1>2 DEF BoardsOf
  <2> HIDE DEF s
  <2> QED
    BY <1>1, <1>2, <2>1, SMT DEF s
<1>3. CASE Home[own] < Home[other]
  <2>1. s = <<Home[own], Home[other]>>
    BY <1>1, <1>3, SMT DEF BoardsOf
  <2>2. DOMAIN s = {1, 2} /\ s \in Seq(Boards) /\ s[1] = Home[own] /\ s[2] = Home[other]
    BY <1>1, <2>1, SMT
  <2> HIDE DEF s
  <2>3. \A i, j \in DOMAIN s : i < j => s[i] < s[j]
    BY <1>1, <1>3, <2>2, SMT
  <2> QED
    BY <2>2, <2>3 DEF s
<1>4. CASE Home[other] < Home[own]
  <2>1. s = <<Home[other], Home[own]>>
    BY <1>1, <1>4, SMT DEF BoardsOf
  <2>2. DOMAIN s = {1, 2} /\ s \in Seq(Boards) /\ s[1] = Home[other] /\ s[2] = Home[own]
    BY <1>1, <2>1, SMT
  <2> HIDE DEF s
  <2>3. \A i, j \in DOMAIN s : i < j => s[i] < s[j]
    BY <1>1, <1>4, <2>2, SMT
  <2> QED
    BY <2>2, <2>3 DEF s
<1> QED
  BY <1>1, <1>2, <1>3, <1>4, SMT

\* No two calls that each hold a board and want the other's.
LEMMA NobodyWaitsInACircle == ASSUME TypeOK, Ordered PROVE NoCircularWait
<1> SUFFICES ASSUME NEW t \in Calls, NEW u \in Calls, t # u,
                    call[t].wants # <<>>, holder[Head(call[t].wants)] = u,
                    call[u].wants # <<>>, holder[Head(call[u].wants)] = t
             PROVE  FALSE
  BY DEF NoCircularWait
<1> DEFINE a == Head(call[t].wants)
           b == Head(call[u].wants)
<1>1. call[t].wants \in Seq(Boards) /\ call[u].wants \in Seq(Boards)
  BY DEF TypeOK
<1>2. /\ a \in Boards /\ b \in Boards
      /\ 1 \in DOMAIN call[t].wants /\ call[t].wants[1] = a
      /\ 1 \in DOMAIN call[u].wants /\ call[u].wants[1] = b
  BY <1>1
<1>3. b < a /\ a < b
  BY <1>2 DEF Ordered
<1>4. a \in Nat /\ b \in Nat
  BY <1>2, LinkAssumption DEF Boards
<1> QED
  BY <1>3, <1>4, SMT

-----------------------------------------------------------------------------
LEMMA IdleIsACall == Idle \in CallState /\ Idle.op = "none" /\ Idle.wants = <<>> /\ ~Idle.read
BY DEF Idle, CallState

\* A call that knows what it knew, of cards that stand as they stood.
LEMMA TellsAsBefore ==
    ASSUME NEW u \in Calls, TellsThose(u, open, blocks), open' = open, blocks' = blocks,
           call'[u].from = call[u].from, call'[u].raced = call[u].raced, call'[u].tell = call[u].tell
    PROVE  TellsThose(u, open, blocks)'
BY DEF TellsThose, FreedBy, Waits, About

\* A step of the calls only, that takes no part of what others wait for.
LEMMA CallsOnly ==
    ASSUME IInv, call' \in [Calls -> CallState], holder' \in [Boards -> Calls \cup {None}],
           made' \in Nat, Locks', Ordered', UNCHANGED <<open, blocks, news>>,
           \A t \in Calls : call'[t].op = "link" /\ call'[t].read =>
              blocks \cap {Link(t)', Reverse(t)'} = {},
           \A u \in Calls : call'[u].op = "close" /\ call'[u].read => TellsThose(u, open, blocks)'
    PROVE  IInv'
<1>1. TypeOK'
  BY DEF IInv, TypeOK, CallState
<1>2. NeverMutual' /\ NeverMissed'
  BY DEF IInv, NeverMutual, NeverMissed
<1>3. NewsOfWaiting'
  BY DEF IInv, NewsOfWaiting, Waits
<1>4. LinkIsNew'
  BY DEF LinkIsNew
<1>5. TellsTheFree'
  BY DEF TellsTheFree
<1> QED
  BY <1>1, <1>2, <1>3, <1>4, <1>5 DEF IInv

LEMMA StartKeeps ==
    ASSUME IInv, NEW t \in Calls, NEW op \in Ops, NEW from \in Cards, NEW to \in Cards \cup {None},
           NEW wants \in Seq(Boards), Start(t, op, from, to, wants),
           \A i, j \in DOMAIN wants : i < j => wants[i] < wants[j],
           \E i \in DOMAIN wants : wants[i] = Home[from],
           op \in {"link", "unlink"} =>
              to \in Cards /\ from # to /\ \E i \in DOMAIN wants : wants[i] = Home[to]
    PROVE  IInv'
<1> DEFINE k == [Idle EXCEPT !.op = op, !.from = from, !.to = to, !.wants = wants]
<1>1. /\ call' = [call EXCEPT ![t] = k] /\ call[t].op = "none" /\ made' \in Nat
      /\ UNCHANGED <<open, blocks, holder, news>>
      /\ TypeOK /\ Locks /\ Ordered
  BY DEF Start, IInv, TypeOK
<1>2. /\ k \in CallState /\ k.op = op /\ k.from = from /\ k.to = to /\ k.wants = wants /\ ~k.read
  BY DEF Idle, CallState
<1> HIDE DEF k
<1>3. /\ call \in [Calls -> CallState]
      /\ call' \in [Calls -> CallState] /\ call'[t] = k /\ \A u \in Calls \ {t} : call'[u] = call[u]
  BY <1>1, <1>2 DEF TypeOK, CallState
<1>4. Locks'
  <2>1. ASSUME NEW c \in Cards, \E i \in DOMAIN wants : wants[i] = Home[c] PROVE Covers(t, c)'
    BY <1>2, <1>3, <2>1 DEF Covers
  <2>2. ASSUME NEW u \in Calls \ {t}, NEW c, Covers(u, c) PROVE Covers(u, c)'
    BY <1>1, <1>3, <2>2 DEF Covers
  <2>3. ASSUME NEW u \in Calls, NEW c \in Cards,
               \/ c = call'[u].from /\ call'[u].op # "none"
               \/ c = call'[u].to /\ call'[u].op \in {"link", "unlink"}
        PROVE  Covers(u, c)'
    <3>1. CASE u = t
      BY <1>2, <1>3, <2>1, <2>3, <3>1
    <3>2. CASE u # t
      BY <1>1, <1>3, <2>2, <2>3, <3>2 DEF Locks
    <3> QED
      BY <3>1, <3>2
  <2>4. \A u \in Calls :
           /\ call'[u].op # "none" => call'[u].from \in Cards
           /\ call'[u].op \in {"link", "unlink"} => call'[u].to \in Cards /\ call'[u].from # call'[u].to
           /\ call'[u].read => call'[u].wants = <<>>
    BY <1>1, <1>2, <1>3 DEF Locks
  <2> QED
    BY <2>3, <2>4 DEF Locks
<1>5. Ordered'
  <2>1. \A b \in Boards : holder[b] # t
    BY <1>1 DEF Ordered
  <2>2. op # "none"
    BY DEF Ops
  <2> QED
    BY <1>1, <1>2, <1>3, <2>1, <2>2 DEF Ordered
<1>6. \A u \in Calls : call'[u].read => u # t /\ call'[u] = call[u]
  BY <1>2, <1>3
<1>7. \A u \in Calls : call'[u].op = "close" /\ call'[u].read => TellsThose(u, open, blocks)'
  BY <1>1, <1>6, TellsAsBefore DEF IInv, TellsTheFree
<1> QED
  BY <1>1, <1>3, <1>4, <1>5, <1>6, <1>7, CallsOnly DEF IInv, TypeOK, LinkIsNew, Link, Reverse

LEMMA LockKeeps ==
    ASSUME IInv, NEW t \in Calls, Lock(t)
    PROVE  IInv'
<1> DEFINE b == Head(call[t].wants)
           k == [call[t] EXCEPT !.wants = Tail(@)]
<1>1. /\ call' = [call EXCEPT ![t] = k] /\ call[t].wants # <<>> /\ holder[b] = None
      /\ holder' = [holder EXCEPT ![b] = t]
      /\ UNCHANGED <<open, blocks, news, made>>
      /\ TypeOK /\ Locks /\ Ordered
  BY DEF Lock, IInv
<1>2. call \in [Calls -> CallState] /\ call[t] \in CallState /\ call[t].wants \in Seq(Boards)
  BY <1>1 DEF TypeOK, CallState
<1>3. /\ k \in CallState /\ k.op = call[t].op /\ k.from = call[t].from /\ k.to = call[t].to
      /\ k.wants = Tail(call[t].wants) /\ k.read = call[t].read /\ b \in Boards
      /\ k.raced = call[t].raced /\ k.tell = call[t].tell
  <2>1. Tail(call[t].wants) \in Seq(Boards) /\ b \in Boards
    BY <1>1, <1>2
  <2> QED
    BY <1>2, <2>1 DEF CallState
<1>4. /\ \A i \in DOMAIN call[t].wants : call[t].wants[i] = b \/ \E j \in DOMAIN k.wants : k.wants[j] = call[t].wants[i]
      /\ \A j \in DOMAIN k.wants : /\ j + 1 \in DOMAIN call[t].wants
                                   /\ k.wants[j] = call[t].wants[j + 1]
      /\ 1 \in DOMAIN call[t].wants /\ b = call[t].wants[1]
  <2> DEFINE w == call[t].wants
  <2>1. w \in Seq(Boards) /\ w # <<>>
    BY <1>1, <1>2
  <2> HIDE DEF w
  <2>2. /\ DOMAIN w = 1 .. Len(w) /\ Len(w) \in Nat \ {0} /\ DOMAIN Tail(w) = 1 .. (Len(w) - 1)
        /\ \A j \in 1 .. (Len(w) - 1) : Tail(w)[j] = w[j + 1]
        /\ Head(w) = w[1]
    BY <2>1
  <2>3. \A j \in 1 .. (Len(w) - 1) : j + 1 \in DOMAIN w
    BY <2>2, SMT
  <2>4. ASSUME NEW i \in DOMAIN w PROVE w[i] = Head(w) \/ \E j \in DOMAIN Tail(w) : Tail(w)[j] = w[i]
    <3>1. i = 1 \/ (i - 1 \in 1 .. (Len(w) - 1) /\ (i - 1) + 1 = i)
      BY <2>2, <2>4, SMT
    <3> QED
      BY <2>2, <3>1
  <2> QED
    BY <1>3, <2>2, <2>3, <2>4, SMT DEF w
<1> HIDE DEF k, b
<1>5. /\ call' \in [Calls -> CallState] /\ call'[t] = k /\ \A u \in Calls \ {t} : call'[u] = call[u]
      /\ holder' \in [Boards -> Calls \cup {None}] /\ holder'[b] = t
      /\ \A o \in Boards \ {b} : holder'[o] = holder[o]
  BY <1>1, <1>2, <1>3 DEF TypeOK
<1>6. Locks'
  <2>1. ASSUME NEW u \in Calls, NEW c \in Cards, Covers(u, c) PROVE Covers(u, c)'
    <3>1. Home[c] \in Boards
      BY DEF Boards
    <3>2. CASE u = t
      BY <1>1, <1>4, <1>5, <2>1, <3>1, <3>2, LinkAssumption DEF Covers
    <3>3. CASE u # t
      BY <1>1, <1>5, <2>1, <3>1, <3>3, LinkAssumption DEF Covers
    <3> QED
      BY <3>2, <3>3
  <2>2. \A u \in Calls : /\ call'[u].op = call[u].op /\ call'[u].from = call[u].from
                         /\ call'[u].to = call[u].to /\ call'[u].read = call[u].read
                         /\ call'[u].read => call'[u].wants = <<>>
    BY <1>1, <1>3, <1>5 DEF Locks
  <2> QED
    BY <1>1, <2>1, <2>2 DEF Locks
<1>7. Ordered'
  <2>1. \A u \in Calls \ {t} : \A o \in Boards : holder'[o] = u => holder[o] = u
    BY <1>5
  <2>2. \A j \in DOMAIN k.wants : b < k.wants[j]
    <3>1. \A j \in DOMAIN k.wants : j \in Nat /\ 1 < j + 1
      BY <1>3, <1>2, SMT DEF CallState
    <3> QED
      BY <1>1, <1>4, <3>1 DEF Ordered
  <2>3. \A i, j \in DOMAIN k.wants : i < j => k.wants[i] < k.wants[j]
    <3>1. \A i, j \in DOMAIN k.wants : i < j => i + 1 < j + 1
      BY <1>3, <1>2, SMT DEF CallState
    <3> QED
      BY <1>1, <1>4, <3>1 DEF Ordered
  <2>4. \A o \in Boards : holder[o] = t => \A j \in DOMAIN k.wants : o < k.wants[j]
    BY <1>1, <1>4 DEF Ordered
  <2>5. call[t].op # "none"
    BY <1>1 DEF Ordered
  <2> QED
    <3>1. \A u \in Calls : \A i, j \in DOMAIN call'[u].wants :
             i < j => call'[u].wants[i] < call'[u].wants[j]
      BY <1>1, <1>5, <2>3 DEF Ordered
    <3>2. \A u \in Calls : \A o \in Boards : holder'[o] = u =>
             \A i \in DOMAIN call'[u].wants : o < call'[u].wants[i]
      <4>1. ASSUME NEW o \in Boards, holder'[o] = t
            PROVE  \A i \in DOMAIN k.wants : o < k.wants[i]
        BY <1>5, <2>2, <2>4, <4>1
      <4>2. ASSUME NEW u \in Calls \ {t}, NEW o \in Boards, holder'[o] = u
            PROVE  \A i \in DOMAIN call'[u].wants : o < call'[u].wants[i]
        BY <1>1, <1>5, <2>1, <4>2 DEF Ordered
      <4> QED
        BY <1>5, <4>1, <4>2
    <3>3. \A u \in Calls : call'[u].op = "none" =>
             call'[u].wants = <<>> /\ \A o \in Boards : holder'[o] # u
      BY <1>1, <1>3, <1>5, <2>1, <2>5 DEF Ordered
    <3> QED
      BY <3>1, <3>2, <3>3 DEF Ordered
<1>8. \A u \in Calls : /\ call'[u].op = call[u].op /\ call'[u].from = call[u].from
                       /\ call'[u].to = call[u].to /\ call'[u].read = call[u].read
                       /\ call'[u].raced = call[u].raced /\ call'[u].tell = call[u].tell
  BY <1>3, <1>5
<1>9. \A u \in Calls : call'[u].op = "link" /\ call'[u].read => blocks \cap {Link(u)', Reverse(u)'} = {}
  BY <1>8 DEF IInv, LinkIsNew, Link, Reverse
<1>10. made' \in Nat
  BY <1>1 DEF TypeOK
<1>11. \A u \in Calls : call'[u].op = "close" /\ call'[u].read => TellsThose(u, open, blocks)'
  BY <1>1, <1>8, TellsAsBefore DEF IInv, TellsTheFree
<1> QED
  BY <1>1, <1>5, <1>6, <1>7, <1>9, <1>10, <1>11, CallsOnly

\* A call that ends leaves the others what they hold and want.
LEMMA ReleasedKeeps ==
    ASSUME TypeOK, Locks, Ordered, NEW t \in Calls, holder' = Released(t),
           call' \in [Calls -> CallState], call'[t] = Idle,
           \A u \in Calls \ {t} : /\ call'[u].op = call[u].op /\ call'[u].from = call[u].from
                                  /\ call'[u].to = call[u].to /\ call'[u].wants = call[u].wants
                                  /\ call'[u].read = call[u].read
    PROVE  Locks' /\ Ordered' /\ holder' \in [Boards -> Calls \cup {None}]
<1>1. \A b \in Boards : \A u \in Calls \ {t} : holder'[b] = u <=> holder[b] = u
  BY LinkAssumption DEF Released
<1>2. \A b \in Boards : holder'[b] # t
  BY LinkAssumption DEF Released
<1>3. holder' \in [Boards -> Calls \cup {None}]
  BY DEF Released, TypeOK
<1>4. ASSUME NEW u \in Calls \ {t}, NEW c \in Cards, Covers(u, c) PROVE Covers(u, c)'
  BY <1>1, <1>4 DEF Covers, Boards
<1>5. \A u \in Calls : u # t \/ (call'[u].op = "none" /\ call'[u].wants = <<>> /\ ~call'[u].read)
  BY IdleIsACall
<1>6. Locks'
  <2>1. ASSUME NEW u \in Calls, NEW c \in Cards,
               \/ c = call'[u].from /\ call'[u].op # "none"
               \/ c = call'[u].to /\ call'[u].op \in {"link", "unlink"}
        PROVE  Covers(u, c)'
    BY <1>4, <1>5, <2>1 DEF Locks
  <2>2. \A u \in Calls :
           /\ call'[u].op # "none" => call'[u].from \in Cards
           /\ call'[u].op \in {"link", "unlink"} => call'[u].to \in Cards /\ call'[u].from # call'[u].to
           /\ call'[u].read => call'[u].wants = <<>>
    BY <1>5 DEF Locks
  <2> QED
    BY <2>1, <2>2 DEF Locks
<1>7. Ordered'
  BY <1>1, <1>2, <1>5 DEF Ordered
<1> QED
  BY <1>3, <1>6, <1>7

LEMMA RefuseKeeps == ASSUME IInv, NEW t \in Calls, Refuse(t) PROVE IInv'
<1>1. /\ holder' = Released(t) /\ call' = [call EXCEPT ![t] = Idle]
      /\ UNCHANGED <<open, blocks, news, made>> /\ TypeOK /\ Locks /\ Ordered
  BY DEF Refuse, IInv
<1>2. /\ call \in [Calls -> CallState] /\ call' \in [Calls -> CallState] /\ call'[t] = Idle
      /\ \A u \in Calls \ {t} : call'[u] = call[u]
  BY <1>1, IdleIsACall DEF TypeOK, CallState
<1>3. Locks' /\ Ordered' /\ holder' \in [Boards -> Calls \cup {None}]
  BY <1>1, <1>2, ReleasedKeeps
<1>4. \A u \in Calls : call'[u].read => call'[u] = call[u]
  BY <1>2, IdleIsACall
<1>5. \A u \in Calls : call'[u].op = "close" /\ call'[u].read => TellsThose(u, open, blocks)'
  BY <1>1, <1>4, TellsAsBefore DEF IInv, TellsTheFree
<1> QED
  BY <1>1, <1>2, <1>3, <1>4, <1>5, CallsOnly DEF IInv, TypeOK, LinkIsNew, Link, Reverse

\* A call that reads locks nothing and frees nothing.
LEMMA ReadsKeep ==
    ASSUME IInv, NEW t \in Calls, NEW k \in CallState, call' = [call EXCEPT ![t] = k],
           call[t].wants = <<>>, k.wants = call[t].wants, k.op = call[t].op,
           k.from = call[t].from, k.to = call[t].to,
           UNCHANGED <<open, blocks, holder, news, made>>,
           k.op = "link" => blocks \cap {Link(t), Reverse(t)} = {},
           \A c \in Cards : k.op = "close" /\ FreedBy(k.from, c, open, blocks) => c \in k.tell
    PROVE  IInv'
<1>1. /\ TypeOK /\ Locks /\ Ordered /\ LinkIsNew /\ TellsTheFree
  BY DEF IInv
<1>2. /\ call \in [Calls -> CallState] /\ call' \in [Calls -> CallState] /\ call'[t] = k
      /\ \A u \in Calls \ {t} : call'[u] = call[u]
  BY <1>1 DEF TypeOK, CallState
<1>3. \A u \in Calls : /\ call'[u].wants = call[u].wants /\ call'[u].op = call[u].op
                       /\ call'[u].from = call[u].from /\ call'[u].to = call[u].to
  BY <1>2
<1>4. Locks'
  <2>1. \A u \in Calls, c \in Cards : Covers(u, c) => Covers(u, c)'
    BY <1>3 DEF Covers
  <2>2. \A u \in Calls : call'[u].read => call'[u].wants = <<>>
    BY <1>1, <1>2 DEF Locks
  <2> QED
    BY <1>1, <1>3, <2>1, <2>2 DEF Locks
<1>5. Ordered'
  BY <1>1, <1>3 DEF Ordered
<1>6. \A u \in Calls : call'[u].op = "link" /\ call'[u].read => blocks \cap {Link(u)', Reverse(u)'} = {}
  <2>1. \A u \in Calls : Link(u)' = Link(u) /\ Reverse(u)' = Reverse(u)
    BY <1>3 DEF Link, Reverse
  <2> QED
    BY <1>1, <1>2, <2>1 DEF LinkIsNew
<1>7. ASSUME NEW u \in Calls, call'[u].op = "close", call'[u].read
      PROVE  TellsThose(u, open, blocks)'
  <2>1. CASE u = t
    BY <1>2, <1>7, <2>1 DEF TellsThose, FreedBy, Waits
  <2>2. CASE u # t
    BY <1>1, <1>2, <1>7, <2>2, TellsAsBefore DEF TellsTheFree
  <2> QED
    BY <2>1, <2>2
<1> QED
  BY <1>1, <1>2, <1>4, <1>5, <1>6, <1>7, CallsOnly DEF TypeOK

LEMMA ReadBlockedKeeps == ASSUME IInv, NEW t \in Calls, ReadBlocked(t) PROVE IInv'
<1> DEFINE k == [call[t] EXCEPT !.read = TRUE, !.tell = ToTell(call[t].from)]
<1>1. /\ call' = [call EXCEPT ![t] = k] /\ call[t].wants = <<>> /\ call[t].op = "close"
      /\ UNCHANGED <<open, blocks, holder, news, made>>
      /\ call[t] \in CallState /\ open \subseteq Cards
  BY DEF ReadBlocked, Working, IInv, TypeOK, CallState
<1>2. ToTell(call[t].from) \in SUBSET Cards
  BY <1>1 DEF ToTell
<1>3. /\ k \in CallState /\ k.wants = call[t].wants /\ k.op = call[t].op
      /\ k.from = call[t].from /\ k.to = call[t].to /\ k.tell = ToTell(call[t].from)
  BY <1>1, <1>2 DEF CallState
<1> HIDE DEF k
<1>4. \A c \in Cards : FreedBy(k.from, c, open, blocks) => c \in k.tell
  BY <1>3 DEF ToTell, FreedBy
<1> QED
  BY <1>1, <1>3, <1>4, ReadsKeep

LEMMA ReadLinksKeeps == ASSUME IInv, NEW t \in Calls, ReadLinks(t) PROVE IInv'
<1> DEFINE k == [call[t] EXCEPT !.read = TRUE]
<1>1. /\ call' = [call EXCEPT ![t] = k] /\ call[t].wants = <<>> /\ call[t].op = "link"
      /\ blocks \cap {Link(t), Reverse(t)} = {}
      /\ UNCHANGED <<open, blocks, holder, news, made>>
      /\ call[t] \in CallState
  BY DEF ReadLinks, Working, IInv, TypeOK, CallState
<1>2. /\ k \in CallState /\ k.wants = call[t].wants /\ k.op = call[t].op
      /\ k.from = call[t].from /\ k.to = call[t].to
  BY <1>1 DEF CallState
<1> HIDE DEF k
<1> QED
  BY <1>1, <1>2, ReadsKeep

-----------------------------------------------------------------------------
\* A closing that has read and would tell c does so still when t commits what is
\* not about c, and it is t's commit that must not free c without it.
StillTells(u, c, t, openNow, blocksNow) ==
    /\ FreedBy(call[u].from, c, openNow, blocksNow)
    /\ \A deed \in call[u].raced \cup {Deed(t)} : ~About(c, deed, blocksNow)
    => c \in call[u].tell

\* It is enough that c was free before, and that what was about c is about it still.
LEMMA StillTellsIf ==
    ASSUME NEW u \in Calls, NEW t \in Calls, NEW c \in Cards, NEW openNow, NEW blocksNow,
           TellsThose(u, open, blocks),
           FreedBy(call[u].from, c, openNow, blocksNow) /\ ~About(c, Deed(t), blocksNow)
              => FreedBy(call[u].from, c, open, blocks),
           \A deed \in call[u].raced : About(c, deed, blocks) /\ ~About(c, Deed(t), blocksNow)
              => About(c, deed, blocksNow)
    PROVE  StillTells(u, c, t, openNow, blocksNow)
BY DEF StillTells, TellsThose

\* What a call that commits has to show of what it commits.
LEMMA CommitKeeps ==
    ASSUME IInv, NEW t \in Calls, call[t].op \in Ops,
           NEW openNow \in SUBSET Cards, NEW blocksNow \in SUBSET (Cards \X Cards), NEW tell,
           Commit(t, openNow, blocksNow, tell),
           \A c \in Cards : ~Waits(c, openNow, blocksNow) /\ news[c] = "waiting"
                            => Heard(t, c, openNow, blocksNow, tell) # "missed",
           \A c, d \in Cards : <<c, d>> \in blocksNow => <<d, c>> \notin blocksNow,
           \A u \in Calls \ {t} : call[u].op = "link" /\ call[u].read =>
              blocksNow \cap {Link(u), Reverse(u)} = {},
           \A u \in Calls \ {t}, c \in Cards :
              call[u].op = "close" /\ call[u].read => StillTells(u, c, t, openNow, blocksNow)
    PROVE  IInv'
<1> DEFINE m(u) == [call[u] EXCEPT !.raced = IF call[u].read THEN @ \cup {Deed(t)} ELSE @]
<1>1. /\ open' = openNow /\ blocks' = blocksNow /\ made' = made
      /\ news' = NewsAfter(t, openNow, blocksNow, tell)
      /\ holder' = Released(t)
      /\ call' = [u \in Calls |-> IF u = t THEN Idle ELSE m(u)]
      /\ TypeOK /\ Locks /\ Ordered /\ NeverMissed
  BY DEF Commit, IInv
<1>2. ASSUME NEW u \in Calls
      PROVE  /\ m(u) \in CallState /\ m(u).op = call[u].op /\ m(u).from = call[u].from
             /\ m(u).to = call[u].to /\ m(u).wants = call[u].wants /\ m(u).read = call[u].read
             /\ m(u).tell = call[u].tell
             /\ m(u).raced = IF call[u].read THEN call[u].raced \cup {Deed(t)} ELSE call[u].raced
  <2>1. call[u] \in CallState
    BY <1>1 DEF TypeOK, CallState
  <2>2. Deed(t) \in Deeds
    BY <1>1 DEF Deed, Deeds, Locks, TypeOK, Ops
  <2> QED
    BY <2>1, <2>2 DEF CallState
<1> HIDE DEF m
<1>3. /\ call' \in [Calls -> CallState] /\ call'[t] = Idle
      /\ \A u \in Calls \ {t} : call'[u] = m(u)
  BY <1>1, <1>2, IdleIsACall
<1>4. Locks' /\ Ordered' /\ holder' \in [Boards -> Calls \cup {None}]
  BY <1>1, <1>2, <1>3, ReleasedKeeps
<1>5. \A c \in Cards : news'[c] = IF Waits(c, openNow, blocksNow) THEN "waiting"
                                  ELSE IF news[c] = "waiting" THEN Heard(t, c, openNow, blocksNow, tell)
                                  ELSE news[c]
  BY <1>1 DEF NewsAfter
<1>6. \A c \in Cards : Heard(t, c, openNow, blocksNow, tell) \in {"told", "free", "raced", "missed"}
  BY DEF Heard
<1>7. news' \in [Cards -> {"free", "waiting", "told", "raced", "missed"}]
  <2>1. \A c \in Cards : news'[c] \in {"free", "waiting", "told", "raced", "missed"}
    BY <1>1, <1>5, <1>6 DEF TypeOK
  <2> QED
    BY <1>1, <2>1 DEF NewsAfter
<1>8. TypeOK'
  BY <1>1, <1>3, <1>4, <1>7 DEF TypeOK, CallState
<1>9. NewsOfWaiting' /\ NeverMissed'
  BY <1>1, <1>5, <1>6 DEF NewsOfWaiting, NeverMissed, Waits
<1>10. NeverMutual'
  BY <1>1 DEF NeverMutual
<1>11. LinkIsNew'
  <2> SUFFICES ASSUME NEW u \in Calls, call'[u].op = "link", call'[u].read
               PROVE  blocks' \cap {Link(u)', Reverse(u)'} = {}
    BY DEF LinkIsNew
  <2>1. u # t /\ call[u].op = "link" /\ call[u].read
    BY <1>2, <1>3, IdleIsACall
  <2>2. Link(u)' = Link(u) /\ Reverse(u)' = Reverse(u)
    BY <1>2, <1>3, <2>1 DEF Link, Reverse
  <2> QED
    BY <1>1, <2>1, <2>2
<1>12. TellsTheFree'
  <2> SUFFICES ASSUME NEW u \in Calls, call'[u].op = "close", call'[u].read, NEW c \in Cards,
                      FreedBy(call'[u].from, c, openNow, blocksNow),
                      \A deed \in call'[u].raced : ~About(c, deed, blocksNow)
               PROVE  c \in call'[u].tell
    BY <1>1 DEF TellsTheFree, TellsThose, FreedBy, Waits, About
  <2>1. u # t /\ call[u].op = "close" /\ call[u].read
    BY <1>2, <1>3, IdleIsACall
  <2>2. call'[u].raced = call[u].raced \cup {Deed(t)}
    BY <1>2, <1>3, <2>1
  <2> QED
    BY <1>2, <1>3, <2>1, <2>2 DEF StillTells
<1> QED
  BY <1>4, <1>8, <1>9, <1>10, <1>11, <1>12 DEF IInv

\* Two calls that work on one card are one call.
LEMMA OneHolder ==
    ASSUME Locks, NEW t \in Calls, NEW u \in Calls, call[t].wants = <<>>, call[u].read,
           call[t].op = "link", call[u].op \in {"link", "close"},
           \/ call[u].from \in {call[t].from, call[t].to}
           \/ call[u].op = "link" /\ call[u].to \in {call[t].from, call[t].to}
    PROVE  t = u
<1>1. call[u].wants = <<>>
  BY DEF Locks
<1> QED
  BY <1>1, HoldsTheBoard

\* A closing tells whom it read, and frees nobody else unless something was done
\* about him in between; whoever is freed by another closing knows as much.
LEMMA CommitCloseKeeps == ASSUME IInv, NEW t \in Calls, CommitClose(t) PROVE IInv'
<1> DEFINE f == call[t].from
           left == open \ {f}
           told == call[t].tell
<1>1. /\ call[t].op = "close" /\ call[t].read /\ Commit(t, left, blocks, told)
      /\ left \in SUBSET Cards /\ blocks \in SUBSET (Cards \X Cards)
  BY DEF CommitClose, Working, IInv, TypeOK
<1>2. ASSUME NEW c \in Cards, ~Waits(c, left, blocks), news[c] = "waiting",
             Heard(t, c, left, blocks, told) = "missed"
      PROVE  FALSE
  <2>1. c \notin told /\ c \in left /\ \A deed \in call[t].raced : ~About(c, deed, blocks)
    BY <1>2 DEF Heard
  <2>2. Waits(c, open, blocks)
    BY <1>2 DEF IInv, NewsOfWaiting
  <2>3. FreedBy(f, c, open, blocks)
    BY <1>2, <2>1, <2>2 DEF Waits, FreedBy
  <2> QED
    BY <1>1, <2>1, <2>3 DEF IInv, TellsTheFree, TellsThose
<1>3. call[t].op \in Ops
  BY <1>1 DEF Ops
<1>4. \A c, d \in Cards : <<c, d>> \in blocks => <<d, c>> \notin blocks
  BY DEF IInv, NeverMutual
<1>5. \A u \in Calls \ {t} : call[u].op = "link" /\ call[u].read =>
              blocks \cap {Link(u), Reverse(u)} = {}
  BY DEF IInv, LinkIsNew
<1>6. \A c \in Cards : ~Waits(c, left, blocks) /\ news[c] = "waiting" => Heard(t, c, left, blocks, told) # "missed"
  BY <1>2
<1>7. ASSUME NEW u \in Calls \ {t}, NEW c \in Cards, call[u].op = "close", call[u].read
      PROVE  StillTells(u, c, t, left, blocks)
  <2>1. ~About(c, Deed(t), blocks) => <<f, c>> \notin blocks
    BY <1>1 DEF About, Deed
  <2>2. FreedBy(call[u].from, c, left, blocks) /\ <<f, c>> \notin blocks => FreedBy(call[u].from, c, open, blocks)
    BY DEF FreedBy, Waits
  <2> QED
    BY <1>7, <2>1, <2>2, StillTellsIf DEF IInv, TellsTheFree
<1> HIDE DEF left, told
<1> QED
  BY <1>1, <1>3, <1>4, <1>5, <1>6, <1>7, CommitKeeps

LEMMA CommitReopenKeeps == ASSUME IInv, NEW t \in Calls, CommitReopen(t) PROVE IInv'
<1> DEFINE f == call[t].from
<1>1. /\ call[t].op = "reopen" /\ Commit(t, open \cup {f}, blocks, {})
      /\ blocks \in SUBSET (Cards \X Cards)
  BY DEF CommitReopen, Working, IInv, TypeOK
<1>2. open \cup {f} \in SUBSET Cards
  BY <1>1, HoldsTheBoard DEF IInv, TypeOK, CommitReopen, Working
<1>3. \A c \in Cards : news[c] = "waiting" => Waits(c, open \cup {f}, blocks)
  BY DEF IInv, NewsOfWaiting, Waits
<1>4. call[t].op \in Ops
  BY <1>1 DEF Ops
<1>5. \A c, d \in Cards : <<c, d>> \in blocks => <<d, c>> \notin blocks
  BY DEF IInv, NeverMutual
<1>6. \A u \in Calls \ {t} : call[u].op = "link" /\ call[u].read =>
              blocks \cap {Link(u), Reverse(u)} = {}
  BY DEF IInv, LinkIsNew
<1>7. ASSUME NEW u \in Calls \ {t}, NEW c \in Cards, call[u].op = "close", call[u].read
      PROVE  StillTells(u, c, t, open \cup {f}, blocks)
  <2>1. ~About(c, Deed(t), blocks) => c # f
    BY <1>1 DEF About, Deed
  <2>2. FreedBy(call[u].from, c, open \cup {f}, blocks) /\ c # f => FreedBy(call[u].from, c, open, blocks)
    BY DEF FreedBy, Waits
  <2> QED
    BY <1>7, <2>1, <2>2, StillTellsIf DEF IInv, TellsTheFree
<1> HIDE DEF f
<1> QED
  BY <1>1, <1>2, <1>3, <1>4, <1>5, <1>6, <1>7, CommitKeeps

LEMMA CommitUnlinkKeeps == ASSUME IInv, NEW t \in Calls, CommitUnlink(t) PROVE IInv'
<1> DEFINE left == blocks \ {Link(t)}
<1>1. /\ call[t].op = "unlink" /\ Commit(t, open, left, {})
      /\ open \in SUBSET Cards /\ left \in SUBSET (Cards \X Cards)
  BY DEF CommitUnlink, Working, IInv, TypeOK
<1>2. \A c \in Cards : Heard(t, c, open, left, {}) # "missed"
  BY <1>1 DEF Heard
<1>3. call[t].op \in Ops
  BY <1>1 DEF Ops
<1>4. \A c, d \in Cards : <<c, d>> \in left => <<d, c>> \notin left
  BY DEF IInv, NeverMutual
<1>5. \A u \in Calls \ {t} : call[u].op = "link" /\ call[u].read =>
              left \cap {Link(u), Reverse(u)} = {}
  BY DEF IInv, LinkIsNew
<1>6. \A c \in Cards : ~Waits(c, open, left) /\ news[c] = "waiting" => Heard(t, c, open, left, {}) # "missed"
  BY <1>2
<1>7. ASSUME NEW u \in Calls \ {t}, NEW c \in Cards, call[u].op = "close", call[u].read
      PROVE  StillTells(u, c, t, open, left)
  <2>1. ~About(c, Deed(t), left) => c # call[t].to
    BY <1>1 DEF About, Deed
  <2>2. c # call[t].to => \A b : <<b, c>> \in left <=> <<b, c>> \in blocks
    BY DEF Link
  <2>3. FreedBy(call[u].from, c, open, left) /\ c # call[t].to => FreedBy(call[u].from, c, open, blocks)
    BY <2>2 DEF FreedBy, Waits
  <2>4. \A deed \in call[u].raced : About(c, deed, blocks) /\ c # call[t].to => About(c, deed, left)
    BY <2>2 DEF About
  <2> QED
    BY <1>7, <2>1, <2>3, <2>4, StillTellsIf DEF IInv, TellsTheFree
<1> HIDE DEF left
<1> QED
  BY <1>1, <1>3, <1>4, <1>5, <1>6, <1>7, CommitKeeps

LEMMA CommitLinkKeeps == ASSUME IInv, NEW t \in Calls, CommitLink(t) PROVE IInv'
<1> DEFINE more == blocks \cup {Link(t)}
<1>1. /\ call[t].op = "link" /\ call[t].read /\ call[t].wants = <<>>
      /\ Commit(t, open, more, {}) /\ open \in SUBSET Cards
      /\ Locks /\ LinkIsNew /\ NeverMutual /\ TellsTheFree
  BY DEF CommitLink, Working, IInv, TypeOK
<1>2. /\ call[t].from \in Cards /\ call[t].to \in Cards /\ call[t].from # call[t].to
  BY <1>1, HoldsTheBoard
<1>3. more \in SUBSET (Cards \X Cards)
  BY <1>2 DEF IInv, TypeOK, Link
<1>4. \A c \in Cards : news[c] = "waiting" => Waits(c, open, more)
  BY DEF IInv, NewsOfWaiting, Waits
<1>5. \A c, d \in Cards : <<c, d>> \in more => <<d, c>> \notin more
  BY <1>1, <1>2 DEF NeverMutual, LinkIsNew, Link, Reverse
<1>6. ASSUME NEW u \in Calls \ {t}, call[u].op = "link", call[u].read
      PROVE  more \cap {Link(u), Reverse(u)} = {}
  <2>1. blocks \cap {Link(u), Reverse(u)} = {}
    BY <1>1, <1>6 DEF LinkIsNew
  <2>2. call[u].from # call[t].from /\ call[u].to # call[t].from
    BY <1>1, <1>6, OneHolder
  <2>3. Link(t) # Link(u) /\ Link(t) # Reverse(u)
    BY <2>2 DEF Link, Reverse
  <2> QED
    BY <2>1, <2>3
<1>7. ASSUME NEW u \in Calls \ {t}, NEW c \in Cards, call[u].op = "close", call[u].read
      PROVE  StillTells(u, c, t, open, more)
  <2>1. call[u].from # call[t].from
    BY <1>1, <1>7, OneHolder
  <2>2. <<call[u].from, c>> \in more => <<call[u].from, c>> \in blocks
    BY <2>1 DEF Link
  <2>3. FreedBy(call[u].from, c, open, more) => FreedBy(call[u].from, c, open, blocks)
    BY <2>2 DEF FreedBy, Waits
  <2>4. \A deed \in call[u].raced : About(c, deed, blocks) => About(c, deed, more)
    BY DEF About
  <2> QED
    BY <1>1, <1>7, <2>3, <2>4, StillTellsIf DEF TellsTheFree
<1>8. call[t].op \in Ops
  BY <1>1 DEF Ops
<1> HIDE DEF more
<1> QED
  BY <1>1, <1>3, <1>4, <1>5, <1>6, <1>7, <1>8, CommitKeeps

-----------------------------------------------------------------------------
LEMMA InitHolds == ASSUME Init PROVE IInv
<1>1. /\ open = Cards /\ blocks = {} /\ call = [t \in Calls |-> Idle]
      /\ holder = [b \in Boards |-> None] /\ news = [c \in Cards |-> "free"] /\ made = 0
  BY DEF Init
<1>2. call \in [Calls -> CallState]
  BY <1>1, IdleIsACall
<1>3. TypeOK
  BY <1>1, <1>2 DEF TypeOK, CallState
<1>4. \A t \in Calls : call[t].op = "none" /\ call[t].wants = <<>> /\ ~call[t].read
  BY <1>1, IdleIsACall
<1>5. Locks /\ Ordered /\ LinkIsNew /\ TellsTheFree
  BY <1>1, <1>4, LinkAssumption DEF Locks, Ordered, LinkIsNew, TellsTheFree
<1>6. NewsOfWaiting /\ NeverMissed /\ NeverMutual
  BY <1>1 DEF NewsOfWaiting, NeverMissed, NeverMutual, Waits
<1> QED
  BY <1>3, <1>5, <1>6 DEF IInv

LEMMA StartsKeep ==
    ASSUME IInv, NEW t \in Calls, NEW c \in Cards, NEW d \in Cards,
           \/ StartCard(t, "close", c) \/ StartCard(t, "reopen", c)
           \/ StartLink(t, "link", c, d) \/ StartLink(t, "unlink", c, d)
    PROVE  IInv'
<1>1. ASSUME NEW op \in {"close", "reopen"}, StartCard(t, op, c) PROVE IInv'
  <2> DEFINE w == <<Home[c]>>
  <2>1. w \in Seq(Boards) /\ DOMAIN w = {1} /\ w[1] = Home[c]
    BY DEF Boards
  <2>2. Start(t, op, c, None, w) /\ op \in Ops /\ op \notin {"link", "unlink"}
    BY <1>1 DEF StartCard, Ops
  <2> HIDE DEF w
  <2>3. \A i, j \in DOMAIN w : i < j => w[i] < w[j]
    BY <2>1, SMT
  <2> QED
    BY <2>1, <2>2, <2>3, StartKeeps
<1>2. ASSUME NEW op \in {"link", "unlink"}, StartLink(t, op, c, d) PROVE IInv'
  <2>1. PICK own \in {c, d} : Start(t, op, c, d, BoardsOf(own, IF own = c THEN d ELSE c))
    BY <1>2 DEF StartLink
  <2>2. c # d /\ op \in Ops
    BY <1>2 DEF StartLink, Ops
  <2> DEFINE other == IF own = c THEN d ELSE c
             w == BoardsOf(own, other)
  <2>3. own \in Cards /\ other \in Cards /\ {own, other} = {c, d}
    BY <2>1
  <2>4. Start(t, op, c, d, w)
    BY <2>1
  <2> HIDE DEF other
  <2>5. /\ w \in Seq(Boards)
        /\ \A i, j \in DOMAIN w : i < j => w[i] < w[j]
        /\ \E i \in DOMAIN w : w[i] = Home[own]
        /\ \E i \in DOMAIN w : w[i] = Home[other]
    BY <2>3, BoardsInOrder
  <2> HIDE DEF w
  <2>6. (\E i \in DOMAIN w : w[i] = Home[c]) /\ (\E i \in DOMAIN w : w[i] = Home[d])
    BY <2>3, <2>5
  <2> QED
    BY <2>2, <2>4, <2>5, <2>6, StartKeeps
<1> QED
  BY <1>1, <1>2

LEMMA NothingHappens == ASSUME IInv, UNCHANGED vars PROVE IInv'
<1>1. /\ open' = open /\ blocks' = blocks /\ call' = call /\ holder' = holder
      /\ news' = news /\ made' = made
  BY DEF vars
<1>2. Locks' /\ Ordered'
  BY <1>1 DEF IInv, Locks, Covers, Ordered
<1>3. /\ call' \in [Calls -> CallState] /\ holder' \in [Boards -> Calls \cup {None}] /\ made' \in Nat
  BY <1>1 DEF IInv, TypeOK, CallState
<1>4. \A u \in Calls : call'[u].op = "close" /\ call'[u].read => TellsThose(u, open, blocks)'
  BY <1>1, TellsAsBefore DEF IInv, TellsTheFree
<1> QED
  BY <1>1, <1>2, <1>3, <1>4, CallsOnly DEF IInv, LinkIsNew, Link, Reverse

LEMMA Invariance == Spec => []IInv
<1>1. Init => IInv
  BY InitHolds
<1>2. IInv /\ [Next]_vars => IInv'
  BY StartsKeep, LockKeeps, ReadBlockedKeeps, CommitCloseKeeps, CommitReopenKeeps,
     ReadLinksKeeps, CommitLinkKeeps, CommitUnlinkKeeps, RefuseKeeps, NothingHappens
     DEF Next, RefuseCall
<1> QED
  BY <1>1, <1>2, PTL DEF Spec

\* The records of cards, links, calls and locks keep their types.
THEOREM TypeCorrect == Spec => []TypeOK
<1>1. IInv => TypeOK
  BY DEF IInv
<1> QED
  BY <1>1, Invariance, PTL

\* No two cards wait for each other and no two calls for each other's boards,
\* however many people link cards of however many boards at once.
THEOREM NothingInACircle == Spec => []NothingWaitsInACircle
<1>1. IInv => NothingWaitsInACircle
  BY NobodyWaitsInACircle DEF IInv, NothingWaitsInACircle
<1> QED
  BY <1>1, Invariance, PTL

\* A card in work that waits hears of its last blocker, but where between what
\* this one's closing read and its commit another blocker of the card was closed
\* or unlinked or the card itself taken back: deeds about other cards excuse
\* nothing, however many people work at once.
THEOREM ToldHolds == Spec => []ToldWhenTheLastCloses
<1>1. IInv => ToldWhenTheLastCloses
  BY DEF IInv, TypeOK, NeverMissed, ToldWhenTheLastCloses
<1> QED
  BY <1>1, Invariance, PTL

-----------------------------------------------------------------------------
(* The fields of a board, and the requests that wait (BoardRequests).       *)

\* An option is one of a list that is there, and no name is given twice.
OptionsHaveTheirList ==
    /\ \A f \in Fields : Exists(f) => f \in used
    /\ \A o \in Options :
          option[o].of # None =>
             /\ o \in used
             /\ Exists(option[o].of) /\ field[option[o].of].kind = "SELECT"

\* What waits was asked in the kinds the request keeps; lists aside, whatever
\* became of the field.
AskedInItsKind ==
    \A r \in Requests, f \in Fields :
        request[r].status = "NEW" /\ request[r].values[f] # None =>
            /\ request[r].kinds[f] = "NUMBER" =>
                  request[r].values[f] = "digits" \/ request[r].values[f] \in Options
            /\ request[r].kinds[f] = "DATE" => request[r].values[f] = "day"

\* A board on the shelf is at rest, and stays so.
ShelfIsQuiet == shelved => AtRest

\* A card that was never made came from no request.
UnmadeCardsAreBlank == \A c \in Cards : card[c].state = "none" => card[c].of = None

RequestsInv ==
    /\ RequestsTypeOK
    /\ WithinLimits
    /\ ValuesFit
    /\ OptionsHaveTheirList
    /\ AskedInItsKind
    /\ ShelfIsQuiet
    /\ UnmadeCardsAreBlank

-----------------------------------------------------------------------------
\* What a person may write for a field, a card may hold: an archived option is
\* refused to everybody who does not hold it already.
LEMMA ParsedFits ==
    ASSUME NEW f, NEW x, NEW held, Exists(f), Parses(f, x, held)
    PROVE  Fits(f, x)
  BY DEF Fits, Parses

\* A value keeps fitting its field as long as the kind stays and its option,
\* if it is one, is still one of the list's.
LEMMA StillFits ==
    ASSUME NEW f, NEW x, Fits(f, x), field'[f].kind = field[f].kind,
           x \in OptionsOf(f) => x \in OptionsOf(f)'
    PROVE  Fits(f, x)'
  BY DEF Fits, Parses, Exists

\* Sets of fields and of options are finite, and one more is one more.
LEMMA SetsOfFields ==
    ASSUME NEW S, S \in SUBSET Fields \/ S \in SUBSET Options, NEW T \in SUBSET S
    PROVE  /\ IsFiniteSet(S) /\ IsFiniteSet(T)
           /\ Cardinality(S) \in Nat /\ Cardinality(T) \in Nat
           /\ Cardinality(T) <= Cardinality(S)
           /\ \A x : Cardinality(S \cup {x}) \in Nat /\ Cardinality(S \cup {x}) <= Cardinality(S) + 1
  <1>1. IsFiniteSet(S)
    BY RequestAssumption, FS_Subset
  <1>2. IsFiniteSet(T) /\ Cardinality(T) <= Cardinality(S)
    BY <1>1, FS_Subset
  <1>3. Cardinality(S) \in Nat /\ Cardinality(T) \in Nat
    BY <1>1, <1>2, FS_CardinalityType
  <1>4. ASSUME NEW x
        PROVE  Cardinality(S \cup {x}) \in Nat /\ Cardinality(S \cup {x}) <= Cardinality(S) + 1
    <2>1. Cardinality(S \cup {x}) = IF x \in S THEN Cardinality(S) ELSE Cardinality(S) + 1
      BY <1>1, FS_AddElement
    <2> QED  BY <2>1, <1>3
  <1> QED  BY <1>1, <1>2, <1>3, <1>4

LEMMA RequestsInvAtFirst == RequestsInit => RequestsInv
  <1> SUFFICES ASSUME RequestsInit  PROVE RequestsInv
    OBVIOUS
  <1> USE DEF RequestsInit
  <1>1. RequestsTypeOK
    BY DEF RequestsTypeOK, NoField, NoOption, NoRule, NoCard, NoRequest, Empty, FieldValues, Kinds, Statuses
  <1>2. LiveFields = {} /\ \A f \in Fields : LiveOptions(f) = {}
    BY RequestAssumption DEF LiveFields, Live, Exists, NoField, LiveOptions, OptionsOf, NoOption
  <1>3. WithinLimits
    BY <1>2, FS_EmptySet, RequestAssumption DEF WithinLimits
  <1>4. ValuesFit
    BY DEF ValuesFit, NoCard, Empty, NoRule
  <1>5. OptionsHaveTheirList
    BY DEF OptionsHaveTheirList, Exists, NoField, NoOption
  <1>6. AskedInItsKind /\ ShelfIsQuiet /\ UnmadeCardsAreBlank
    BY DEF AskedInItsKind, ShelfIsQuiet, UnmadeCardsAreBlank, NoRequest, NoCard
  <1> QED  BY <1>1, <1>3, <1>4, <1>5, <1>6 DEF RequestsInv

-----------------------------------------------------------------------------
\* A step that leaves fields and options alone leaves their limits, and what
\* fits, alone.
LEMMA FieldsUntouched ==
    ASSUME RequestsInv, UNCHANGED <<field, option, used>>
    PROVE  /\ WithinLimits' /\ OptionsHaveTheirList'
           /\ \A f \in Fields : \A x : Fits(f, x) => Fits(f, x)'
           /\ \A f \in Fields : (Live(f)' <=> Live(f)) /\ (Exists(f)' <=> Exists(f))
  <1>1. LiveFields' = LiveFields /\ \A f \in Fields : LiveOptions(f)' = LiveOptions(f)
    BY DEF LiveFields, Live, Exists, LiveOptions, OptionsOf
  <1>2. WithinLimits'
    BY <1>1 DEF WithinLimits, RequestsInv
  <1>3. OptionsHaveTheirList'
    BY DEF OptionsHaveTheirList, Exists, RequestsInv
  <1>4. \A f \in Fields : \A x : Fits(f, x) => Fits(f, x)'
    BY StillFits DEF OptionsOf
  <1> QED  BY <1>2, <1>3, <1>4 DEF Live, Exists

\* A step on the fields disturbs neither cards nor requests; what they hold must
\* still fit.
LEMMA FieldStepKeepsTheRest ==
    ASSUME RequestsInv, RequestsTypeOK', WithinLimits', OptionsHaveTheirList',
           UNCHANGED <<shelved, rule, card, request>>,
           \A f \in Fields, x \in Values :
               /\ Fits(f, x)
               /\ (\E c \in Cards : card[c].values[f] = x) \/ (\E q \in Rules : rule[q][f].value = x)
               => Fits(f, x)'
    PROVE  RequestsInv'
  <1>1. ValuesFit'
    <2>1. \A c \in Cards, f \in Fields : card[c].values[f] \in Values \cup {None}
      BY DEF RequestsInv, RequestsTypeOK, FieldValues
    <2>2. \A q \in Rules, f \in Fields : rule[q][f].value \in Values \cup {None}
      BY DEF RequestsInv, RequestsTypeOK
    <2>3. ValuesFit
      BY DEF RequestsInv
    <2>4. \A f \in Fields, c \in Cards :
            card[c].values[f] # None => Fits(f, card[c].values[f])'
      BY <2>1, <2>3 DEF ValuesFit
    <2>5. \A f \in Fields, q \in Rules :
            rule[q][f].value # None => Fits(f, rule[q][f].value)'
      BY <2>2, <2>3 DEF ValuesFit
    <2> QED  BY <2>4, <2>5 DEF ValuesFit
  <1>2. AskedInItsKind' /\ ShelfIsQuiet' /\ UnmadeCardsAreBlank'
    BY DEF RequestsInv, AskedInItsKind, ShelfIsQuiet, AtRest, NoOpenCard, UnmadeCardsAreBlank
  <1> QED  BY <1>1, <1>2 DEF RequestsInv

-----------------------------------------------------------------------------
(* Steps on the fields, rule changes included.                              *)

FieldState  == [kind : Kinds \cup {None}, archived : BOOLEAN, form : {"no", "optional", "required"}]
OptionState == [of : Fields \cup {None}, archived : BOOLEAN]

LEMMA NewOnes ==
    /\ NoField \in FieldState
    /\ \A kind \in Kinds : [NoField EXCEPT !.kind = kind] \in FieldState
    /\ NoOption \in OptionState
    /\ \A f \in Fields : [NoOption EXCEPT !.of = f] \in OptionState
  BY DEF NoField, NoOption, FieldState, OptionState

LEMMA CreateFieldKeeps ==
    ASSUME RequestsInv, NEW f \in Fields, NEW kind \in Kinds, NEW opts \in SUBSET Options,
           CreateField(f, kind, opts)
    PROVE  RequestsInv'
  <1> USE DEF CreateField, Manage
  <1>1. RequestsTypeOK'
    <2>1. field' \in [Fields -> FieldState] /\ option' \in [Options -> OptionState]
      BY NewOnes DEF RequestsInv, RequestsTypeOK, FieldState, OptionState
    <2> QED  BY <2>1 DEF RequestsInv, RequestsTypeOK, FieldState, OptionState
  <1>2. ~Exists(f) /\ OptionsOf(f) = {}
    BY RequestAssumption DEF RequestsInv, OptionsHaveTheirList, OptionsOf
  <1>3. \A o \in opts : option[o].of = None
    BY DEF RequestsInv, OptionsHaveTheirList
  <1>4. \A g \in Fields : field'[g] = IF g = f THEN [NoField EXCEPT !.kind = kind] ELSE field[g]
    BY DEF RequestsInv, RequestsTypeOK
  <1>5. \A o \in Options : option'[o] = IF o \in opts THEN [NoOption EXCEPT !.of = f] ELSE option[o]
    OBVIOUS
  <1>6. /\ OptionsOf(f)' = opts
        /\ \A g \in Fields \ {f} : OptionsOf(g)' = OptionsOf(g)
    BY <1>2, <1>3, <1>5, RequestAssumption DEF OptionsOf, NoOption
  <1>7. WithinLimits'
    <2>1. LiveFields' = LiveFields \cup {f}
      BY <1>2, <1>4, RequestAssumption DEF LiveFields, Live, Exists, NoField
    <2>2. Cardinality(LiveFields') <= MaxFields
      <3>1. LiveFields \subseteq Fields
        BY DEF LiveFields
      <3>2. Cardinality(LiveFields) < MaxFields
        BY DEF HasRoom
      <3>3. /\ Cardinality(LiveFields) \in Nat /\ Cardinality(LiveFields \cup {f}) \in Nat
            /\ Cardinality(LiveFields \cup {f}) <= Cardinality(LiveFields) + 1
        BY <3>1, SetsOfFields
      <3> QED  BY <2>1, <3>2, <3>3, RequestAssumption
    <2>3. Cardinality(LiveOptions(f)') <= MaxOptions
      <3>1. LiveOptions(f)' \subseteq opts
        BY <1>6 DEF LiveOptions
      <3> QED  BY <3>1, SetsOfFields, RequestAssumption
    <2>4. \A g \in Fields \ {f} : LiveOptions(g)' = LiveOptions(g)
      BY <1>2, <1>3, <1>5, <1>6, RequestAssumption DEF LiveOptions, OptionsOf
    <2> QED  BY <2>2, <2>3, <2>4 DEF WithinLimits, RequestsInv
  <1>8. OptionsHaveTheirList'
    <2>1. \A g \in Fields : Exists(g)' => g \in used'
      BY <1>4 DEF RequestsInv, OptionsHaveTheirList, Exists
    <2>2. ASSUME NEW o \in Options, option'[o].of # None
          PROVE  /\ o \in used'
                 /\ Exists(option[o].of)' /\ field'[option'[o].of].kind = "SELECT"
      <3>1. CASE o \in opts
        <4>1. kind = "SELECT" /\ option'[o].of = f /\ field'[f].kind = kind
          BY <3>1, <1>4, <1>5 DEF NoOption, NoField
        <4> QED  BY <3>1, <4>1, RequestAssumption DEF Exists
      <3>2. CASE o \notin opts
        <4>1. option'[o] = option[o] /\ option[o].of # f /\ option[o].of \in Fields
          BY <1>2, <1>5, <2>2, <3>2 DEF OptionsOf, RequestsInv, RequestsTypeOK
        <4> QED  BY <4>1, <1>4, <2>2 DEF RequestsInv, OptionsHaveTheirList, Exists
      <3> QED  BY <3>1, <3>2
    <2> QED  BY <2>1, <2>2 DEF OptionsHaveTheirList
  <1>9. \A g \in Fields : \A x : Fits(g, x) => Fits(g, x)'
    <2> SUFFICES ASSUME NEW g \in Fields, NEW x, Fits(g, x)  PROVE Fits(g, x)'
      OBVIOUS
    <2>1. g # f
      BY <1>2 DEF Fits
    <2> QED  BY <2>1, <1>4, <1>6, StillFits
  <1> QED  BY <1>1, <1>7, <1>8, <1>9, FieldStepKeepsTheRest

\* The lists that lose their options are no list any more, or gone.
LEMMA OptionsGoWithTheirField ==
    ASSUME RequestsInv, NEW f \in Fields, option' = WithoutOptionsOf(f),
           field' = [field EXCEPT ![f] = field'[f]], UNCHANGED used,
           Unused(f), UNCHANGED <<shelved, rule, card, request>>, changes' \in Nat,
           field'[f] \in FieldState,
           LiveFields' \subseteq LiveFields,
           Exists(f), intake' \in BOOLEAN, shelved' \in BOOLEAN
    PROVE  RequestsInv'
  <1>1. RequestsTypeOK'
    BY NewOnes DEF RequestsInv, RequestsTypeOK, WithoutOptionsOf, FieldState, OptionState
  <1>2. \A o \in Options : option'[o] = IF option[o].of = f THEN NoOption ELSE option[o]
    BY DEF WithoutOptionsOf
  <1>3. \A g \in Fields \ {f} : field'[g] = field[g]
    BY DEF RequestsInv, RequestsTypeOK
  <1>4. \A g \in Fields \ {f} : OptionsOf(g)' = OptionsOf(g) /\ LiveOptions(g)' = LiveOptions(g)
    BY <1>2, RequestAssumption DEF OptionsOf, LiveOptions, NoOption
  <1>5. OptionsOf(f)' = {} /\ LiveOptions(f)' = {}
    BY <1>2, RequestAssumption DEF OptionsOf, LiveOptions, NoOption
  <1>6. WithinLimits'
    <2>1. Cardinality(LiveFields') <= MaxFields
      BY SetsOfFields, RequestAssumption DEF LiveFields, RequestsInv, WithinLimits
    <2> QED  BY <2>1, <1>4, <1>5, FS_EmptySet, RequestAssumption DEF WithinLimits, RequestsInv
  <1>7. OptionsHaveTheirList'
    <2>1. \A g \in Fields : Exists(g)' => g \in used'
      BY <1>3 DEF RequestsInv, OptionsHaveTheirList, Exists
    <2>2. ASSUME NEW o \in Options, option'[o].of # None
          PROVE  o \in used' /\ Exists(option[o].of)' /\ field'[option'[o].of].kind = "SELECT"
      <3>1. option'[o] = option[o] /\ option[o].of \in Fields \ {f}
        BY <1>2, <2>2 DEF NoOption, RequestsInv, RequestsTypeOK
      <3> QED  BY <1>3, <2>2, <3>1 DEF RequestsInv, OptionsHaveTheirList, Exists
    <2> QED  BY <2>1, <2>2 DEF OptionsHaveTheirList
  <1>8. \A g \in Fields, x \in Values :
            /\ Fits(g, x)
            /\ (\E c \in Cards : card[c].values[g] = x) \/ (\E q \in Rules : rule[q][g].value = x)
            => Fits(g, x)'
    <2> SUFFICES ASSUME NEW g \in Fields, NEW x \in Values, Fits(g, x),
                        \/ \E c \in Cards : card[c].values[g] = x
                        \/ \E q \in Rules : rule[q][g].value = x
                 PROVE  Fits(g, x)'
      OBVIOUS
    <2>1. g # f
      BY RequestAssumption DEF Unused, HasValues, HasRules
    <2> QED  BY <2>1, <1>3, <1>4, StillFits
  <1> QED  BY <1>1, <1>6, <1>7, <1>8, FieldStepKeepsTheRest

LEMMA ChangeKindKeeps ==
    ASSUME RequestsInv, NEW f \in Fields, NEW kind \in Kinds, ChangeKind(f, kind)
    PROVE  RequestsInv'
  <1> USE DEF ChangeKind, Manage
  <1>1. field'[f] = [field[f] EXCEPT !.kind = kind] /\ field' = [field EXCEPT ![f] = field'[f]]
    BY DEF RequestsInv, RequestsTypeOK
  <1>2. field'[f] \in FieldState
    <2>1. field[f] \in FieldState
      BY DEF RequestsInv, RequestsTypeOK, FieldState
    <2> QED  BY <1>1, <2>1 DEF FieldState
  <1>3. LiveFields' \subseteq LiveFields
    BY <1>1 DEF LiveFields, Live, Exists, RequestsInv, RequestsTypeOK
  <1>4. changes' \in Nat /\ intake' \in BOOLEAN /\ shelved' \in BOOLEAN
    BY DEF RequestsInv, RequestsTypeOK
  <1> QED  BY <1>1, <1>2, <1>3, <1>4, OptionsGoWithTheirField

LEMMA DeleteFieldKeeps ==
    ASSUME RequestsInv, NEW f \in Fields, DeleteField(f)
    PROVE  RequestsInv'
  <1> USE DEF DeleteField, Manage
  <1>1. field'[f] = NoField /\ field' = [field EXCEPT ![f] = field'[f]]
    BY DEF RequestsInv, RequestsTypeOK
  <1>2. field'[f] \in FieldState
    BY <1>1, NewOnes
  <1>3. LiveFields' \subseteq LiveFields
    BY <1>1 DEF LiveFields, Live, Exists, NoField, RequestsInv, RequestsTypeOK
  <1>4. changes' \in Nat /\ intake' \in BOOLEAN /\ shelved' \in BOOLEAN
    BY DEF RequestsInv, RequestsTypeOK
  <1> QED  BY <1>1, <1>2, <1>3, <1>4, OptionsGoWithTheirField

LEMMA ArchiveFieldKeeps ==
    ASSUME RequestsInv, NEW f \in Fields, ArchiveField(f)
    PROVE  RequestsInv'
  <1> USE DEF ArchiveField, Manage
  <1>1. field[f] \in FieldState
    BY DEF RequestsInv, RequestsTypeOK, FieldState
  <1>2. /\ [field[f] EXCEPT !.archived = ~@] \in FieldState
        /\ field' = [field EXCEPT ![f] = [field[f] EXCEPT !.archived = ~@]]
    BY <1>1 DEF FieldState, RequestsInv, RequestsTypeOK
  <1>3. RequestsTypeOK'
    BY <1>2 DEF RequestsInv, RequestsTypeOK, FieldState
  <1>4. \A g \in Fields : /\ field'[g].kind = field[g].kind
                          /\ g # f => field'[g] = field[g]
                          /\ field'[f].archived = ~field[f].archived
    BY <1>1, <1>2 DEF FieldState, RequestsInv, RequestsTypeOK
  <1>5. \A g \in Fields : OptionsOf(g)' = OptionsOf(g) /\ LiveOptions(g)' = LiveOptions(g)
    BY DEF OptionsOf, LiveOptions
  <1>6. Cardinality(LiveFields') <= MaxFields
    <2>1. LiveFields \subseteq Fields /\ LiveFields' \subseteq Fields
      BY DEF LiveFields
    <2>2. CASE field[f].archived
      <3>1. LiveFields' = LiveFields \cup {f}
        BY <1>4, <2>2 DEF LiveFields, Live, Exists
      <3>2. Cardinality(LiveFields) < MaxFields
        BY <2>2 DEF HasRoom
      <3>3. /\ Cardinality(LiveFields) \in Nat /\ Cardinality(LiveFields \cup {f}) \in Nat
            /\ Cardinality(LiveFields \cup {f}) <= Cardinality(LiveFields) + 1
        BY <2>1, SetsOfFields
      <3> QED  BY <3>1, <3>2, <3>3, RequestAssumption
    <2>3. CASE ~field[f].archived
      <3>1. LiveFields' \subseteq LiveFields
        BY <1>1, <1>4, <2>3 DEF LiveFields, Live, Exists, FieldState
      <3> QED  BY <2>1, <3>1, SetsOfFields, RequestAssumption DEF RequestsInv, WithinLimits
    <2> QED  BY <2>2, <2>3
  <1>7. WithinLimits'
    BY <1>5, <1>6 DEF WithinLimits, RequestsInv
  <1>8. OptionsHaveTheirList'
    BY <1>4 DEF RequestsInv, OptionsHaveTheirList, Exists, RequestsTypeOK
  <1>9. \A g \in Fields : \A x : Fits(g, x) => Fits(g, x)'
    BY <1>4, <1>5, StillFits
  <1> QED  BY <1>3, <1>7, <1>8, <1>9, FieldStepKeepsTheRest

\* One list gets or loses an option, or has one archived or taken back: the
\* others keep theirs, and this one has room.
LEMMA OneListChanges ==
    ASSUME RequestsInv, NEW f \in Fields, NEW o \in Options,
           option' = [option EXCEPT ![o] = option'[o]], option'[o] \in OptionState,
           option[o].of \in {f, None}, option'[o].of \in {f, None},
           option'[o].of = f => o \in used' /\ field[f].kind = "SELECT",
           used \subseteq used', used' \subseteq Fields \cup Options,
           LiveOptions(f)' \subseteq LiveOptions(f) \/ Cardinality(LiveOptions(f)) < MaxOptions,
           UNCHANGED <<shelved, intake, field, rule, card, request>>, changes' \in Nat,
           option'[o].of = f \/ \A c \in Cards : card[c].values[f] # o,
           option'[o].of = f \/ \A q \in Rules : rule[q][f].value # o
    PROVE  RequestsInv'
  <1>1. RequestsTypeOK'
    BY DEF RequestsInv, RequestsTypeOK, OptionState
  <1>2. \A p \in Options : option'[p] = IF p = o THEN option'[o] ELSE option[p]
    BY DEF RequestsInv, RequestsTypeOK
  <1>3. \A g \in Fields \ {f} : OptionsOf(g)' = OptionsOf(g) /\ LiveOptions(g)' = LiveOptions(g)
    BY <1>2, RequestAssumption DEF OptionsOf, LiveOptions
  <1>4. Cardinality(LiveOptions(f)') <= MaxOptions
    <2>1. LiveOptions(f)' \subseteq LiveOptions(f) \cup {o} /\ LiveOptions(f) \subseteq Options
      BY <1>2 DEF OptionsOf, LiveOptions
    <2>2. CASE LiveOptions(f)' \subseteq LiveOptions(f)
      <3>1. Cardinality(LiveOptions(f)') <= Cardinality(LiveOptions(f))
        BY <2>1, <2>2, SetsOfFields
      <3>2. Cardinality(LiveOptions(f)) <= MaxOptions
        BY DEF RequestsInv, WithinLimits
      <3>3. Cardinality(LiveOptions(f)') \in Nat /\ Cardinality(LiveOptions(f)) \in Nat
        BY <2>1, <2>2, SetsOfFields
      <3> QED  BY <3>1, <3>2, <3>3, RequestAssumption
    <2>3. CASE Cardinality(LiveOptions(f)) < MaxOptions
      <3>1. /\ Cardinality(LiveOptions(f)) \in Nat /\ Cardinality(LiveOptions(f) \cup {o}) \in Nat
            /\ Cardinality(LiveOptions(f) \cup {o}) <= Cardinality(LiveOptions(f)) + 1
        BY <2>1, SetsOfFields
      <3>2. LiveOptions(f) \cup {o} \subseteq Options
        BY <2>1
      <3>3. /\ Cardinality(LiveOptions(f)') \in Nat
            /\ Cardinality(LiveOptions(f)') <= Cardinality(LiveOptions(f) \cup {o})
        BY <2>1, <3>2, SetsOfFields
      <3> QED  BY <2>3, <3>1, <3>3, RequestAssumption
    <2> QED  BY <2>2, <2>3
  <1>5. WithinLimits'
    <2>1. LiveFields' = LiveFields
      BY DEF LiveFields, Live, Exists
    <2> QED  BY <1>3, <1>4, <2>1 DEF WithinLimits, RequestsInv
  <1>6. OptionsHaveTheirList'
    <2>1. \A g \in Fields : Exists(g)' => g \in used'
      BY DEF RequestsInv, OptionsHaveTheirList, Exists
    <2>2. ASSUME NEW p \in Options, option'[p].of # None
          PROVE  p \in used' /\ Exists(option[p].of)' /\ field'[option'[p].of].kind = "SELECT"
      <3>1. CASE p = o
        BY <1>2, <2>2, <3>1, RequestAssumption DEF Exists, Kinds
      <3>2. CASE p # o
        BY <1>2, <2>2, <3>2 DEF RequestsInv, OptionsHaveTheirList, Exists
      <3> QED  BY <3>1, <3>2
    <2> QED  BY <2>1, <2>2 DEF OptionsHaveTheirList
  <1>7. \A g \in Fields, x \in Values :
            /\ Fits(g, x)
            /\ (\E c \in Cards : card[c].values[g] = x) \/ (\E q \in Rules : rule[q][g].value = x)
            => Fits(g, x)'
    <2> SUFFICES ASSUME NEW g \in Fields, NEW x \in Values, Fits(g, x),
                        \/ \E c \in Cards : card[c].values[g] = x
                        \/ \E q \in Rules : rule[q][g].value = x
                 PROVE  Fits(g, x)'
      OBVIOUS
    <2>1. CASE g # f
      BY <2>1, <1>3, StillFits
    <2>2. CASE g = f
      <3>1. x \in OptionsOf(f) => x \in OptionsOf(f)'
        BY <1>2, <2>2 DEF OptionsOf
      <3> QED  BY <2>2, <3>1, StillFits
    <2> QED  BY <2>1, <2>2
  <1> QED  BY <1>1, <1>5, <1>6, <1>7, FieldStepKeepsTheRest

LEMMA OptionsKeep ==
    ASSUME RequestsInv, NEW o \in Options,
           (\E f \in Fields : CreateOption(f, o)) \/ ArchiveOption(o) \/ DeleteOption(o)
    PROVE  RequestsInv'
  <1> USE DEF Manage
  <1>1. /\ changes \in Nat /\ used \subseteq Fields \cup Options
        /\ option[o] \in OptionState /\ option \in [Options -> OptionState]
    BY DEF RequestsInv, RequestsTypeOK, OptionState
  <1>2. ASSUME NEW f \in Fields, CreateOption(f, o)  PROVE RequestsInv'
    <2> USE <1>2 DEF CreateOption
    <2>1. option[o].of = None
      BY DEF RequestsInv, OptionsHaveTheirList
    <2>2. [NoOption EXCEPT !.of = f] \in OptionState /\ [NoOption EXCEPT !.of = f].of = f
      BY NewOnes DEF NoOption
    <2>3. Cardinality(LiveOptions(f)) < MaxOptions
      BY DEF HasRoom
    <2>4. option'[o] = [NoOption EXCEPT !.of = f] /\ option' = [option EXCEPT ![o] = option'[o]]
      BY <1>1
    <2>5. used \subseteq used' /\ used' \subseteq Fields \cup Options /\ o \in used' /\ changes' \in Nat
      BY <1>1
    <2>6. field[f].kind = "SELECT" /\ UNCHANGED <<shelved, intake, field, rule, card, request>>
      OBVIOUS
    <2>7. /\ option[o].of \in {f, None} /\ option'[o].of \in {f, None}
          /\ option'[o].of = f => o \in used' /\ field[f].kind = "SELECT"
          /\ LiveOptions(f)' \subseteq LiveOptions(f) \/ Cardinality(LiveOptions(f)) < MaxOptions
          /\ option'[o].of = f \/ \A c \in Cards : card[c].values[f] # o
          /\ option'[o].of = f \/ \A q \in Rules : rule[q][f].value # o
      BY <2>1, <2>2, <2>3, <2>4, <2>5, <2>6
    <2>8. option'[o] \in OptionState
      BY <2>2, <2>4
    <2> QED  BY <2>4, <2>5, <2>6, <2>7, <2>8, OneListChanges
  <1>3. CASE ArchiveOption(o)
    <2> USE <1>3 DEF ArchiveOption
    <2>0. PICK f \in Fields : f = option[o].of
      BY <1>1 DEF OptionState
    <2> DEFINE now == [option[o] EXCEPT !.archived = ~@]
    <2>1. o \in used /\ field[f].kind = "SELECT"
      BY <1>1, <2>0, RequestAssumption DEF RequestsInv, OptionsHaveTheirList
    <2>2. now \in OptionState /\ now.of = f /\ now.archived = ~option[o].archived
      BY <1>1, <2>0 DEF OptionState
    <2>3. option'[o] = now /\ option' = [option EXCEPT ![o] = option'[o]]
      BY <1>1
    <2>4. LiveOptions(f)' \subseteq LiveOptions(f) \/ Cardinality(LiveOptions(f)) < MaxOptions
      <3>1. CASE option[o].archived
        BY <2>0, <3>1 DEF HasRoom
      <3>2. CASE ~option[o].archived
        <4>1. \A p \in Options : option'[p].of = option[p].of /\ (~option'[p].archived => ~option[p].archived)
          BY <1>1, <2>2, <2>3, <3>2
        <4> QED  BY <4>1 DEF LiveOptions, OptionsOf
      <3> QED  BY <3>1, <3>2
    <2>5. /\ UNCHANGED <<shelved, intake, field, rule, card, request, used>> /\ changes' \in Nat
          /\ used \subseteq Fields \cup Options /\ option[o].of = f
      BY <1>1, <2>0
    <2> HIDE DEF now
    <2>6. /\ option[o].of \in {f, None} /\ option'[o].of \in {f, None}
          /\ option'[o].of = f => o \in used' /\ field[f].kind = "SELECT"
          /\ LiveOptions(f)' \subseteq LiveOptions(f) \/ Cardinality(LiveOptions(f)) < MaxOptions
          /\ option'[o].of = f \/ \A c \in Cards : card[c].values[f] # o
          /\ option'[o].of = f \/ \A q \in Rules : rule[q][f].value # o
      BY <2>1, <2>2, <2>3, <2>4, <2>5
    <2>7. option'[o] \in OptionState
      BY <2>2, <2>3
    <2> QED  BY <2>3, <2>5, <2>6, <2>7, OneListChanges
  <1>4. CASE DeleteOption(o)
    <2> USE <1>4 DEF DeleteOption
    <2>1. PICK f \in Fields : f = option[o].of
      BY <1>1 DEF OptionState
    <2>2. NoOption \in OptionState /\ NoOption.of = None /\ f # None
      BY <2>1, NewOnes, RequestAssumption DEF NoOption
    <2>3. option'[o] = NoOption /\ option' = [option EXCEPT ![o] = option'[o]]
      BY <1>1
    <2>4. LiveOptions(f)' \subseteq LiveOptions(f)
      <3>1. \A p \in Options : option'[p] = IF p = o THEN NoOption ELSE option[p]
        BY <1>1
      <3> QED  BY <2>2, <3>1 DEF LiveOptions, OptionsOf
    <2>5. /\ UNCHANGED <<shelved, intake, field, rule, card, request, used>> /\ changes' \in Nat
          /\ used \subseteq Fields \cup Options /\ option[o].of = f
          /\ \A c \in Cards : card[c].values[f] # o
          /\ \A q \in Rules : rule[q][f].value # o
      BY <1>1, <2>1
    <2>6. /\ option[o].of \in {f, None} /\ option'[o].of \in {f, None}
          /\ option'[o].of = f => o \in used' /\ field[f].kind = "SELECT"
          /\ LiveOptions(f)' \subseteq LiveOptions(f) \/ Cardinality(LiveOptions(f)) < MaxOptions
          /\ option'[o].of = f \/ \A c \in Cards : card[c].values[f] # o
          /\ option'[o].of = f \/ \A q \in Rules : rule[q][f].value # o
      BY <2>1, <2>2, <2>3, <2>4, <2>5
    <2>7. option'[o] \in OptionState
      BY <2>2, <2>3
    <2> QED  BY <2>3, <2>5, <2>6, <2>7, OneListChanges
  <1> QED  BY <1>2, <1>3, <1>4

LEMMA SetRuleKeeps ==
    ASSUME RequestsInv, NEW q \in Rules, NEW f \in Fields, NEW x \in Values \cup {None},
           NEW overwrite \in BOOLEAN, SetRule(q, f, x, overwrite)
    PROVE  RequestsInv'
  <1> USE DEF SetRule, Manage
  <1> DEFINE new == IF x = None THEN NoRule ELSE [value |-> x, overwrite |-> overwrite]
  <1>1. new \in [value : Values \cup {None}, overwrite : BOOLEAN] /\ new.value = x
    BY DEF NoRule
  <1>2. /\ rule \in [Rules -> [Fields -> [value : Values \cup {None}, overwrite : BOOLEAN]]]
        /\ rule' = [rule EXCEPT ![q][f] = new]
    BY DEF RequestsInv, RequestsTypeOK
  <1> HIDE DEF new
  <1>3. \A p \in Rules, g \in Fields : rule'[p][g] = IF p = q /\ g = f THEN new ELSE rule[p][g]
    BY <1>2
  <1>4. RequestsTypeOK'
    BY <1>1, <1>2 DEF RequestsInv, RequestsTypeOK
  <1>5. /\ WithinLimits' /\ OptionsHaveTheirList'
        /\ \A g \in Fields : \A y : Fits(g, y) => Fits(g, y)'
    BY FieldsUntouched
  <1>6. x # None => Fits(f, x)
    BY ParsedFits DEF Live
  <1>7. ValuesFit'
    <2>1. (\A g \in Fields, c \in Cards : card[c].values[g] # None => Fits(g, card[c].values[g]))'
      BY <1>5 DEF RequestsInv, ValuesFit
    <2>2. \A g \in Fields, p \in Rules : rule'[p][g].value # None => Fits(g, rule'[p][g].value)
      BY <1>1, <1>3, <1>6 DEF RequestsInv, ValuesFit
    <2>3. (\A g \in Fields, p \in Rules : rule[p][g].value # None => Fits(g, rule[p][g].value))'
      <3> SUFFICES ASSUME NEW g \in Fields, NEW p \in Rules, rule'[p][g].value # None
                   PROVE  Fits(g, rule[p][g].value)'
        OBVIOUS
      <3>1. Fits(g, rule'[p][g].value)
        BY <2>2
      <3> QED  BY <3>1 DEF Fits, Parses, Exists, OptionsOf
    <2> QED  BY <2>1, <2>3 DEF ValuesFit
  <1>8. AskedInItsKind' /\ ShelfIsQuiet' /\ UnmadeCardsAreBlank'
    BY DEF RequestsInv, AskedInItsKind, ShelfIsQuiet, AtRest, NoOpenCard, UnmadeCardsAreBlank
  <1> QED  BY <1>4, <1>5, <1>7, <1>8 DEF RequestsInv

LEMMA UpdateIntakeKeeps ==
    ASSUME RequestsInv, NEW on \in BOOLEAN, NEW forms \in [Fields -> {"no", "optional", "required"}],
           UpdateIntake(on, forms)
    PROVE  RequestsInv'
  <1> USE DEF UpdateIntake, Manage
  <1>1. field \in [Fields -> FieldState]
    BY DEF RequestsInv, RequestsTypeOK, FieldState
  <1>2. \A f \in Fields : /\ field'[f] \in FieldState
                          /\ field'[f].kind = field[f].kind /\ field'[f].archived = field[f].archived
    BY <1>1 DEF FieldState
  <1>3. RequestsTypeOK'
    <2>1. field' \in [Fields -> FieldState]
      BY <1>2
    <2> QED  BY <2>1 DEF RequestsInv, RequestsTypeOK, FieldState
  <1>4. \A f \in Fields : OptionsOf(f)' = OptionsOf(f) /\ LiveOptions(f)' = LiveOptions(f)
    BY DEF OptionsOf, LiveOptions
  <1>5. WithinLimits'
    <2>1. LiveFields' = LiveFields
      BY <1>2 DEF LiveFields, Live, Exists
    <2> QED  BY <1>4, <2>1 DEF WithinLimits, RequestsInv
  <1>6. OptionsHaveTheirList'
    BY <1>2 DEF RequestsInv, OptionsHaveTheirList, Exists, RequestsTypeOK
  <1>7. \A f \in Fields : \A x : Fits(f, x) => Fits(f, x)'
    BY <1>2, <1>4, StillFits
  <1> QED  BY <1>3, <1>5, <1>6, <1>7, FieldStepKeepsTheRest

LEMMA FieldStepKeeps ==
    ASSUME RequestsInv, FieldStep
    PROVE  RequestsInv'
  BY CreateFieldKeeps, ChangeKindKeeps, ArchiveFieldKeeps, DeleteFieldKeeps, OptionsKeep,
     SetRuleKeeps, UpdateIntakeKeeps DEF FieldStep

-----------------------------------------------------------------------------
(* Cards and what is made of requests.                                      *)

CardState    == [state : {"none", "open", "closed"}, of : Requests \cup {None}, values : FieldValues]
RequestState == [status : Statuses \cup {"none"}, values : FieldValues,
                 card : Cards \cup {None}, kinds : [Fields -> Kinds \cup {None}]]

\* Values that a card may hold now, archived options included.
Holdable == {v \in FieldValues : \A f \in Fields : v[f] # None => Fits(f, v[f])}

\* Forms and rules write what parses, and nothing to an archived field.
LEMMA WritingFits ==
    ASSUME RequestsInv, NEW values \in Holdable
    PROVE  /\ \A sent \in FieldValues : ~Refused(sent, values) => Edited(values, sent) \in Holdable
           /\ \A q \in Rules \cup {None} : Ruled(values, q) \in Holdable
  <1>1. ASSUME NEW sent \in FieldValues, ~Refused(sent, values)
        PROVE  Edited(values, sent) \in Holdable
    <2>1. Edited(values, sent) \in FieldValues
      BY DEF Edited, FieldValues, Holdable
    <2>2. ASSUME NEW f \in Fields, Edited(values, sent)[f] # None
          PROVE  Fits(f, Edited(values, sent)[f])
      <3>1. CASE Live(f)
        BY <1>1, <3>1, ParsedFits DEF Edited, Refused, Live
      <3>2. CASE ~Live(f)
        BY <2>2, <3>2 DEF Edited, Holdable
      <3> QED  BY <3>1, <3>2
    <2> QED  BY <2>1, <2>2 DEF Holdable
  <1>2. ASSUME NEW q \in Rules  PROVE Ruled(values, q) \in Holdable
    <2>0. q # None
      BY RequestAssumption
    <2>1. Ruled(values, q) \in FieldValues
      BY <2>0 DEF Ruled, FieldValues, Holdable, RequestsInv, RequestsTypeOK
    <2>2. \A f \in Fields : Ruled(values, q)[f] # None =>
             \/ Ruled(values, q)[f] = values[f]
             \/ Ruled(values, q)[f] = rule[q][f].value
      BY <2>0 DEF Ruled
    <2>3. \A f \in Fields : rule[q][f].value # None => Fits(f, rule[q][f].value)
      BY DEF RequestsInv, ValuesFit
    <2> QED  BY <2>1, <2>2, <2>3 DEF Holdable
  <1>3. Ruled(values, None) \in Holdable
    BY DEF Ruled
  <1> QED  BY <1>1, <1>2, <1>3

LEMMA NothingIsHoldable == Empty \in Holdable
  BY DEF Empty, Holdable, FieldValues

\* One card changes, on a board that is not on the shelf or without being
\* taken into work.
LEMMA OneCardChanges ==
    ASSUME RequestsInv, NEW c \in Cards, card' = [card EXCEPT ![c] = card'[c]],
           card'[c] \in CardState, card'[c].values \in Holdable,
           UNCHANGED <<shelved, intake, field, option, rule, used, changes>>,
           request' \in [Requests -> RequestState],
           AskedInItsKind',
           shelved => \A r \in Requests : request'[r].status # "NEW",
           shelved => card'[c].state # "open",
           card'[c].state # "none"
    PROVE  RequestsInv'
  <1>1. card \in [Cards -> CardState] /\ card' \in [Cards -> CardState]
    BY DEF RequestsInv, RequestsTypeOK, CardState
  <1>2. RequestsTypeOK'
    BY <1>1 DEF RequestsInv, RequestsTypeOK, CardState, RequestState
  <1>3. /\ WithinLimits' /\ OptionsHaveTheirList'
        /\ \A g \in Fields : \A y : Fits(g, y) => Fits(g, y)'
    BY FieldsUntouched
  <1>4. \A d \in Cards \ {c} : card'[d] = card[d]
    BY <1>1
  <1>5. ValuesFit'
    <2>1. \A g \in Fields, d \in Cards : card'[d].values[g] # None => Fits(g, card'[d].values[g])
      BY <1>4 DEF RequestsInv, ValuesFit, Holdable
    <2>2. (\A g \in Fields, d \in Cards : card[d].values[g] # None => Fits(g, card[d].values[g]))'
      <3> SUFFICES ASSUME NEW g \in Fields, NEW d \in Cards, card'[d].values[g] # None
                   PROVE  Fits(g, card[d].values[g])'
        OBVIOUS
      <3>1. Fits(g, card'[d].values[g])
        BY <2>1
      <3> QED  BY <3>1 DEF Fits, Parses, Exists, OptionsOf
    <2>3. (\A g \in Fields, p \in Rules : rule[p][g].value # None => Fits(g, rule[p][g].value))'
      BY <1>3 DEF RequestsInv, ValuesFit
    <2> QED  BY <2>2, <2>3 DEF ValuesFit
  <1>6. ShelfIsQuiet'
    BY <1>4 DEF RequestsInv, ShelfIsQuiet, AtRest, NoOpenCard
  <1>7. UnmadeCardsAreBlank'
    BY <1>4 DEF RequestsInv, UnmadeCardsAreBlank
  <1> QED  BY <1>2, <1>3, <1>5, <1>6, <1>7 DEF RequestsInv

LEMMA HeldIsHoldable ==
    ASSUME RequestsInv, NEW c \in Cards
    PROVE  card[c].values \in Holdable /\ card[c] \in CardState
  BY DEF RequestsInv, RequestsTypeOK, ValuesFit, Holdable, CardState

LEMMA RequestsTyped ==
    ASSUME RequestsInv
    PROVE  /\ request \in [Requests -> RequestState] /\ AskedInItsKind
           /\ shelved => \A r \in Requests : request[r].status # "NEW"
           /\ shelved => \A c \in Cards : card[c].state # "open"
  BY DEF RequestsInv, RequestsTypeOK, RequestState, ShelfIsQuiet, AtRest, NoOpenCard

LEMMA CardStepKeeps ==
    ASSUME RequestsInv, CardStep
    PROVE  RequestsInv'
  <1>1. PICK c \in Cards :
           \/ \E sent \in Forms :
                 \/ UpdateCard(c, sent)
                 \/ \E q \in Rules \cup {None} : CreateCard(c, sent, q)
           \/ \E q \in Rules : ApplyRules(c, q)
           \/ CloseCard(c) \/ ReopenCard(c)
    BY DEF CardStep
  <1>2. UNCHANGED request => request' \in [Requests -> RequestState] /\ AskedInItsKind'
    BY RequestsTyped DEF AskedInItsKind
  <1>3. card[c].values \in Holdable /\ card[c] \in CardState /\ card \in [Cards -> CardState]
    BY HeldIsHoldable DEF RequestsInv, RequestsTypeOK, CardState
  <1>4. Forms \subseteq FieldValues
    BY DEF Forms, FieldValues
  <1>5. Empty \in Holdable
    BY NothingIsHoldable
  <1>6. ASSUME NEW values \in Holdable, card' = [card EXCEPT ![c].values = values], ~shelved,
               card[c].state = "open",
               UNCHANGED <<shelved, intake, field, option, rule, request, used, changes>>
        PROVE  RequestsInv'
    <2>1. card'[c] = [card[c] EXCEPT !.values = values] /\ card' = [card EXCEPT ![c] = card'[c]]
      BY <1>3, <1>6
    <2>2. card'[c] \in CardState /\ card'[c].values = values /\ card'[c].state = "open"
      BY <1>3, <1>6, <2>1 DEF CardState, Holdable
    <2> QED  BY <1>2, <1>6, <2>1, <2>2, OneCardChanges
  <1>7. ASSUME NEW state \in {"open", "closed"}, card' = [card EXCEPT ![c].state = state],
               shelved => state = "closed",
               UNCHANGED <<shelved, intake, field, option, rule, request, used, changes>>
        PROVE  RequestsInv'
    <2>1. card'[c] = [card[c] EXCEPT !.state = state] /\ card' = [card EXCEPT ![c] = card'[c]]
      BY <1>3, <1>7
    <2>2. card'[c] \in CardState /\ card'[c].values = card[c].values /\ card'[c].state = state
      BY <1>3, <2>1 DEF CardState
    <2> QED  BY <1>2, <1>3, <1>7, <2>1, <2>2, OneCardChanges, RequestsTyped
  <1>8. ASSUME NEW sent \in Forms, UpdateCard(c, sent)  PROVE RequestsInv'
    <2>1. Edited(card[c].values, sent) \in Holdable
      BY <1>3, <1>4, <1>8, WritingFits DEF UpdateCard
    <2>2. card' = [card EXCEPT ![c].values = Edited(card[c].values, sent)]
      BY <1>3, <1>8 DEF UpdateCard
    <2> QED  BY <1>6, <1>8, <2>1, <2>2 DEF UpdateCard
  <1>9. ASSUME NEW sent \in Forms, NEW q \in Rules \cup {None}, CreateCard(c, sent, q)
        PROVE  RequestsInv'
    <2> DEFINE values == Ruled(Edited(Empty, sent), q)
    <2>1. values \in Holdable
      BY <1>4, <1>5, <1>9, WritingFits DEF CreateCard
    <2>2. /\ card'[c] = [NoCard EXCEPT !.state = "open", !.values = values]
          /\ card' = [card EXCEPT ![c] = card'[c]]
      BY <1>3, <1>9 DEF CreateCard
    <2> HIDE DEF values
    <2>3. card'[c] \in CardState /\ card'[c].values = values /\ card'[c].state = "open"
      BY <2>1, <2>2 DEF NoCard, CardState, Holdable
    <2> QED  BY <1>2, <1>9, <2>1, <2>2, <2>3, OneCardChanges DEF CreateCard
  <1>10. ASSUME NEW q \in Rules, ApplyRules(c, q)  PROVE RequestsInv'
    <2>1. Ruled(card[c].values, q) \in Holdable
      BY <1>3, WritingFits
    <2>2. card' = [card EXCEPT ![c].values = Ruled(card[c].values, q)]
      BY <1>3, <1>10 DEF ApplyRules
    <2> QED  BY <1>6, <1>10, <2>1, <2>2 DEF ApplyRules
  <1>11. CASE CloseCard(c) \/ ReopenCard(c)
    BY <1>7, <1>11 DEF CloseCard, ReopenCard
  <1> QED  BY <1>1, <1>8, <1>9, <1>10, <1>11

-----------------------------------------------------------------------------
(* Requests, the shelf, and the three properties.                           *)

\* One request changes, or the board goes on the shelf or comes back.
LEMMA RequestsChange ==
    ASSUME RequestsInv, UNCHANGED <<intake, field, option, rule, card, used>>,
           changes' \in Nat, shelved' \in BOOLEAN,
           request' \in [Requests -> RequestState], AskedInItsKind', ShelfIsQuiet'
    PROVE  RequestsInv'
  <1>1. RequestsTypeOK'
    BY DEF RequestsInv, RequestsTypeOK, RequestState
  <1>2. /\ WithinLimits' /\ OptionsHaveTheirList'
        /\ \A g \in Fields : \A y : Fits(g, y) => Fits(g, y)'
    BY FieldsUntouched
  <1>3. ValuesFit'
    BY <1>2 DEF RequestsInv, ValuesFit
  <1>4. UnmadeCardsAreBlank'
    BY DEF RequestsInv, UnmadeCardsAreBlank
  <1> QED  BY <1>1, <1>2, <1>3, <1>4 DEF RequestsInv

\* What is asked is checked when it is sent, in the kind the field has then.
LEMMA SubmitKeeps ==
    ASSUME RequestsInv, NEW r \in Requests, NEW sent \in Forms, SubmitRequest(r, sent)
    PROVE  RequestsInv'
  <1> USE DEF SubmitRequest
  <1> DEFINE new == [status |-> "NEW", card |-> None,
                     values |-> [f \in Fields |-> IF Asked(f) THEN sent[f] ELSE None],
                     kinds  |-> [f \in Fields |-> field[f].kind]]
  <1>1. request \in [Requests -> RequestState] /\ request' = [request EXCEPT ![r] = new]
    BY RequestsTyped
  <1>2. new \in RequestState
    BY DEF RequestState, Statuses, FieldValues, Forms, RequestsInv, RequestsTypeOK
  <1>3. \A f \in Fields : new.values[f] # None =>
           /\ new.kinds[f] = "NUMBER" => new.values[f] = "digits" \/ new.values[f] \in Options
           /\ new.kinds[f] = "DATE" => new.values[f] = "day"
    BY DEF Parses
  <1> HIDE DEF new
  <1>4. \A p \in Requests : request'[p] = IF p = r THEN new ELSE request[p]
    BY <1>1
  <1>5. AskedInItsKind'
    BY <1>3, <1>4, RequestsTyped DEF AskedInItsKind
  <1>6. ShelfIsQuiet' /\ request' \in [Requests -> RequestState] /\ shelved' \in BOOLEAN /\ changes' \in Nat
    BY <1>1, <1>2 DEF ShelfIsQuiet, RequestsInv, RequestsTypeOK
  <1> QED  BY <1>5, <1>6, RequestsChange

\* An answer takes the request out of those that wait.
LEMMA AnswerKeeps ==
    ASSUME RequestsInv, NEW r \in Requests, NEW status \in Statuses \ {"NEW"},
           NEW born \in Cards \cup {None},
           request' = [request EXCEPT ![r].status = status, ![r].card = born],
           UNCHANGED shelved
    PROVE  /\ request' \in [Requests -> RequestState] /\ AskedInItsKind'
           /\ shelved => \A p \in Requests : request'[p].status # "NEW"
  <1>1. request \in [Requests -> RequestState] /\ request[r] \in RequestState
    BY RequestsTyped
  <1> DEFINE new == [request[r] EXCEPT !.status = status, !.card = born]
  <1>2. new \in RequestState /\ new.status = status
    BY <1>1 DEF RequestState
  <1>3. request' = [request EXCEPT ![r] = new]
    BY <1>1
  <1> HIDE DEF new
  <1>4. \A p \in Requests : request'[p] = IF p = r THEN new ELSE request[p]
    BY <1>1, <1>3
  <1> QED  BY <1>1, <1>2, <1>3, <1>4, RequestsTyped DEF AskedInItsKind

\* The same when no card is made.
LEMMA RefusalKeeps ==
    ASSUME RequestsInv, NEW r \in Requests, NEW status \in Statuses \ {"NEW"},
           request' = [request EXCEPT ![r].status = status],
           UNCHANGED <<shelved, intake, field, option, rule, card, used, changes>>
    PROVE  RequestsInv'
  <1>1. request \in [Requests -> RequestState] /\ request[r] \in RequestState
    BY RequestsTyped
  <1>2. PICK born \in Cards \cup {None} : born = request[r].card
    BY <1>1 DEF RequestState
  <1>3. [request[r] EXCEPT !.status = status] = [request[r] EXCEPT !.status = status, !.card = born]
    BY <1>1, <1>2 DEF RequestState
  <1>4. request' = [request EXCEPT ![r].status = status, ![r].card = born]
    BY <1>1, <1>3
  <1>5. /\ request' \in [Requests -> RequestState] /\ AskedInItsKind'
        /\ shelved => \A p \in Requests : request'[p].status # "NEW"
    BY <1>4, AnswerKeeps
  <1>6. ShelfIsQuiet' /\ shelved' \in BOOLEAN /\ changes' \in Nat
    BY <1>5, RequestsTyped DEF ShelfIsQuiet, AtRest, NoOpenCard, RequestsInv, RequestsTypeOK
  <1> QED  BY <1>5, <1>6, RequestsChange

LEMMA AcceptKeeps ==
    ASSUME RequestsInv, NEW r \in Requests, NEW c \in Cards, NEW q \in Rules \cup {None},
           AcceptRequest(r, c, q)
    PROVE  RequestsInv'
  <1> USE DEF AcceptRequest
  <1>1. ValuesForCard(r) \in Holdable
    <2>1. request[r].values \in FieldValues
      BY RequestsTyped DEF RequestState
    <2>2. ValuesForCard(r) \in FieldValues
      BY <2>1 DEF ValuesForCard, FieldValues
    <2>3. ASSUME NEW f \in Fields, ValuesForCard(r)[f] # None
          PROVE  Fits(f, ValuesForCard(r)[f])
      <3>1. Live(f)
        BY <2>3 DEF ValuesForCard
      <3> QED  BY <3>1, ParsedFits DEF Refused, Live
    <2> QED  BY <2>2, <2>3 DEF Holdable
  <1> DEFINE values == Ruled(ValuesForCard(r), q)
  <1>2. values \in Holdable
    BY <1>1, WritingFits
  <1>3. card \in [Cards -> CardState]
    BY DEF RequestsInv, RequestsTypeOK, CardState
  <1>4. card'[c] = [state |-> "open", of |-> r, values |-> values] /\ card' = [card EXCEPT ![c] = card'[c]]
    BY <1>3
  <1> HIDE DEF values
  <1>5. card'[c] \in CardState /\ card'[c].values = values /\ card'[c].state = "open"
    BY <1>2, <1>4 DEF CardState, Holdable
  <1>6. /\ request' \in [Requests -> RequestState] /\ AskedInItsKind'
        /\ shelved => \A p \in Requests : request'[p].status # "NEW"
    BY AnswerKeeps DEF Statuses
  <1> QED  BY <1>2, <1>4, <1>5, <1>6, OneCardChanges

LEMMA RequestStepKeeps ==
    ASSUME RequestsInv, RequestStep
    PROVE  RequestsInv'
  <1>1. ASSUME NEW r \in Requests,
               WithdrawRequest(r) \/ RejectRequest(r) \/ \E c \in Cards : MarkDuplicate(r, c)
        PROVE  RequestsInv'
    BY <1>1, RefusalKeeps DEF WithdrawRequest, RejectRequest, MarkDuplicate, Statuses
  <1> QED  BY <1>1, SubmitKeeps, AcceptKeeps DEF RequestStep

LEMMA RequestsNextKeeps == RequestsInv /\ [RequestsNext]_requestsVars => RequestsInv'
  <1> SUFFICES ASSUME RequestsInv, [RequestsNext]_requestsVars  PROVE RequestsInv'
    OBVIOUS
  <1>1. UNCHANGED request => request' \in [Requests -> RequestState] /\ AskedInItsKind'
    BY RequestsTyped DEF AskedInItsKind
  <1>2. CASE ArchiveBoard
    <2>1. ShelfIsQuiet' /\ shelved' \in BOOLEAN /\ changes' \in Nat
      BY <1>2 DEF ArchiveBoard, Manage, ShelfIsQuiet, AtRest, NoOpenCard, RequestsInv, RequestsTypeOK
    <2> QED  BY <1>1, <1>2, <2>1, RequestsChange DEF ArchiveBoard
  <1>3. CASE RestoreBoard
    <2>1. ShelfIsQuiet' /\ shelved' \in BOOLEAN /\ changes' \in Nat
      BY <1>3 DEF RestoreBoard, ShelfIsQuiet, RequestsInv, RequestsTypeOK
    <2> QED  BY <1>1, <1>3, <2>1, RequestsChange DEF RestoreBoard
  <1>4. CASE UNCHANGED requestsVars
    <2>1. ShelfIsQuiet' /\ shelved' \in BOOLEAN /\ changes' \in Nat
      BY <1>4 DEF requestsVars, ShelfIsQuiet, AtRest, NoOpenCard, RequestsInv, RequestsTypeOK
    <2> QED  BY <1>1, <1>4, <2>1, RequestsChange DEF requestsVars
  <1> QED  BY <1>2, <1>3, <1>4, FieldStepKeeps, CardStepKeeps, RequestStepKeeps DEF RequestsNext

LEMMA RequestsInvariant == RequestsSpec => []RequestsInv
  BY RequestsInvAtFirst, RequestsNextKeeps, PTL DEF RequestsSpec

\* What is taken over of a request that waits is refused by nothing, as long as
\* each field it was asked has the kind it had then.
LEMMA WaitingCanBeAccepted ==
    ASSUME RequestsInv, NEW r \in Requests, request[r].status = "NEW",
           \A f \in Fields : Exists(f) /\ request[r].values[f] # None => field[f].kind = request[r].kinds[f]
    PROVE  ~Refused(ValuesForCard(r), Empty)
  <1> SUFFICES ASSUME NEW f \in Fields, Live(f)
               PROVE  Parses(f, ValuesForCard(r)[f], Empty[f])
    BY DEF Refused
  <1>1. Empty[f] = None /\ Exists(f)
    BY DEF Empty, Live
  <1>2. CASE ValuesForCard(r)[f] = None
    BY <1>2 DEF Parses
  <1>3. CASE ValuesForCard(r)[f] # None
    <2>1. /\ ValuesForCard(r)[f] = request[r].values[f]
          /\ field[f].kind = "SELECT" => request[r].values[f] \in LiveOptions(f)
      BY <1>3 DEF ValuesForCard
    <2>2. field[f].kind = request[r].kinds[f]
      BY <1>1, <1>3, <2>1
    <2>3. field[f].kind \in Kinds
      BY <1>1 DEF Exists, RequestsInv, RequestsTypeOK
    <2>4. /\ field[f].kind = "NUMBER" => request[r].values[f] = "digits" \/ request[r].values[f] \in Options
          /\ field[f].kind = "DATE" => request[r].values[f] = "day"
      BY <1>3, <2>1, <2>2 DEF RequestsInv, AskedInItsKind
    <2> QED  BY <2>1, <2>3, <2>4 DEF Parses, Kinds, LiveOptions
  <1> QED  BY <1>2, <1>3

\* Fields and lists stay within what the forms have room for, and whatever a
\* card or a rule holds is a value of a field that is there.
THEOREM FieldsAreHeldUp == RequestsSpec => []FieldsHoldUp
  <1>1. RequestsInv => FieldsHoldUp
    BY DEF RequestsInv, FieldsHoldUp
  <1> QED  BY <1>1, RequestsInvariant, PTL

\* A request that waits can be accepted, and none waits on the shelf.
THEOREM WaitingIsAnswered == RequestsSpec => []WaitingGetsAnAnswer
  <1>1. RequestsInv => WaitingGetsAnAnswer
    <2> SUFFICES ASSUME RequestsInv  PROVE WaitingGetsAnAnswer
      OBVIOUS
    <2> QED  BY WaitingCanBeAccepted, RequestsTyped DEF WaitingGetsAnAnswer
  <1> QED  BY <1>1, RequestsInvariant, PTL

\* An answer is given once: afterwards nothing touches the request, nor are
\* there other cards made of it.
THEOREM AnswersAreFinal == RequestsSpec => AnswersStand
  <1>1. RequestsInv /\ [RequestsNext]_requestsVars =>
           \A r \in Requests :
              request[r].status \notin {"none", "NEW"} =>
                 /\ request'[r] = request[r]
                 /\ \A c \in Cards : card'[c].of = r <=> card[c].of = r
    <2> SUFFICES ASSUME RequestsInv, [RequestsNext]_requestsVars,
                        NEW r \in Requests, request[r].status \notin {"none", "NEW"}
                 PROVE  /\ request'[r] = request[r]
                        /\ \A c \in Cards : card'[c].of = r <=> card[c].of = r
      OBVIOUS
    <2>1. request \in [Requests -> RequestState] /\ card \in [Cards -> CardState]
      BY RequestsTyped DEF RequestsInv, RequestsTypeOK, CardState
    <2>2. CASE FieldStep \/ ArchiveBoard \/ RestoreBoard \/ UNCHANGED requestsVars
      BY <2>2 DEF FieldStep, CreateField, ChangeKind, ArchiveField, DeleteField, CreateOption,
                  ArchiveOption, DeleteOption, SetRule, UpdateIntake, ArchiveBoard, RestoreBoard, requestsVars
    <2>3. ASSUME NEW d \in Cards, NEW sent \in Forms, NEW q \in Rules \cup {None},
                 CreateCard(d, sent, q)
          PROVE  UNCHANGED request /\ \A c \in Cards : card'[c].of = r <=> card[c].of = r
      BY <2>1, <2>3, RequestAssumption DEF CreateCard, NoCard, RequestsInv, UnmadeCardsAreBlank
    <2>4. ASSUME NEW d \in Cards,
                 \/ \E sent \in Forms : UpdateCard(d, sent)
                 \/ \E q \in Rules : ApplyRules(d, q)
                 \/ CloseCard(d) \/ ReopenCard(d)
          PROVE  UNCHANGED request /\ \A c \in Cards : card'[c].of = card[c].of
      BY <2>1, <2>4 DEF UpdateCard, ApplyRules, CloseCard, ReopenCard, CardState
    <2>5. ASSUME NEW p \in Requests,
                 \/ \E sent \in Forms : SubmitRequest(p, sent)
                 \/ WithdrawRequest(p) \/ RejectRequest(p)
                 \/ \E c \in Cards : MarkDuplicate(p, c)
          PROVE  UNCHANGED card /\ request'[r] = request[r]
      BY <2>1, <2>5 DEF SubmitRequest, WithdrawRequest, RejectRequest, MarkDuplicate, Undecided
    <2>6. ASSUME NEW p \in Requests, NEW d \in Cards, NEW q \in Rules \cup {None},
                 AcceptRequest(p, d, q)
          PROVE  request'[r] = request[r] /\ \A c \in Cards : card'[c].of = r <=> card[c].of = r
      BY <2>1, <2>6, RequestAssumption DEF AcceptRequest, Undecided, RequestsInv, UnmadeCardsAreBlank
    <2> QED  BY <2>2, <2>3, <2>4, <2>5, <2>6 DEF RequestsNext, CardStep, RequestStep
  <1> QED  BY <1>1, RequestsInvariant, PTL DEF RequestsSpec, AnswersStand

-----------------------------------------------------------------------------
(* One recovery, and one owner of it (LiveTabs).                            *)

Compared == Versions \cup {NotYet}

\* The scripts of a page, whatever they are about to do.
Scripts ==
    [page : {"closed", "loaded", "running", "gone"}, leader : BOOLEAN, standing : BOOLEAN,
     state : States, source : {"none", "opening", "open", "subscribed"},
     polling : BOOLEAN, safety : BOOLEAN, sync : Compared, known : Compared, snapshot : Compared,
     asking : BOOLEAN, due : BOOLEAN, shown : Versions]

\* Those of a page that recovers as a leader may, or not at all.
Owned ==
    {r \in Scripts :
        /\ r.polling \/ r.safety \/ r.source # "none" => r.leader
        /\ ~(r.polling /\ r.safety)}

TabsOwned ==
    /\ tab \in [Tabs -> Owned]
    /\ version \in Versions
    /\ revision \in [Versions -> Versions]

\* Every handler of a record leaves it owned: who polls or compares leads, and
\* the state it moves to starts the one and stops the other (sync.js).
LEMMA SetStateKeepsOwned ==
    ASSUME version \in Versions, NEW r \in Owned, NEW next \in States
    PROVE  SetState(r, next) \in Owned
  <1> DEFINE w == [r EXCEPT !.state = next]
             d == StartPolling([w EXCEPT !.safety = FALSE])
  <1>1. w \in Owned
    BY DEF Owned, Scripts
  <1>2. [w EXCEPT !.polling = FALSE, !.safety = w.leader] \in Owned
    BY DEF Owned, Scripts
  <1>3. d \in Owned
    BY DEF StartPolling, Owned, Scripts
  <1>4. RunSync(d) \in Owned
    <2> HIDE DEF d
    <2> QED  BY <1>3 DEF RunSync, Owned, Scripts, Compared
  <1>5. SetState(r, next) \in {r, w, d, RunSync(d), [w EXCEPT !.polling = FALSE, !.safety = w.leader]}
    BY DEF SetState
  <1> HIDE DEF w, d
  <1> QED  BY <1>1, <1>2, <1>3, <1>4, <1>5

LEMMA HandlersKeepOwned ==
    ASSUME version \in Versions, NEW r \in Owned
    PROVE  /\ RunSync(r) \in Owned
           /\ Schedule(r) \in Owned
           /\ OnLeaderDemoted(r) \in Owned
           /\ \A token \in Versions : ApplySnapshot(r, token) \in Owned
           /\ \A next \in States : HearsState(r, next) \in Owned
  <1>1. \A next \in States : HearsState(r, next) \in Owned
    BY SetStateKeepsOwned DEF HearsState
  <1>2. RunSync(r) \in Owned
    BY DEF RunSync, Owned, Scripts, Compared
  <1>3. Schedule(r) \in Owned /\ OnLeaderDemoted(r) \in Owned
    BY DEF Schedule, OnLeaderDemoted, Owned, Scripts
  <1>4. \A token \in Versions : ApplySnapshot(r, token) \in Owned
    BY DEF ApplySnapshot, Schedule, Owned, Scripts, Compared
  <1> QED  BY <1>1, <1>2, <1>3, <1>4

\* What a page posts is handled by the others; every record is owned again.
LEMMA DoesKeepsOwned ==
    ASSUME TabsOwned, NEW t \in Tabs, NEW r \in Owned, NEW heard \in [Tabs -> Owned],
           Does(t, r, heard)
    PROVE  tab' \in [Tabs -> Owned]
  BY DEF Does, TabsOwned

LEMMA MovesKeepsOwned ==
    ASSUME TabsOwned, NEW t \in Tabs, NEW r \in Owned, NEW next \in States,
           Moves(t, r, next)
    PROVE  tab' \in [Tabs -> Owned]
  <1> DEFINE told == [u \in Tabs |-> IF r.leader /\ r.state # next THEN HearsState(tab[u], next) ELSE tab[u]]
  <1>1. told \in [Tabs -> Owned]
    BY HandlersKeepOwned DEF TabsOwned
  <1>2. Does(t, SetState(r, next), told)
    BY DEF Moves
  <1>3. SetState(r, next) \in Owned
    BY SetStateKeepsOwned DEF TabsOwned
  <1> HIDE DEF told
  <1> QED  BY <1>1, <1>2, <1>3, DoesKeepsOwned

LEMMA BlankIsOwned ==
    /\ Blank \in Owned
    /\ [Blank EXCEPT !.page = "gone"] \in Owned
  <1>1. NotYet \in Compared /\ 0 \in Versions
    BY LiveTabsAssumption, SMT DEF Compared, Versions
  <1>2. Blank \in Scripts /\ Blank.polling = FALSE /\ Blank.safety = FALSE /\ Blank.source = "none"
    BY <1>1 DEF Blank, Scripts, States
  <1> QED  BY <1>2 DEF Owned, Scripts

\* What a page shows owns nothing.
LEMMA ShowingKeepsOwned ==
    ASSUME NEW r \in Owned, NEW v \in Versions
    PROVE  /\ [r EXCEPT !.page = "loaded", !.shown = v] \in Owned
           /\ [r EXCEPT !.due = FALSE, !.shown = v] \in Owned
           /\ [r EXCEPT !.due = FALSE] \in Owned
  BY DEF Owned, Scripts

LEMMA TabsOwnedAtFirst == TabsInit => TabsOwned
  <1>1. 0 \in Versions
    BY LiveTabsAssumption, SMT DEF Versions
  <1> QED  BY <1>1, BlankIsOwned DEF TabsInit, TabsOwned, Tokens

LEMMA StartCoordinatedKeepsOwned ==
    ASSUME TabsOwned, NEW t \in Tabs, StartCoordinated(t)
    PROVE  TabsOwned'
  <1> DEFINE r == [tab[t] EXCEPT !.page = "running", !.asking = LeasedToAnother(t),
                                 !.standing = ~lease.live]
             asked == {u \in Tabs : r.asking /\ Running(u) /\ tab[u].leader}
  <1>1. /\ tab[t] \in Owned /\ tab \in [Tabs -> Owned]
        /\ version' \in Versions /\ revision' \in [Versions -> Versions]
    BY DEF TabsOwned, StartCoordinated
  <1>2. r \in Owned
    BY <1>1 DEF Owned, Scripts, LeasedToAnother
  <1>3. \A u \in asked : Answered(r, tab[u]) \in Owned
    <2> SUFFICES ASSUME NEW u \in Tabs  PROVE Answered(r, tab[u]) \in Owned
      OBVIOUS
    <2>1. tab[u] \in Owned /\ tab[u].snapshot \in Compared /\ tab[u].state \in States
      BY <1>1 DEF Owned, Scripts
    <2>2. [r EXCEPT !.asking = FALSE] \in Owned
      BY <1>2 DEF Owned, Scripts
    <2> HIDE DEF r
    <2>3. tab[u].snapshot # NotYet => ApplySnapshot([r EXCEPT !.asking = FALSE], tab[u].snapshot) \in Owned
      BY <2>1, <2>2, HandlersKeepOwned DEF TabsOwned, Compared
    <2> QED  BY <1>2, <2>1, <2>3, HandlersKeepOwned DEF Answered, TabsOwned
  <1>4. \/ Does(t, r, tab)
        \/ \E u \in asked : Does(t, Answered(r, tab[u]), tab)
    BY DEF StartCoordinated
  <1> HIDE DEF r, asked
  <1> QED  BY <1>1, <1>2, <1>3, <1>4, DoesKeepsOwned DEF TabsOwned

LEMMA LeaseKeepsOwned ==
    ASSUME TabsOwned, NEW t \in Tabs,
           Renew(t) \/ Stand(t) \/ GiveWay(t) \/ BecomeLeader(t) \/ Load(t)
    PROVE  TabsOwned'
  <1>1. tab[t] \in Owned /\ tab \in [Tabs -> Owned] /\ version \in Versions
    BY DEF TabsOwned
  <1>2. CASE Renew(t)
    BY <1>1, <1>2, DoesKeepsOwned, HandlersKeepOwned DEF Renew, TabsOwned
  <1>3. CASE Stand(t) \/ GiveWay(t)
    <2>1. \A b \in BOOLEAN : [tab[t] EXCEPT !.standing = b] \in Owned
      BY <1>1 DEF Owned, Scripts
    <2> QED  BY <1>1, <1>3, <2>1 DEF Stand, GiveWay, TabsOwned
  <1>4. CASE BecomeLeader(t)
    <2> DEFINE r == OpenStream([tab[t] EXCEPT !.standing = FALSE, !.leader = TRUE, !.asking = FALSE])
    <2>1. r \in Owned
      BY <1>1 DEF OpenStream, Owned, Scripts
    <2>2. Moves(t, r, "connecting") /\ UNCHANGED <<version, revision>>
      BY <1>4 DEF BecomeLeader
    <2> HIDE DEF r
    <2> QED  BY <1>1, <2>1, <2>2, MovesKeepsOwned DEF TabsOwned, States
  <1>5. CASE Load(t)
    <2>1. [tab[t] EXCEPT !.page = "loaded", !.shown = version] \in Owned
      BY <1>1, ShowingKeepsOwned, Zenon
    <2> QED  BY <1>1, <1>5, <2>1 DEF Load, TabsOwned
  <1> QED  BY <1>2, <1>3, <1>4, <1>5

LEMMA StreamKeepsOwned ==
    ASSUME TabsOwned, NEW t \in Tabs,
           StreamOpens(t) \/ Subscribed(t) \/ StreamDrops(t) \/ StreamRefused(t) \/ Degrade(t)
    PROVE  TabsOwned'
  <1>1. tab[t] \in Owned /\ tab \in [Tabs -> Owned] /\ version \in Versions
    BY DEF TabsOwned
  <1>2. CASE StreamOpens(t)
    <2> DEFINE o == [tab[t] EXCEPT !.source = "open", !.polling = FALSE]
    <2>1. o \in Owned
      BY <1>1, <1>2 DEF StreamOpens, Owned, Scripts
    <2>2. Moves(t, Schedule(RunSync(o)), "live") /\ UNCHANGED <<version, revision>>
      BY <1>2 DEF StreamOpens
    <2> HIDE DEF o
    <2>3. Schedule(RunSync(o)) \in Owned
      BY <1>1, <2>1, HandlersKeepOwned
    <2> QED  BY <1>1, <2>2, <2>3, MovesKeepsOwned DEF TabsOwned, States
  <1>3. CASE Subscribed(t)
    BY <1>1, <1>3 DEF Subscribed, TabsOwned, Owned, Scripts
  <1>4. CASE StreamDrops(t)
    <2> DEFINE r == [tab[t] EXCEPT !.source = "opening"]
    <2>1. r \in Owned
      BY <1>1, <1>4 DEF StreamDrops, Owned, Scripts
    <2>2. (Moves(t, r, "connecting") \/ Does(t, r, tab)) /\ UNCHANGED <<version, revision>>
      BY <1>4 DEF StreamDrops
    <2> HIDE DEF r
    <2> QED  BY <1>1, <2>1, <2>2, MovesKeepsOwned, DoesKeepsOwned DEF TabsOwned, States
  <1>5. CASE StreamRefused(t)
    <2> DEFINE r == [tab[t] EXCEPT !.source = "none"]
    <2>1. r \in Owned
      BY <1>1 DEF Owned, Scripts
    <2>2. Moves(t, r, "degraded") /\ UNCHANGED <<version, revision>>
      BY <1>5 DEF StreamRefused
    <2> HIDE DEF r
    <2> QED  BY <1>1, <2>1, <2>2, MovesKeepsOwned DEF TabsOwned, States
  <1>6. CASE Degrade(t)
    BY <1>1, <1>6, MovesKeepsOwned DEF Degrade, TabsOwned, States
  <1> QED  BY <1>2, <1>3, <1>4, <1>5, <1>6

LEMMA ComparingKeepsOwned ==
    ASSUME TabsOwned, NEW t \in Tabs,
           PollTick(t) \/ SafetyTick(t) \/ SyncArrives(t) \/ SyncFails(t) \/ HandshakeTimesOut(t)
    PROVE  TabsOwned'
  <1>1. tab[t] \in Owned /\ tab \in [Tabs -> Owned] /\ version \in Versions
    BY DEF TabsOwned
  <1>2. CASE PollTick(t) \/ SafetyTick(t)
    BY <1>1, <1>2, HandlersKeepOwned DEF PollTick, SafetyTick, TabsOwned
  <1>3. CASE SyncArrives(t)
    <2>1. PICK v \in tab[t].sync..version :
            LET token == revision[v]
                r == [tab[t] EXCEPT !.sync = NotYet, !.snapshot = token]
                forwarded == [u \in Tabs |-> IF r.known # token THEN ApplySnapshot(tab[u], token) ELSE tab[u]]
            IN Does(t, ApplySnapshot(r, token), forwarded)
      BY <1>3 DEF SyncArrives
    <2> DEFINE token == revision[v]
               r == [tab[t] EXCEPT !.sync = NotYet, !.snapshot = token]
               forwarded == [u \in Tabs |-> IF r.known # token THEN ApplySnapshot(tab[u], token) ELSE tab[u]]
    <2>2. token \in Versions
      <3>1. tab[t].sync \in Versions
        BY <1>1, <1>3 DEF SyncArrives, Owned, Scripts, Compared
      <3>2. v \in Versions
        BY <1>1, <3>1, LiveTabsAssumption, SMT DEF Versions
      <3> QED  BY <3>2 DEF TabsOwned
    <2>3. r \in Owned
      <3> HIDE DEF token
      <3> QED  BY <1>1, <2>2 DEF Owned, Scripts, Compared
    <2>4. Does(t, ApplySnapshot(r, token), forwarded) /\ UNCHANGED <<version, revision>>
      BY <1>3, <2>1 DEF SyncArrives
    <2>5. forwarded \in [Tabs -> Owned]
      BY <1>1, <2>2, HandlersKeepOwned
    <2> HIDE DEF token, r, forwarded
    <2>6. ApplySnapshot(r, token) \in Owned
      BY <1>1, <2>2, <2>3, HandlersKeepOwned
    <2> QED  BY <1>1, <2>4, <2>5, <2>6, DoesKeepsOwned DEF TabsOwned
  <1>4. CASE SyncFails(t)
    BY <1>1, <1>4 DEF SyncFails, TabsOwned, Owned, Scripts, Compared
  <1>5. CASE HandshakeTimesOut(t)
    <2>1. [tab[t] EXCEPT !.asking = FALSE] \in Owned
      BY <1>1 DEF Owned, Scripts
    <2> QED  BY <1>1, <1>5, <2>1, HandlersKeepOwned DEF HandshakeTimesOut, TabsOwned
  <1> QED  BY <1>2, <1>3, <1>4, <1>5

LEMMA BlockKeepsOwned ==
    ASSUME TabsOwned, NEW t \in Tabs,
           Refresh(t) \/ RefreshFails(t) \/ Release(t) \/ Discard(t)
    PROVE  TabsOwned'
  <1>1. tab[t] \in Owned /\ tab \in [Tabs -> Owned] /\ version \in Versions
    BY DEF TabsOwned
  <1>2. CASE Refresh(t) \/ RefreshFails(t)
    <2>1. /\ [tab[t] EXCEPT !.due = FALSE, !.shown = version] \in Owned
          /\ [tab[t] EXCEPT !.due = FALSE] \in Owned
      BY <1>1, ShowingKeepsOwned, Zenon
    <2> QED  BY <1>1, <1>2, <2>1 DEF Refresh, RefreshFails, TabsOwned
  <1>3. CASE Release(t) \/ Discard(t)
    BY <1>1, <1>3, BlankIsOwned DEF Release, Discard, Gone, TabsOwned
  <1> QED  BY <1>2, <1>3

LEMMA TabsNextKeepsOwned == TabsOwned /\ [TabsNext]_tabsVars => TabsOwned'
  <1> SUFFICES ASSUME TabsOwned, [TabsNext]_tabsVars  PROVE TabsOwned'
    OBVIOUS
  <1>1. CASE Change
    <2>1. version' \in Versions
      BY <1>1, LiveTabsAssumption, SMT DEF Change, TabsOwned, Versions
    <2>2. \A t \in Tabs : Schedule(tab[t]) \in Owned
      BY HandlersKeepOwned DEF TabsOwned
    <2> QED  BY <1>1, <2>1, <2>2 DEF Change, TabsOwned
  <1>2. CASE LeaseRunsOut
    BY <1>2 DEF LeaseRunsOut, TabsOwned
  <1>3. ASSUME NEW t \in Tabs, Load(t) \/ Handlers(t)  PROVE TabsOwned'
    BY <1>3, StartCoordinatedKeepsOwned, LeaseKeepsOwned, StreamKeepsOwned,
       ComparingKeepsOwned, BlockKeepsOwned DEF Handlers
  <1>4. ASSUME NEW t \in Tabs,
               \/ StreamOpens(t) \/ Subscribed(t) \/ StreamDrops(t) \/ StreamRefused(t)
               \/ SyncFails(t) \/ RefreshFails(t)
               \/ Release(t) \/ Discard(t)
        PROVE TabsOwned'
    BY <1>4, StreamKeepsOwned, ComparingKeepsOwned, BlockKeepsOwned
  <1>5. CASE UNCHANGED tabsVars
    BY <1>5 DEF tabsVars, TabsOwned
  <1> QED  BY <1>1, <1>2, <1>3, <1>4, <1>5 DEF TabsNext

\* A page that polls, compares or listens leads, and does one of the first two
\* at a time, for any number of pages, changes and troubles.
THEOREM OneOwnerOfRecovery == TabsSpec => []RecoveryHasOneOwner
  <1>1. TabsOwned => RecoveryHasOneOwner
    BY DEF TabsOwned, Owned, RecoveryHasOneOwner
  <1> QED  BY <1>1, TabsOwnedAtFirst, TabsNextKeepsOwned, PTL DEF TabsSpec

-----------------------------------------------------------------------------
(* What a page takes for seen it shows, or is about to ask for (LiveTabs).  *)

\* The server has answered with this token, or would have.
Had(token) == \E v \in 0..version : revision[v] = token

\* The token a page knows belongs to no later state than the one it shows,
\* unless a request for its block is due or has failed.
Knows(r, failed) ==
    /\ r.known # NotYet => Had(r.known)
    /\ r.snapshot # NotYet => Had(r.snapshot)
    /\ r.known = NotYet \/ r.due \/ failed \/ \E v \in 0..r.shown : revision[v] = r.known

AllKnow == \A u \in Tabs : Knows(tab[u], u \in missed)

TabsKnow == TabsOwned /\ AllKnow

\* What the handlers of timers and states leave alone of a record
Alike(r, s) ==
    s.known = r.known /\ s.snapshot = r.snapshot /\ s.shown = r.shown /\ s.due = r.due

LEMMA AlikeKnows ==
    ASSUME NEW r, NEW s, NEW failed, Knows(r, failed), Alike(r, s)
    PROVE  Knows(s, failed)
BY DEF Knows, Alike

LEMMA SetStateIsAlike ==
    ASSUME NEW r \in Owned, NEW next \in States
    PROVE  Alike(r, SetState(r, next)) /\ Alike(r, HearsState(r, next))
  <1> DEFINE w == [r EXCEPT !.state = next]
             d == StartPolling([w EXCEPT !.safety = FALSE])
  <1>1. Alike(r, r) /\ Alike(r, w) /\ Alike(r, [w EXCEPT !.polling = FALSE, !.safety = w.leader])
    BY DEF Alike, Owned, Scripts
  <1>2. Alike(r, d) /\ Alike(r, RunSync(d))
    BY DEF Alike, StartPolling, RunSync, Owned, Scripts
  <1>3. SetState(r, next) \in {r, w, d, RunSync(d), [w EXCEPT !.polling = FALSE, !.safety = w.leader]}
    BY DEF SetState
  <1> HIDE DEF w, d
  <1> QED  BY <1>1, <1>2, <1>3 DEF HearsState

LEMMA HandlersKnow ==
    ASSUME NEW r \in Owned, NEW failed, Knows(r, failed)
    PROVE  /\ Knows(RunSync(r), failed)
           /\ Knows(Schedule(r), failed)
           /\ Knows(OnLeaderDemoted(r), failed)
           /\ \A token \in Versions : Had(token) => Knows(ApplySnapshot(r, token), failed)
           /\ \A next \in States : Knows(SetState(r, next), failed) /\ Knows(HearsState(r, next), failed)
  <1>1. Alike(r, RunSync(r)) /\ Alike(r, OnLeaderDemoted(r))
    BY DEF Alike, RunSync, OnLeaderDemoted, Owned, Scripts
  <1>2. Knows(Schedule(r), failed)
    BY DEF Schedule, Knows, Owned, Scripts
  <1>3. ASSUME NEW token \in Versions, Had(token)
        PROVE  Knows(ApplySnapshot(r, token), failed)
    BY <1>3 DEF ApplySnapshot, Schedule, Knows, Owned, Scripts
  <1> QED  BY <1>1, <1>2, <1>3, AlikeKnows, SetStateIsAlike

\* A step that leaves the server's state alone.
LEMMA KnowingStays ==
    ASSUME TabsKnow, TabsOwned', UNCHANGED <<version, revision>>,
           \A u \in Tabs : Knows(tab'[u], u \in missed')
    PROVE  TabsKnow'
BY DEF TabsKnow, AllKnow, Knows, Had

LEMMA DoesKnows ==
    ASSUME TabsKnow, NEW t \in Tabs, NEW r, NEW heard, Does(t, r, heard), UNCHANGED missed,
           Knows(r, t \in missed), \A u \in Tabs : Knows(heard[u], u \in missed)
    PROVE  \A u \in Tabs : Knows(tab'[u], u \in missed')
  <1> SUFFICES ASSUME NEW u \in Tabs  PROVE Knows(tab'[u], u \in missed)
    OBVIOUS
  <1>1. tab'[u] \in {r, heard[u], tab[u]} /\ (tab'[u] = r => u = t \/ tab'[u] \in {heard[u], tab[u]})
    BY DEF Does
  <1> QED  BY <1>1 DEF TabsKnow, AllKnow

LEMMA MovesKnows ==
    ASSUME TabsKnow, NEW t \in Tabs, NEW r \in Owned, NEW next \in States,
           Moves(t, r, next), UNCHANGED missed, Knows(r, t \in missed)
    PROVE  \A u \in Tabs : Knows(tab'[u], u \in missed')
  <1> DEFINE told == [u \in Tabs |-> IF r.leader /\ r.state # next THEN HearsState(tab[u], next) ELSE tab[u]]
  <1>1. \A u \in Tabs : Knows(told[u], u \in missed)
    BY HandlersKnow DEF TabsKnow, TabsOwned, AllKnow
  <1>2. Does(t, SetState(r, next), told)
    BY DEF Moves
  <1>3. Knows(SetState(r, next), t \in missed)
    BY HandlersKnow
  <1> HIDE DEF told
  <1> QED  BY <1>1, <1>2, <1>3, DoesKnows

\* A record of one tab is replaced by one that knows as much.
LEMMA OneKnows ==
    ASSUME TabsKnow, NEW t \in Tabs, NEW r, tab' = [tab EXCEPT ![t] = r], UNCHANGED missed,
           Knows(r, t \in missed)
    PROVE  \A u \in Tabs : Knows(tab'[u], u \in missed')
BY DEF TabsKnow, TabsOwned, AllKnow

LEMMA StartCoordinatedKnows ==
    ASSUME TabsKnow, NEW t \in Tabs, StartCoordinated(t)
    PROVE  \A u \in Tabs : Knows(tab'[u], u \in missed')
  <1> DEFINE r == [tab[t] EXCEPT !.page = "running", !.asking = LeasedToAnother(t),
                                 !.standing = ~lease.live]
             s == [r EXCEPT !.asking = FALSE]
             asked == {u \in Tabs : r.asking /\ Running(u) /\ tab[u].leader}
  <1>1. tab[t] \in Owned /\ tab \in [Tabs -> Owned] /\ missed' = missed
    BY DEF TabsKnow, TabsOwned, StartCoordinated
  <1>2. r \in Owned /\ s \in Owned /\ Alike(tab[t], r) /\ Alike(tab[t], s)
    BY <1>1 DEF Owned, Scripts, LeasedToAnother, Alike
  <1>3. Knows(r, t \in missed) /\ Knows(s, t \in missed)
    BY <1>2, AlikeKnows DEF TabsKnow, AllKnow
  <1>4. \/ Does(t, r, tab)
        \/ \E u \in asked : Does(t, Answered(r, tab[u]), tab)
    BY DEF StartCoordinated
  <1> HIDE DEF r
  <1>5. ASSUME NEW u \in Tabs  PROVE Knows(Answered(r, tab[u]), t \in missed)
    <2>1. tab[u].state \in States /\ tab[u].snapshot \in Compared
      BY <1>1 DEF Owned, Scripts
    <2>2. tab[u].snapshot # NotYet => tab[u].snapshot \in Versions /\ Had(tab[u].snapshot)
      BY <2>1 DEF Compared, TabsKnow, AllKnow, Knows
    <2> DEFINE w == IF tab[u].snapshot = NotYet THEN r ELSE ApplySnapshot(s, tab[u].snapshot)
    <2>3. w \in Owned /\ Knows(w, t \in missed)
      BY <1>2, <1>3, <2>2, HandlersKnow, HandlersKeepOwned DEF TabsKnow, TabsOwned
    <2>4. Answered(r, tab[u]) = HearsState(w, tab[u].state)
      BY DEF Answered
    <2> HIDE DEF w
    <2> QED  BY <2>1, <2>3, <2>4, HandlersKnow
  <1>6. \A u \in Tabs : Knows(tab[u], u \in missed)
    BY DEF TabsKnow, AllKnow
  <1>7. \A u \in asked : u \in Tabs
    OBVIOUS
  <1> HIDE DEF asked
  <1> QED  BY <1>1, <1>3, <1>4, <1>5, <1>6, <1>7, DoesKnows

LEMMA LeaseKnows ==
    ASSUME TabsKnow, NEW t \in Tabs,
           Renew(t) \/ Stand(t) \/ GiveWay(t) \/ BecomeLeader(t) \/ Load(t)
    PROVE  \A u \in Tabs : Knows(tab'[u], u \in missed')
  <1>1. /\ tab[t] \in Owned /\ tab \in [Tabs -> Owned] /\ missed' = missed
        /\ \A u \in Tabs : Knows(tab[u], u \in missed)
    BY DEF TabsKnow, TabsOwned, AllKnow, Renew, Stand, GiveWay, BecomeLeader, Load
  <1>2. CASE Renew(t)
    BY <1>1, <1>2, DoesKnows, HandlersKnow DEF Renew
  <1>3. CASE Stand(t) \/ GiveWay(t)
    <2>1. \A b \in BOOLEAN : Alike(tab[t], [tab[t] EXCEPT !.standing = b])
      BY <1>1 DEF Alike, Owned, Scripts
    <2>2. \A b \in BOOLEAN : Knows([tab[t] EXCEPT !.standing = b], t \in missed)
      BY <1>1, <2>1, AlikeKnows
    <2>3. \E b \in BOOLEAN : tab' = [tab EXCEPT ![t] = [tab[t] EXCEPT !.standing = b]]
      BY <1>1, <1>3 DEF Stand, GiveWay
    <2> QED  BY <1>1, <2>2, <2>3, OneKnows
  <1>4. CASE BecomeLeader(t)
    <2> DEFINE r == OpenStream([tab[t] EXCEPT !.standing = FALSE, !.leader = TRUE, !.asking = FALSE])
    <2>1. r \in Owned /\ Alike(tab[t], r)
      BY <1>1 DEF OpenStream, Owned, Scripts, Alike
    <2>2. Moves(t, r, "connecting")
      BY <1>4 DEF BecomeLeader
    <2> HIDE DEF r
    <2> QED  BY <1>1, <2>1, <2>2, AlikeKnows, MovesKnows DEF States
  <1>5. CASE Load(t)
    <2> DEFINE r == [tab[t] EXCEPT !.page = "loaded", !.shown = version]
    <2>1. r.known = tab[t].known /\ r.snapshot = tab[t].snapshot /\ r.shown = version
      BY <1>1 DEF Owned, Scripts
    <2>2. Knows(tab[t], t \in missed)
      BY <1>1
    <2>3. Knows(r, t \in missed)
      <3> HIDE DEF r
      <3> QED  BY <2>1, <2>2 DEF Knows, Had
    <2>4. tab' = [tab EXCEPT ![t] = r]
      BY <1>1, <1>5 DEF Load
    <2> HIDE DEF r
    <2> QED  BY <1>1, <2>3, <2>4, OneKnows
  <1> QED  BY <1>2, <1>3, <1>4, <1>5

LEMMA StreamKnows ==
    ASSUME TabsKnow, NEW t \in Tabs,
           StreamOpens(t) \/ Subscribed(t) \/ StreamDrops(t) \/ StreamRefused(t) \/ Degrade(t)
    PROVE  \A u \in Tabs : Knows(tab'[u], u \in missed')
  <1>1. /\ tab[t] \in Owned /\ tab \in [Tabs -> Owned] /\ missed' = missed /\ TabsOwned
        /\ \A u \in Tabs : Knows(tab[u], u \in missed)
    BY DEF TabsKnow, TabsOwned, AllKnow, StreamOpens, Subscribed, StreamDrops, StreamRefused, Degrade
  <1>2. CASE StreamOpens(t)
    <2> DEFINE o == [tab[t] EXCEPT !.source = "open", !.polling = FALSE]
    <2>1. o \in Owned /\ Alike(tab[t], o)
      BY <1>1, <1>2 DEF StreamOpens, Owned, Scripts, Alike
    <2>2. Moves(t, Schedule(RunSync(o)), "live")
      BY <1>2 DEF StreamOpens
    <2> HIDE DEF o
    <2>3. Knows(o, t \in missed) /\ RunSync(o) \in Owned
      BY <1>1, <2>1, AlikeKnows, HandlersKeepOwned DEF TabsOwned
    <2>4. Knows(Schedule(RunSync(o)), t \in missed) /\ Schedule(RunSync(o)) \in Owned
      BY <1>1, <2>1, <2>3, HandlersKnow, HandlersKeepOwned DEF TabsOwned
    <2> QED  BY <1>1, <2>2, <2>4, MovesKnows DEF States
  <1>3. CASE Subscribed(t) \/ StreamDrops(t) \/ StreamRefused(t) \/ Degrade(t)
    <2>1. PICK r : /\ r \in {tab[t], [tab[t] EXCEPT !.source = "subscribed"],
                             [tab[t] EXCEPT !.source = "opening"], [tab[t] EXCEPT !.source = "none"]}
                   /\ \/ tab' = [tab EXCEPT ![t] = r]
                      \/ Does(t, r, tab)
                      \/ \E next \in States : r \in Owned /\ Moves(t, r, next)
      <3>1. [tab[t] EXCEPT !.source = "opening"] \in Owned \/ ~StreamDrops(t)
        BY <1>1 DEF StreamDrops, Owned, Scripts
      <3>2. [tab[t] EXCEPT !.source = "none"] \in Owned
        BY <1>1 DEF Owned, Scripts
      <3> QED  BY <1>1, <1>3, <3>1, <3>2 DEF Subscribed, StreamDrops, StreamRefused, Degrade, States
    <2>2. Alike(tab[t], r)
      BY <1>1, <2>1 DEF Alike, Owned, Scripts
    <2>3. Knows(r, t \in missed)
      BY <1>1, <2>2, AlikeKnows
    <2> QED  BY <1>1, <2>1, <2>3, OneKnows, DoesKnows, MovesKnows
  <1> QED  BY <1>2, <1>3

LEMMA ComparingKnows ==
    ASSUME TabsKnow, NEW t \in Tabs,
           PollTick(t) \/ SafetyTick(t) \/ SyncArrives(t) \/ SyncFails(t) \/ HandshakeTimesOut(t)
    PROVE  \A u \in Tabs : Knows(tab'[u], u \in missed')
  <1>1. /\ tab[t] \in Owned /\ tab \in [Tabs -> Owned] /\ missed' = missed /\ TabsOwned
        /\ \A u \in Tabs : Knows(tab[u], u \in missed)
    BY DEF TabsKnow, TabsOwned, AllKnow, PollTick, SafetyTick, SyncArrives, SyncFails, HandshakeTimesOut
  <1>2. CASE PollTick(t) \/ SafetyTick(t) \/ SyncFails(t) \/ HandshakeTimesOut(t)
    <2>1. PICK r : /\ r \in {RunSync(tab[t]), [tab[t] EXCEPT !.sync = NotYet],
                             RunSync([tab[t] EXCEPT !.asking = FALSE])}
                   /\ tab' = [tab EXCEPT ![t] = r]
      BY <1>1, <1>2 DEF PollTick, SafetyTick, SyncFails, HandshakeTimesOut
    <2>2. Alike(tab[t], r)
      BY <1>1, <2>1 DEF Alike, RunSync, Owned, Scripts
    <2> QED  BY <1>1, <2>1, <2>2, AlikeKnows, OneKnows
  <1>3. CASE SyncArrives(t)
    <2>1. PICK v \in tab[t].sync..version :
            LET token == revision[v]
                r == [tab[t] EXCEPT !.sync = NotYet, !.snapshot = token]
                forwarded == [u \in Tabs |-> IF r.known # token THEN ApplySnapshot(tab[u], token) ELSE tab[u]]
            IN Does(t, ApplySnapshot(r, token), forwarded)
      BY <1>3 DEF SyncArrives
    <2> DEFINE token == revision[v]
               r == [tab[t] EXCEPT !.sync = NotYet, !.snapshot = token]
               forwarded == [u \in Tabs |-> IF r.known # token THEN ApplySnapshot(tab[u], token) ELSE tab[u]]
    <2>2. v \in 0..version /\ v \in Versions
      <3>1. tab[t].sync \in Versions
        BY <1>1, <1>3 DEF SyncArrives, Owned, Scripts, Compared
      <3> QED  BY <1>1, <3>1, LiveTabsAssumption, SMT DEF TabsOwned, Versions
    <2>3. token \in Versions /\ Had(token)
      BY <1>1, <2>2 DEF TabsOwned, Had
    <2>4. Does(t, ApplySnapshot(r, token), forwarded)
      BY <2>1
    <2> HIDE DEF token
    <2>5. r \in Owned /\ r.known = tab[t].known /\ r.due = tab[t].due /\ r.shown = tab[t].shown /\ r.snapshot = token
      BY <1>1, <2>3 DEF Owned, Scripts, Compared
    <2>6. Knows(tab[t], t \in missed)
      BY <1>1
    <2>7. \A u \in Tabs : Knows(forwarded[u], u \in missed)
      BY <1>1, <2>3, HandlersKnow
    <2> HIDE DEF r, forwarded
    <2>8. Knows(r, t \in missed)
      BY <2>3, <2>5, <2>6 DEF Knows
    <2>9. Knows(ApplySnapshot(r, token), t \in missed)
      BY <2>3, <2>5, <2>8, HandlersKnow
    <2> QED  BY <1>1, <2>4, <2>7, <2>9, DoesKnows
  <1> QED  BY <1>2, <1>3

LEMMA BlankKnows == \A failed : Knows(Blank, failed) /\ Knows([Blank EXCEPT !.page = "gone"], failed)
BY DEF Knows, Blank

LEMMA BlockKnows ==
    ASSUME TabsKnow, NEW t \in Tabs,
           Refresh(t) \/ RefreshFails(t) \/ Release(t) \/ Discard(t)
    PROVE  \A u \in Tabs : Knows(tab'[u], u \in missed')
  <1>1. /\ tab[t] \in Owned /\ tab \in [Tabs -> Owned]
        /\ \A u \in Tabs : Knows(tab[u], u \in missed)
    BY DEF TabsKnow, TabsOwned, AllKnow
  <1>2. CASE Refresh(t) \/ RefreshFails(t)
    <2>1. \A u \in Tabs \ {t} : tab'[u] = tab[u] /\ (u \in missed' <=> u \in missed)
      BY <1>1, <1>2 DEF Refresh, RefreshFails
    <2>2. /\ tab'[t].known = tab[t].known /\ tab'[t].snapshot = tab[t].snapshot
          /\ tab'[t].shown = version \/ t \in missed'
      BY <1>1, <1>2 DEF Refresh, RefreshFails, Owned, Scripts
    <2>3. Knows(tab[t], t \in missed)
      BY <1>1
    <2>4. Knows(tab'[t], t \in missed')
      BY <2>2, <2>3 DEF Knows, Had
    <2> QED  BY <1>1, <2>1, <2>4
  <1>3. CASE Release(t) \/ Discard(t)
    <2>1. tab' = [tab EXCEPT ![t] = [Blank EXCEPT !.page = "gone"]] /\ missed' = missed
      BY <1>3 DEF Release, Discard, Gone
    <2> QED  BY <1>1, <2>1, BlankKnows, OneKnows
  <1> QED  BY <1>2, <1>3

\* What was a token of the server's still was one when the server moves on.
LEMMA ChangeKnows == ASSUME TabsKnow, TabsOwned', Change PROVE TabsKnow'
  <1>1. /\ tab \in [Tabs -> Owned] /\ missed' = missed /\ revision' = revision
        /\ version \in Nat /\ version' = version + 1
        /\ \A u \in Tabs : Knows(tab[u], u \in missed)
    BY LiveTabsAssumption DEF TabsKnow, TabsOwned, AllKnow, Change, Versions
  <1>2. \A v \in 0..version : v \in 0..(version + 1)
    BY <1>1, SMT
  <1>3. ASSUME NEW u \in Tabs  PROVE Knows(tab'[u], u \in missed)
    <2>1. tab'[u] \in {tab[u], Schedule(tab[u])}
      BY DEF Change
    <2> QED  BY <1>1, <2>1, HandlersKnow
  <1>4. \A token : Had(token) => Had(token)'
    BY <1>1, <1>2 DEF Had
  <1>5. ASSUME NEW u \in Tabs  PROVE Knows(tab[u], u \in missed)'
    BY <1>1, <1>3, <1>4 DEF Knows, Had
  <1> QED  BY <1>5 DEF TabsKnow, AllKnow

LEMMA TabsNextKnows == TabsKnow /\ [TabsNext]_tabsVars => TabsKnow'
  <1> SUFFICES ASSUME TabsKnow, [TabsNext]_tabsVars  PROVE TabsKnow'
    OBVIOUS
  <1>1. TabsOwned'
    BY TabsNextKeepsOwned DEF TabsKnow
  <1>2. CASE Change
    BY <1>1, <1>2, ChangeKnows
  <1>3. CASE LeaseRunsOut \/ UNCHANGED tabsVars
    <2>1. UNCHANGED <<tab, version, revision, missed>>
      BY <1>3 DEF LeaseRunsOut, tabsVars
    <2> QED  BY <1>1, <2>1 DEF TabsKnow, AllKnow, Knows, Had
  <1>4. ASSUME NEW t \in Tabs,
               \/ Load(t) \/ Handlers(t)
               \/ StreamOpens(t) \/ Subscribed(t) \/ StreamDrops(t) \/ StreamRefused(t)
               \/ SyncFails(t) \/ RefreshFails(t)
               \/ Release(t) \/ Discard(t)
        PROVE TabsKnow'
    <2>1. \A u \in Tabs : Knows(tab'[u], u \in missed')
      BY <1>4, StartCoordinatedKnows, LeaseKnows, StreamKnows, ComparingKnows, BlockKnows DEF Handlers
    <2>2. UNCHANGED <<version, revision>>
      BY <1>4 DEF Load, Handlers, StartCoordinated, Renew, Stand, GiveWay, BecomeLeader, Degrade,
                  PollTick, SafetyTick, SyncArrives, HandshakeTimesOut, Refresh, StreamOpens, Subscribed,
                  StreamDrops, StreamRefused, SyncFails, RefreshFails, Release, Discard
    <2> QED  BY <1>1, <2>1, <2>2, KnowingStays
  <1> QED  BY <1>2, <1>3, <1>4 DEF TabsNext

\* No page is behind without the next comparison finding it: when the server's
\* token is none of those it had until the state a page shows, the page knows
\* another one, or a request for its block is due or has failed.
THEOREM StalenessIsFound ==
    TabsSpec => [](\A t \in Tabs :
                      Stale(t) => \/ tab[t].known # revision[version]
                                  \/ tab[t].due \/ t \in missed)
  <1>1. TabsInit => TabsKnow
    BY TabsOwnedAtFirst, BlankKnows DEF TabsInit, TabsKnow, AllKnow
  <1>2. TabsKnow => \A t \in Tabs : Stale(t) => \/ tab[t].known # revision[version]
                                                \/ tab[t].due \/ t \in missed
    BY DEF TabsKnow, AllKnow, Knows, Stale
  <1> QED  BY <1>1, <1>2, TabsNextKnows, PTL DEF TabsSpec

=============================================================================
