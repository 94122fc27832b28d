---------------------------- MODULE BoardRequests ----------------------------
(***************************************************************************)
(* The fields a board gives its cards, and the requests that wait in its   *)
(* inbox with values of those fields: boards/services.py.  A request keeps *)
(* what was asked of the fields as they were then; until somebody decides  *)
(* it the manager archives, deletes and changes fields and options under   *)
(* it.  Every call holds the lock of the board.                            *)
(*                                                                         *)
(* There is always somebody who may; the columns of cards are the subject  *)
(* of BoardCards.  A value is what it looks like, or the key of an option. *)
(***************************************************************************)
EXTENDS Naturals, FiniteSets, BoardNames

CONSTANTS
    Fields, Options, Requests,
    Rules,         \* the columns and actions that set fields
    MaxFields,     \* MAX_FIELDS
    MaxOptions,    \* MAX_OPTIONS
    MaxChanges     \* bound on the changes of fields, options and rules

Kinds    == {"TEXT", "NUMBER", "DATE", "SELECT"}
Written  == {"words", "digits", "day"}
Values   == Written \cup Options
Statuses == {"NEW", "ACCEPTED", "REJECTED", "DUPLICATE", "WITHDRAWN"}

ASSUME RequestAssumption ==
    /\ Options \cap Written = {}
    /\ None \notin Values \cup Kinds \cup Fields \cup Cards \cup Requests \cup Rules
    /\ IsFiniteSet(Fields) /\ IsFiniteSet(Options)
    /\ MaxFields \in Nat /\ MaxOptions \in Nat /\ MaxChanges \in Nat

VARIABLES
    shelved,
    intake,      \* the board takes requests
    field,       \* kind, archived, and whether the request form asks it
    option,      \* the field it is an option of, archived
    rule,        \* what each column and action sets, and whether over a value
    card,        \* state, the request it was made of, its values
    request,     \* status, values, its card, and the kinds it was asked in
    used,        \* fields and options there ever were: keys are not given twice
    changes

requestsVars == <<shelved, intake, field, option, rule, card, request, used, changes>>

NoField   == [kind |-> None, archived |-> FALSE, form |-> "no"]
NoOption  == [of |-> None, archived |-> FALSE]
NoRule    == [value |-> None, overwrite |-> FALSE]
Empty     == [f \in Fields |-> None]
NoCard    == [state |-> "none", of |-> None, values |-> Empty]
NoRequest == [status |-> "none", values |-> Empty, card |-> None, kinds |-> Empty]

-----------------------------------------------------------------------------
(* Values                                                                   *)

Exists(f) == field[f].kind # None
Live(f)   == Exists(f) /\ ~field[f].archived
OptionsOf(f) == {o \in Options : option[o].of = f}

\* _parse_value accepts x for f; held is the value the card holds already.
\* The key of an option reads as a number, and as a text.
Parses(f, x, held) ==
    \/ x = None
    \/ field[f].kind = "TEXT"
    \/ field[f].kind = "NUMBER" /\ (x = "digits" \/ x \in Options)
    \/ field[f].kind = "DATE" /\ x = "day"
    \/ field[f].kind = "SELECT" /\ x \in OptionsOf(f) /\ (option[x].archived => x = held)

\* What a person can send for f: an option, only from a list.
Sent(f) == Written \cup OptionsOf(f) \cup {None}

Forms == {v \in [Fields -> Values \cup {None}] : \A f \in Fields : v[f] \in Sent(f)}

\* _clean_field_values and _write_field_values: an archived field keeps its value.
Refused(sent, values) == \E f \in Fields : Live(f) /\ ~Parses(f, sent[f], values[f])

Edited(values, sent) == [f \in Fields |-> IF Live(f) THEN sent[f] ELSE values[f]]

\* _apply_field_rules: what no longer parses sets nothing.
Ruled(values, q) ==
    IF q = None THEN values
    ELSE [f \in Fields |->
            IF /\ rule[q][f].value # None
               /\ Live(f) /\ Parses(f, rule[q][f].value, None)
               /\ values[f] = None \/ rule[q][f].overwrite
            THEN rule[q][f].value ELSE values[f]]

\* _has_values
HasValues(f) == \E c \in Cards : card[c].values[f] # None

\* _refuse_ruled_field
HasRules(f) == \E q \in Rules : rule[q][f].value # None

-----------------------------------------------------------------------------
(* The fields of the board                                                  *)

\* _fields_board, _manageable_board; the bound is on the changes.
Manage == ~shelved /\ changes < MaxChanges /\ changes' = changes + 1

LiveFields == {f \in Fields : Live(f)}
LiveOptions(f) == {o \in OptionsOf(f) : ~option[o].archived}

\* _refuse_field_limit, _refuse_option_limit: of a new one and of one that
\* comes back.
HasRoom(live, limit) == live < limit

\* create_field; its options are made here or by create_option.
CreateField(f, kind, opts) ==
    /\ Manage
    /\ f \notin used
    /\ HasRoom(Cardinality(LiveFields), MaxFields)
    /\ opts \subseteq Options \ used /\ Cardinality(opts) <= MaxOptions
    /\ opts # {} => kind = "SELECT"
    /\ field' = [field EXCEPT ![f] = [NoField EXCEPT !.kind = kind]]
    /\ option' = [o \in Options |-> IF o \in opts THEN [NoOption EXCEPT !.of = f] ELSE option[o]]
    /\ used' = used \cup {f} \cup opts
    /\ UNCHANGED <<shelved, intake, rule, card, request>>

\* Mutant: the kind changes under the values of the cards.
Unheld(f) == ~HasRules(f)

\* What update_field and delete_field ask of a field
Unused(f) == ~HasValues(f) /\ ~HasRules(f)

WithoutOptionsOf(f) == [o \in Options |-> IF option[o].of = f THEN NoOption ELSE option[o]]

\* update_field, of the kind: a list that becomes something else loses its options.
ChangeKind(f, kind) ==
    /\ Manage
    /\ Exists(f) /\ kind # field[f].kind
    /\ Unused(f)
    /\ field' = [field EXCEPT ![f].kind = kind]
    /\ option' = WithoutOptionsOf(f)
    /\ UNCHANGED <<shelved, intake, rule, card, request, used>>

\* archive_field, restore_field
ArchiveField(f) ==
    /\ Manage
    /\ Exists(f)
    /\ field[f].archived => HasRoom(Cardinality(LiveFields), MaxFields)
    /\ field' = [field EXCEPT ![f].archived = ~@]
    /\ UNCHANGED <<shelved, intake, option, rule, card, request, used>>

DeleteField(f) ==
    /\ Manage
    /\ Exists(f)
    /\ Unused(f)
    /\ field' = [field EXCEPT ![f] = NoField]
    /\ option' = WithoutOptionsOf(f)
    /\ UNCHANGED <<shelved, intake, rule, card, request, used>>

CreateOption(f, o) ==
    /\ Manage
    /\ field[f].kind = "SELECT"
    /\ o \notin used
    /\ HasRoom(Cardinality(LiveOptions(f)), MaxOptions)
    /\ option' = [option EXCEPT ![o] = [NoOption EXCEPT !.of = f]]
    /\ used' = used \cup {o}
    /\ UNCHANGED <<shelved, intake, field, rule, card, request>>

\* archive_option, restore_option
ArchiveOption(o) ==
    /\ Manage
    /\ option[o].of # None
    /\ option[o].archived => HasRoom(Cardinality(LiveOptions(option[o].of)), MaxOptions)
    /\ option' = [option EXCEPT ![o].archived = ~@]
    /\ UNCHANGED <<shelved, intake, field, rule, card, request, used>>

DeleteOption(o) ==
    /\ Manage
    /\ option[o].of # None
    /\ \A c \in Cards : card[c].values[option[o].of] # o
    /\ \A q \in Rules : rule[q][option[o].of].value # o
    /\ option' = [option EXCEPT ![o] = NoOption]
    /\ UNCHANGED <<shelved, intake, field, rule, card, request, used>>

\* set_column_field_rules, and the field values of an action; None takes the
\* rule away.
SetRule(q, f, x, overwrite) ==
    /\ Manage
    /\ Live(f)
    /\ x \in Sent(f) /\ Parses(f, x, None)
    /\ rule' = [rule EXCEPT ![q][f] = IF x = None THEN NoRule ELSE [value |-> x, overwrite |-> overwrite]]
    /\ UNCHANGED <<shelved, intake, field, option, card, request, used>>

\* update_intake: whether requests are taken, and which live fields they are
\* asked; an archived field keeps what it was.
UpdateIntake(on, forms) ==
    /\ Manage
    /\ intake' = on
    /\ field' = [f \in Fields |-> IF Live(f) THEN [field[f] EXCEPT !.form = forms[f]] ELSE field[f]]
    /\ UNCHANGED <<shelved, option, rule, card, request, used>>

-----------------------------------------------------------------------------
(* Cards                                                                    *)

\* create_card with the values of its form, into a column q of rules or none
CreateCard(c, sent, q) ==
    /\ ~shelved
    /\ card[c].state = "none"
    /\ ~Refused(sent, Empty)
    /\ card' = [card EXCEPT ![c] = [NoCard EXCEPT !.state = "open", !.values = Ruled(Edited(Empty, sent), q)]]
    /\ UNCHANGED <<shelved, intake, field, option, rule, request, used, changes>>

\* update_card; the version of the card is the subject of BoardCards.
UpdateCard(c, sent) ==
    /\ ~shelved
    /\ card[c].state = "open"
    /\ ~Refused(sent, card[c].values)
    /\ card' = [card EXCEPT ![c].values = Edited(@, sent)]
    /\ UNCHANGED <<shelved, intake, field, option, rule, request, used, changes>>

\* move_card and run_board_action, of the fields: each rule after the other.
ApplyRules(c, q) ==
    /\ ~shelved
    /\ card[c].state = "open"
    /\ card' = [card EXCEPT ![c].values = Ruled(@, q)]
    /\ UNCHANGED <<shelved, intake, field, option, rule, request, used, changes>>

\* complete_card, cancel_card; reopen_card
CloseCard(c) ==
    /\ card[c].state = "open"
    /\ card' = [card EXCEPT ![c].state = "closed"]
    /\ UNCHANGED <<shelved, intake, field, option, rule, request, used, changes>>

ReopenCard(c) ==
    /\ ~shelved
    /\ card[c].state = "closed"
    /\ card' = [card EXCEPT ![c].state = "open"]
    /\ UNCHANGED <<shelved, intake, field, option, rule, request, used, changes>>

-----------------------------------------------------------------------------
(* Requests                                                                 *)

Asked(f) == Live(f) /\ field[f].form # "no"

\* submit_request: what is not asked is not kept (_clean_request_values).
SubmitRequest(r, sent) ==
    /\ ~shelved /\ intake
    /\ request[r].status = "none"
    /\ \A f \in Fields : Asked(f) =>
          /\ Parses(f, sent[f], None)
          /\ field[f].form = "required" => sent[f] # None
    /\ request' = [request EXCEPT ![r] =
          [status |-> "NEW", card |-> None,
           values |-> [f \in Fields |-> IF Asked(f) THEN sent[f] ELSE None],
           kinds  |-> [f \in Fields |-> field[f].kind]]]
    /\ UNCHANGED <<shelved, intake, field, option, rule, card, used, changes>>

\* Mutant: the page was drawn while the request was new.
WasNew(r) == request[r].status # "none"

\* _refuse_decided, under the lock
Undecided(r) == request[r].status = "NEW"

\* withdraw_request: on the shelf too.
WithdrawRequest(r) ==
    /\ Undecided(r)
    /\ request' = [request EXCEPT ![r].status = "WITHDRAWN"]
    /\ UNCHANGED <<shelved, intake, field, option, rule, card, used, changes>>

RejectRequest(r) ==
    /\ ~shelved /\ Undecided(r)
    /\ request' = [request EXCEPT ![r].status = "REJECTED"]
    /\ UNCHANGED <<shelved, intake, field, option, rule, card, used, changes>>

\* mark_duplicate, of a card of the board
MarkDuplicate(r, c) ==
    /\ ~shelved /\ Undecided(r)
    /\ card[c].state # "none"
    /\ request' = [request EXCEPT ![r].status = "DUPLICATE"]
    /\ UNCHANGED <<shelved, intake, field, option, rule, card, used, changes>>

\* Mutant: an option archived since is still offered to the card.
OfferedSince(r) ==
    [f \in Fields |-> IF Live(f) /\ (field[f].kind = "SELECT" => request[r].values[f] \in OptionsOf(f))
                      THEN request[r].values[f] ELSE None]

\* _request_values_for_card: what may still be taken over.
ValuesForCard(r) ==
    [f \in Fields |-> IF Live(f) /\ (field[f].kind = "SELECT" => request[r].values[f] \in LiveOptions(f))
                      THEN request[r].values[f] ELSE None]

\* accept_request and _place_new_card: a value that is refused refuses the card.
AcceptRequest(r, c, q) ==
    /\ ~shelved /\ Undecided(r)
    /\ card[c].state = "none"
    /\ ~Refused(ValuesForCard(r), Empty)
    /\ card' = [card EXCEPT ![c] = [state |-> "open", of |-> r, values |-> Ruled(ValuesForCard(r), q)]]
    /\ request' = [request EXCEPT ![r].status = "ACCEPTED", ![r].card = c]
    /\ UNCHANGED <<shelved, intake, field, option, rule, used, changes>>

\* Mutant: the shelf asks about work only.
NoOpenCard == \A c \in Cards : card[c].state # "open"

\* What archive_board asks of the board
AtRest == NoOpenCard /\ \A r \in Requests : request[r].status # "NEW"

ArchiveBoard ==
    /\ Manage
    /\ AtRest
    /\ shelved' = TRUE
    /\ UNCHANGED <<intake, field, option, rule, card, request, used>>

RestoreBoard ==
    /\ shelved
    /\ shelved' = FALSE
    /\ UNCHANGED <<intake, field, option, rule, card, request, used, changes>>

-----------------------------------------------------------------------------
RequestsInit ==
    /\ shelved = FALSE
    /\ intake = FALSE
    /\ field = [f \in Fields |-> NoField]
    /\ option = [o \in Options |-> NoOption]
    /\ rule = [q \in Rules |-> [f \in Fields |-> NoRule]]
    /\ card = [c \in Cards |-> NoCard]
    /\ request = [r \in Requests |-> NoRequest]
    /\ used = {}
    /\ changes = 0

FieldStep ==
    \/ \E f \in Fields, kind \in Kinds :
          \/ \E opts \in SUBSET Options : CreateField(f, kind, opts)
          \/ ChangeKind(f, kind)
    \/ \E f \in Fields : ArchiveField(f) \/ DeleteField(f)
    \/ \E f \in Fields, o \in Options : CreateOption(f, o)
    \/ \E o \in Options : ArchiveOption(o) \/ DeleteOption(o)
    \/ \E q \in Rules, f \in Fields, x \in Values \cup {None}, overwrite \in BOOLEAN : SetRule(q, f, x, overwrite)
    \/ \E on \in BOOLEAN, forms \in [Fields -> {"no", "optional", "required"}] : UpdateIntake(on, forms)

CardStep ==
    \E c \in Cards :
       \/ \E sent \in Forms :
             \/ UpdateCard(c, sent)
             \/ \E q \in Rules \cup {None} : CreateCard(c, sent, q)
       \/ \E q \in Rules : ApplyRules(c, q)
       \/ CloseCard(c) \/ ReopenCard(c)

RequestStep ==
    \E r \in Requests :
       \/ \E sent \in Forms : SubmitRequest(r, sent)
       \/ WithdrawRequest(r) \/ RejectRequest(r)
       \/ \E c \in Cards :
             \/ MarkDuplicate(r, c)
             \/ \E q \in Rules \cup {None} : AcceptRequest(r, c, q)

RequestsNext == FieldStep \/ CardStep \/ RequestStep \/ ArchiveBoard \/ RestoreBoard

RequestsSpec == RequestsInit /\ [][RequestsNext]_requestsVars

-----------------------------------------------------------------------------
(* Properties                                                               *)

FieldValues == [Fields -> Values \cup {None}]

RequestsTypeOK ==
    /\ shelved \in BOOLEAN /\ intake \in BOOLEAN
    /\ field \in [Fields -> [kind : Kinds \cup {None}, archived : BOOLEAN, form : {"no", "optional", "required"}]]
    /\ option \in [Options -> [of : Fields \cup {None}, archived : BOOLEAN]]
    /\ rule \in [Rules -> [Fields -> [value : Values \cup {None}, overwrite : BOOLEAN]]]
    /\ card \in [Cards -> [state : {"none", "open", "closed"}, of : Requests \cup {None}, values : FieldValues]]
    /\ request \in [Requests -> [status : Statuses \cup {"none"}, values : FieldValues,
                                 card : Cards \cup {None}, kinds : [Fields -> Kinds \cup {None}]]]
    /\ used \subseteq Fields \cup Options
    /\ changes \in Nat

\* x can be read back as a value of f, archived or not.
Fits(f, x) == Exists(f) /\ Parses(f, x, x)

WithinLimits ==
    /\ Cardinality(LiveFields) <= MaxFields
    /\ \A f \in Fields : Cardinality(LiveOptions(f)) <= MaxOptions

ValuesFit ==
    \A f \in Fields :
        /\ \A c \in Cards : card[c].values[f] # None => Fits(f, card[c].values[f])
        /\ \A q \in Rules : rule[q][f].value # None => Fits(f, rule[q][f].value)

\* What a card holds and what a rule sets is a value of a field that is there,
\* in the kind it has now, an option one of its own, whatever is changed,
\* archived and deleted; and what comes back from the archive never makes the
\* board have more fields, or a list more options, than the forms have room
\* for (update_field, delete_field, _set_field_archived, _set_option_archived).
FieldsHoldUp == RequestsTypeOK /\ WithinLimits /\ ValuesFit

\* A request that waits can be accepted, whatever was archived or deleted
\* since, as long as no field it was asked was given another kind; it does not
\* wait on the shelf, nor does the work of a card (_request_values_for_card,
\* _clean_field_values, archive_board, reopen_card).
WaitingGetsAnAnswer ==
    /\ \A r \in Requests :
        /\ request[r].status = "NEW"
        /\ \A f \in Fields : Exists(f) /\ request[r].values[f] # None => field[f].kind = request[r].kinds[f]
        => ~Refused(ValuesForCard(r), Empty)
    /\ shelved => /\ \A r \in Requests : request[r].status # "NEW"
                  /\ \A c \in Cards : card[c].state # "open"

\* Of two who decide a request the first does: its answer stands, and it is
\* made into one card at most (_decidable).
AnswersStand ==
    [][\A r \in Requests :
          request[r].status \notin {"none", "NEW"} =>
             /\ request'[r] = request[r]
             /\ \A c \in Cards : card'[c].of = r <=> card[c].of = r]_requestsVars

=============================================================================
