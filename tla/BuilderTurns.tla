---------------------------- MODULE BuilderTurns ----------------------------
(* What a chat with the route builder knows of the trip, and what its       *)
(* answers show: session_service.py, post_message and _assistant_from_ai,   *)
(* with chat_actions.py.                                                    *)
(*                                                                         *)
(* A chat keeps wishes, its working constraints, and the set of confirmed   *)
(* fields: a wish that is not confirmed is a draft, of the form the chat    *)
(* was opened from or of the profile.  A turn merges, in this order, what   *)
(* the person pressed, what the server reads out of the words, and what the *)
(* model proposes, in one answer or in two (a second one when the catalogue *)
(* was searched again, or tools were called); then it answers with cards of *)
(* the catalogue, a route built from the wishes, or words, and commits.     *)
(*                                                                         *)
(* Four fields stand for all: a list, a single value, and the two ends of a *)
(* choice that exclude one another.  What the words say and what the model  *)
(* answers is open within the given patches.  Turns come one by one; the    *)
(* module BuilderChat has their locks, quotas and cut-offs.  A turn that    *)
(* fails is rolled back and changes nothing.                                *)
EXTENDS Naturals

CONSTANTS
    Interests, Transports, Towns,   \* values of the fields
    Form,           \* what a chat may be opened with
    Profile,        \* the patch the person's profile makes
    Chips,          \* patches of chips and toggles
    Spoken,         \* patches the server finds in the words, discovery_patch
    Proposed,       \* patches of the model
    MaxTurns,       \* bound on the turns of a chat
    None            \* no value

ASSUME TurnsAssumption == "walk" \in Transports /\ MaxTurns \in Nat
ASSUME NoTownAssumption == {None, "free", "both"} \cap Towns = {} /\ None \notin {"free", "both"}

VARIABLES
    wishes,         \* planning.constraints
    confirmed,      \* planning.confirmed_fields
    goal, mode,     \* dialogue_goal and planning_mode, among the constraints
    shown,          \* what the cards, or the route, of the last answer are for
    heard,          \* what was last said of each field (history)
    turns

turnVars == <<wishes, confirmed, goal, mode, shown, heard, turns>>

Fields == {"interests", "transport_mode", "start_query", "flexible_start"}
StartFields == {"start_query", "flexible_start"}
\* "clarify" stands for "compare" and "place_info" too: none of them searches.
Goals == {"discover", "custom", "clarify"}
Wishes == [interests : SUBSET Interests, transport_mode : Transports \cup {None},
           start_query : Towns \cup {None}, flexible_start : BOOLEAN]
Shown == [kind : {"words"}] \cup [kind : {"cards", "route"}, wishes : Wishes, confirmed : SUBSET Fields]

TurnsTypeOK ==
    /\ wishes \in Wishes
    /\ confirmed \subseteq Fields
    /\ goal \in Goals /\ mode \in {"discover", "custom"}
    /\ shown \in Shown
    /\ heard \in [interests : SUBSET Interests, transport_mode : Transports \cup {None},
                  start : Towns \cup {None, "free", "both"}]
    /\ turns \in 0 .. MaxTurns

-----------------------------------------------------------------------------
(* chat_actions.py: a patch is a function from some of the fields, or from  *)
(* "interests_add", to values.                                              *)

NoPatch == [f \in {} |-> None]
Has(patch, f) == f \in DOMAIN patch
Without(patch, fields) == [f \in DOMAIN patch \ fields |-> patch[f]]
Over(first, then) ==
    [f \in DOMAIN first \cup DOMAIN then |-> IF Has(then, f) THEN then[f] ELSE first[f]]

\* What a patch may be about; the profile knows of no start (_persisted_preferences_prior).
TasteFits(p) ==
    /\ \A f \in {"interests", "interests_add"} : Has(p, f) => p[f] \subseteq Interests
    /\ Has(p, "transport_mode") => p["transport_mode"] \in Transports \cup {None}
ASSUME PatchesAssumption ==
    \A p \in Chips \cup Spoken \cup Proposed :
        /\ DOMAIN p \subseteq Fields \cup {"interests_add"}
        /\ Has(p, "flexible_start") => p["flexible_start"] \in BOOLEAN
        /\ Has(p, "start_query") => p["start_query"] \in Towns
        /\ TasteFits(p)
ASSUME DraftsAssumption ==
    Form \subseteq Wishes /\ DOMAIN Profile \subseteq {"interests", "transport_mode"} /\ TasteFits(Profile)

\* fields_touched_by_patch
Touched(patch) == {IF f = "interests_add" THEN "interests" ELSE f : f \in DOMAIN patch}

FreeStart(patch) == Has(patch, "flexible_start") /\ patch["flexible_start"]

\* "Choose the start yourself" takes away the town of the old start, and a town
\* ends the free start.
Unanchored(before, patch) ==
    IF FreeStart(patch) THEN [before EXCEPT !.start_query = None]
    ELSE IF Has(patch, "start_query") THEN [before EXCEPT !.flexible_start = FALSE]
    ELSE before

MergeDrafts(before, patch, said) ==  \* fault
    LET plain == [f \in Fields |-> IF Has(patch, f) THEN patch[f] ELSE Unanchored(before, patch)[f]]
    IN IF Has(patch, "interests_add")
       THEN [plain EXCEPT !.interests = @ \cup patch["interests_add"]] ELSE plain

\* merge_constraint_patch.  The first interest said in a chat replaces the draft.
Merge(before, patch, said) ==
    LET base == Unanchored(before, patch)
        plain == [f \in Fields |-> IF Has(patch, f) THEN patch[f] ELSE base[f]]
    IN IF Has(patch, "interests_add")
       THEN [plain EXCEPT !.interests =
                (IF "interests" \in said THEN @ ELSE {}) \cup patch["interests_add"]]
       ELSE plain

-----------------------------------------------------------------------------
(* create_session                                                          *)

\* The form says which of its fields the person filled in.
TurnsInit ==
    /\ wishes \in Form
    /\ confirmed \in SUBSET Fields
    /\ goal = "clarify" /\ mode = "discover"
    /\ shown = [kind |-> "words"]
    /\ heard = [interests |-> IF "interests" \in confirmed THEN wishes.interests ELSE {},
                transport_mode |-> wishes.transport_mode,
                start |-> IF StartFields \subseteq confirmed THEN "both" ELSE None]
    /\ turns = 0

-----------------------------------------------------------------------------
(* The first part of a turn: drafts of the profile, buttons, words.         *)

\* _constraints_with_preferences
WithProfile ==
    [f \in Fields |-> IF Has(Profile, f) /\ f \notin confirmed THEN Profile[f] ELSE wishes[f]]

\* What of the interests and the start a patch says; a start may take the place
\* of what was said of it before.
InterestsSaid(patch) == (IF Has(patch, "interests") THEN patch["interests"] ELSE {})
                        \cup (IF Has(patch, "interests_add") THEN patch["interests_add"] ELSE {})
StartSaid(patch, old) ==
    CASE FreeStart(patch) /\ Has(patch, "start_query") -> "both"
      [] FreeStart(patch) /\ ~Has(patch, "start_query") -> "free"
      [] ~FreeStart(patch) /\ Has(patch, "start_query") -> patch["start_query"]
      [] OTHER -> IF Has(patch, "flexible_start") /\ old = "free" THEN None ELSE old

\* What is said of each field: by the person, `own`, and then by the model.  A
\* press or a word of this turn stands above the model, for one and the same field.
Heard(own, model) ==
    LET both == Over(Without(model, DOMAIN own), own)
    IN [interests |-> heard.interests \cup InterestsSaid(own) \cup InterestsSaid(model),
        transport_mode |-> IF Has(both, "transport_mode") THEN both["transport_mode"]
                           ELSE heard.transport_mode,
        start |-> StartSaid(Without(model, DOMAIN own), StartSaid(own, heard.start))]

\* The turn ends: what it worked out is stored together with its answer.
Save(w, said, g, m, answer, own, model) ==
    /\ wishes' = w /\ confirmed' = said
    /\ goal' = g /\ mode' = m
    /\ shown' = answer
    /\ heard' = Heard(own, model)
    /\ turns' = turns + 1

Words == [kind |-> "words"]

\* What the catalogue is searched with, _discovery_params; the same pair tells
\* one search from another, _discovery_signature.
Search(w, said) == [kind |-> "cards", wishes |-> w, confirmed |-> said]

\* A canned answer to a crisis, an injection or what is no journey.
Canned(own) ==
    LET w == Merge(WithProfile, own, confirmed) IN
    \E g \in Goals : Save(w, confirmed \cup Touched(own), g, mode, Words, own, NoPatch)

\* clear_params: the model's defaults, nothing confirmed.
ClearParams ==
    /\ wishes' = [interests |-> {}, transport_mode |-> None, start_query |-> None,
                  flexible_start |-> FALSE]
    /\ confirmed' = {}
    /\ goal' = "clarify" /\ mode' = "discover"
    /\ shown' = Words
    /\ heard' = [interests |-> {}, transport_mode |-> None, start |-> None]
    /\ turns' = turns + 1

-----------------------------------------------------------------------------
(* Answers without the model.                                               *)

\* "Show the options": a button, or words that ask for a route.
MatchFirst(w, said, own) ==
    \/ Save(w, said, "discover", "discover", Search(w, said), own, NoPatch)
    \/ \E g \in Goals : Save(w, said, g, mode, Search(w, said), own, NoPatch)
    \/ \E g \in Goals : Save(w, said, g, mode, Words, own, NoPatch)  \* nothing fits

\* "Build it": what was not said gets a planning default, and stays a draft.
BuildCustom(w, said, own) ==
    LET free == IF said \cap StartFields = {} THEN [w EXCEPT !.flexible_start = TRUE] ELSE w
        full == IF "transport_mode" \in said THEN free ELSE [free EXCEPT !.transport_mode = "walk"]
    IN Save(full, said, "custom", "custom",
            [kind |-> "route", wishes |-> full, confirmed |-> said], own, NoPatch)

-----------------------------------------------------------------------------
(* Answers of the model, _assistant_from_ai.                                *)

NotSearched == [kind |-> "words"]

\* Before the model is asked, a discovering chat searches.
Prefetched(w, said, g) == IF g = "discover" THEN Search(w, said) ELSE NotSearched

\* _ground: the first answer may change what is searched for.  Its patch is
\* merged as it is, what the person pressed included.
Grounded(w, said, g, first, before) ==
    IF g = "discover" THEN Search(Merge(w, first, said), said \cup Touched(first)) ELSE before

\* The model's first answer and, when the catalogue was searched again or tools
\* were called, a second one; either may fail, and then nothing is proposed.
ModelAnswers(w, said, g) ==
    LET start == Prefetched(w, said, g) IN
    {[goal |-> None, patch |-> NoPatch, found |-> start]}
    \cup {[goal |-> None, patch |-> NoPatch, found |-> Grounded(w, said, g, first, start)] :
             first \in Proposed}
    \cup {LET semantic == IF a = None THEN g ELSE a IN
          [goal |-> a, patch |-> Over(first, second), found |-> Grounded(w, said, semantic, first, start)] :
             a \in Goals \cup {None}, first \in Proposed, second \in Proposed}

\* "Only this turn's exact UI choices outrank model extraction."
Effective(own, patch) ==
    Without(patch, {f \in DOMAIN patch : (IF f = "interests_add" THEN "interests" ELSE f) \in Touched(own)})

StaleCards(found, w, said) == IF found = NotSearched THEN Search(w, said) ELSE found  \* fault
\* A catalogue searched with other wishes is searched again.
Cards(found, w, said) == IF found = Search(w, said) THEN found ELSE Search(w, said)

\* The model's goal counts unless the person confirmed a form of controls.
TalkWith(w, said, g, m, own, controls) ==
    \E result \in ModelAnswers(w, said, g) :
        LET last == IF result.goal # None /\ ~controls THEN result.goal ELSE g
            patch == Effective(own, result.patch)
            final == Merge(w, patch, said)
            known == said \cup Touched(patch)
            purpose == CASE last = "custom" -> "custom" [] last = "discover" -> "discover" [] OTHER -> m
        IN \/ last = "discover" /\ Save(final, known, last, purpose, Cards(result.found, final, known), own, result.patch)
           \/ Save(final, known, last, purpose, Words, own, result.patch)

-----------------------------------------------------------------------------
(* The kinds of turns.                                                      *)

MoreTurns == turns < MaxTurns

\* A chip or a toggle, `own`, or a confirmed form of controls.
PressChip(own) ==
    /\ MoreTurns
    /\ LET w == Merge(WithProfile, own, confirmed)
           said == confirmed \cup Touched(own)
       IN \E controls \in BOOLEAN :
             LET g == IF controls THEN (IF mode = "custom" THEN "custom" ELSE "discover") ELSE goal
             IN TalkWith(w, said, g, mode, own, controls)

\* Words, of which the server reads a purpose and, in a chat that discovers or
\* builds, a patch.  Interests found in words replace the earlier ones.
Say(own) ==
    /\ MoreTurns
    /\ \E g \in Goals :
          LET read == IF g \in {"discover", "custom"} THEN own ELSE NoPatch
              w == Merge(WithProfile, read, {})
              said == confirmed \cup Touched(read)
          IN \/ TalkWith(w, said, g, mode, read, FALSE)
             \/ MatchFirst(w, said, read)
             \/ g = "custom" /\ BuildCustom(w, said, read)

PressButton ==
    /\ MoreTurns
    /\ \/ MatchFirst(WithProfile, confirmed, NoPatch)
       \/ BuildCustom(WithProfile, confirmed, NoPatch)
       \/ ClearParams
       \/ Canned(NoPatch)

TurnsNext ==
    \/ \E own \in Chips : PressChip(own)
    \/ \E own \in Spoken : Say(own)
    \/ PressButton

TurnsSpec == TurnsInit /\ [][TurnsNext]_turnVars

-----------------------------------------------------------------------------
(* A confirmed wish is what was last said of it in this chat: no draft of   *)
(* the form or the profile becomes a fact ("so form «природа» does not      *)
(* become a chat fact", chat_actions.py:420), a later word replaces an      *)
(* earlier one, and a press or a word outranks what the model proposes for  *)
(* the same field in that turn.  A free start leaves no town behind, and a  *)
(* town ends the free start.  (Of these two the model's word counts as the  *)
(* last, even after a press in the same turn: see the README.)              *)
ConfirmedAsHeard ==
    /\ "interests" \in confirmed => wishes.interests \subseteq heard.interests
    /\ "transport_mode" \in confirmed => wishes.transport_mode = heard.transport_mode
    /\ heard.start = "free" => wishes.flexible_start /\ wishes.start_query = None
    /\ heard.start \in Towns => ~wishes.flexible_start /\ wishes.start_query = heard.start

(* The cards and the route of the last answer are for the wishes that the   *)
(* chat keeps: never for an area or an interest that the model changed in   *)
(* the same turn ("Never attach old-area cards", session_service.py:842).   *)
ShownForTheWishesKept ==
    shown.kind # "words" => shown.wishes = wishes /\ shown.confirmed = confirmed
=============================================================================
