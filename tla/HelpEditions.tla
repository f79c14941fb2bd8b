---------------------------- MODULE HelpEditions ----------------------------
(* The editions of one help article for one app version: imported from the *)
(* manifest (help_import.py), published, withdrawn and extended by operators *)
(* in the panel (help_publication.py, views.py _publication_action), and    *)
(* shown while published and not past their deadline (help_visibility.py).  *)
(*                                                                         *)
(* A request reads the rows, then writes what it decided from them without  *)
(* looking again.  Imports take an advisory lock against each other; the    *)
(* panel takes none, and only the unique index on published editions stands *)
(* between two of its requests.                                            *)
EXTENDS Integers, FiniteSets, FiniteSetsExt

CONSTANTS
    Revisions,      \* revision numbers of the article
    Operators,      \* requests of the panel and imports
    ReviewDays,     \* the deadline the panel sets, in days from now
    LastDay,        \* bound on the clock
    MaxEditorial,   \* bound on requests
    NoErrand        \* no request

ASSUME EditionsAssumption ==
    /\ Revisions \subseteq Nat \ {0}
    /\ ReviewDays \in Nat \ {0} /\ LastDay \in Nat /\ MaxEditorial \in Nat

VARIABLES
    edition,        \* status and review_until of each revision
    today,          \* the clock, in days
    errand,         \* what each request has read and wants
    begun           \* requests so far

editionVars == <<edition, today, errand, begun>>

Statuses == {"absent", "draft", "published", "withdrawn"}
Days == 0 .. LastDay + ReviewDays
Errands ==
    [kind : {"publish", "withdraw", "extend", "import draft", "import published"},
     of : SUBSET Revisions, seen : [Revisions -> Statuses], until : Days]

EditionsTypeOK ==
    /\ edition \in [Revisions -> [status : Statuses, until : Days]]
    /\ today \in Days
    /\ errand \in [Operators -> Errands \cup {NoErrand}]
    /\ begun \in 0 .. MaxEditorial

EditionsInit ==
    /\ edition = [r \in Revisions |-> [status |-> "absent", until |-> 0]]
    /\ today = 0
    /\ errand = [o \in Operators |-> NoErrand]
    /\ begun = 0

-----------------------------------------------------------------------------
(* visible_help                                                            *)
Visible(r) == edition[r].status = "published" /\ edition[r].until > today

Underway == {o \in Operators : errand[o] # NoErrand}
Importing(o) == errand[o].kind \in {"import draft", "import published"}

-----------------------------------------------------------------------------
(* A request reads the rows it is about.  The page offers rows that exist.  *)
Begin(o, kind, revisions, until) ==
    /\ errand[o] = NoErrand
    /\ begun < MaxEditorial
    /\ begun' = begun + 1
    /\ errand' = [errand EXCEPT ![o] =
                     [kind |-> kind, of |-> revisions, until |-> until,
                      seen |-> [r \in Revisions |-> edition[r].status]]]
    /\ UNCHANGED <<edition, today>>

PanelBegins(o) ==
    \E kind \in {"publish", "withdraw", "extend"},
       revisions \in SUBSET {r \in Revisions : edition[r].status # "absent"} :
           /\ revisions # {}
           /\ Begin(o, kind, revisions, today + ReviewDays)

\* An import that must not do what the manifest says ends with an error: it
\* restores nothing withdrawn, turns nothing published into a draft and puts
\* no older revision over newer history.  A changed text under an old number is
\* refused as well, so a revision keeps its text.  An edition that already has
\* the manifest's status is passed over, its deadline included.
Refused(r, status) ==
    \/ edition[r].status = "withdrawn"
    \/ edition[r].status = "published" /\ status = "draft"
    \/ /\ status = "published"
       /\ \E later \in Revisions : later > r /\ edition[later].status \in {"published", "withdrawn"}

Imported(r, status) == edition[r].status # status /\ ~Refused(r, status)

ImportBegins(o) ==
    /\ \A other \in Underway : ~Importing(other)
    /\ \E r \in Revisions, status \in {"draft", "published"} :
           /\ Imported(r, status)
           /\ \E until \in {today + 1, today + ReviewDays} :
                  Begin(o, IF status = "draft" THEN "import draft" ELSE "import published",
                        {r}, until)

-----------------------------------------------------------------------------
(* It writes and commits.                                                   *)

\* Publishing one after the other in the order of their numbers, each retiring
\* the one before: the last of `fresh` stays, and whatever was published goes.
\* Only what changes is written: the status of the others stays as it is now.
Published(fresh, retired, until) ==
    LET last == Max(fresh) IN
    [r \in Revisions |->
        CASE r = last -> [status |-> "published", until |-> until]
          [] r \in fresh \ {last} -> [status |-> "withdrawn", until |-> until]
          [] r \in retired \ fresh -> [edition[r] EXCEPT !.status = "withdrawn"]
          [] OTHER -> edition[r]]

\* The unique index on published editions fails a request that would leave two.
Save(editions) ==
    edition' = IF Cardinality({r \in Revisions : editions[r].status = "published"}) > 1
               THEN edition ELSE editions

\* What was published when the request read the rows, or a moment later, when
\* publish_revisions selects what to retire.
Retirable(request) ==
    {{r \in Revisions : request.seen[r] = "published"},
     {r \in Revisions : edition[r].status = "published"}}

EvenWithdrawn(request) == {r \in request.of : request.seen[r] # "published"}  \* fault
\* "Withdrawal is deliberate and finite": only drafts are published.
Fresh(request) == {r \in request.of : request.seen[r] = "draft"}

CommitPublish(request) ==
    IF Fresh(request) = {} THEN UNCHANGED edition
    ELSE \E retired \in Retirable(request) : Save(Published(Fresh(request), retired, request.until))

CommitWithdraw(request) ==
    edition' = [r \in Revisions |->
                   IF r \in request.of /\ request.seen[r] # "withdrawn"
                   THEN [edition[r] EXCEPT !.status = "withdrawn"] ELSE edition[r]]

\* Only a published edition has a deadline to move.
CommitExtend(request) ==
    edition' = [r \in Revisions |->
                   IF r \in request.of /\ request.seen[r] = "published"
                   THEN [edition[r] EXCEPT !.until = request.until] ELSE edition[r]]

CommitImport(request) ==
    LET r == CHOOSE r \in request.of : TRUE IN
    IF request.kind = "import draft"
    THEN edition' = [edition EXCEPT ![r].status = "draft"]
    ELSE Save(Published({r}, {s \in Revisions : request.seen[s] = "published"}, request.until))

Commit(o) ==
    /\ errand[o] # NoErrand
    /\ LET request == errand[o] IN
       CASE request.kind = "publish" -> CommitPublish(request)
         [] request.kind = "withdraw" -> CommitWithdraw(request)
         [] request.kind = "extend" -> CommitExtend(request)
         [] OTHER -> CommitImport(request)
    /\ errand' = [errand EXCEPT ![o] = NoErrand]
    /\ UNCHANGED <<today, begun>>

NextDay ==
    /\ today < LastDay
    /\ today' = today + 1
    /\ UNCHANGED <<edition, errand, begun>>

EditionsNext ==
    \/ \E o \in Operators : PanelBegins(o) \/ ImportBegins(o) \/ Commit(o)
    \/ NextDay

EditionsSpec == EditionsInit /\ [][EditionsNext]_editionVars

-----------------------------------------------------------------------------
(* "an expired article silently reappearing is exactly what the deadline is *)
(* supposed to prevent" (help_publication.py:123-125), and withdrawal is    *)
(* "deliberate and finite" (77).  An edition that readers no longer see     *)
(* comes back only because an operator who read it again extended it, and   *)
(* once withdrawn never: neither another import of the manifest nor a       *)
(* publication, of one edition or several, brings it back.  What the locks  *)
(* leave open is a publication that read it while it was still a draft: it  *)
(* may write after another request showed and withdrew it.                  *)
Closes(o) == errand[o] # NoErrand /\ errand'[o] = NoErrand

Reread(r) == /\ edition[r].status = "published"
             /\ \E o \in Operators : Closes(o) /\ errand[o].kind = "extend" /\ r \in errand[o].of

ReadBeforeShown(r) == \E o \in Operators : Closes(o) /\ errand[o].seen[r] = "draft"

ShownAgainOnlyWhenReread ==
    [][\A r \in Revisions :
          edition[r].status \in {"published", "withdrawn"} /\ ~Visible(r) /\ Visible(r)'
              => Reread(r) \/ ReadBeforeShown(r)]_editionVars
=============================================================================
